------------------------- MODULE WaitFreeFIFOProofs -------------------------
(***************************************************************************)
(* Proofs about the wait-free FIFO, for any number of nested contexts, of  *)
(* slots and of items: its descriptors are used while their operations are *)
(* under way and no longer, whoever helps them, every value read from one  *)
(* has been written before, and each operation takes effect once, as on an *)
(* atomic queue.                                                           *)
(***************************************************************************)
EXTENDS WaitFreeFIFO, SequenceTheorems, FiniteSetTheorems, TLAPS

-----------------------------------------------------------------------------
(***************************************************************************)
(* The inductive invariant.                                                *)
(***************************************************************************)

Prologue == {"test", "load", "store"}
Loop == {"open", "link", "check", "act", "linkIndex", "moveIndex", "mark"}

(* PendingOp is the descriptor of an operation that has posted it and not  *)
(* yet withdrawn it.                                                       *)
Posted ==
  pending # NULL => /\ frame[pending].target = pending
                    /\ frame[pending].pc \in Prologue \cup Loop \cup {"withdraw"}

(* A level works for itself or for one that it preempted.                  *)
Targets ==
  \A l \in Level :
    /\ frame[l].pc \in Prologue \cup Loop => frame[l].target # NULL
    /\ frame[l].pc \in {"idle", "begin"} => frame[l].target = NULL /\ frame[l].field = 1
    /\ frame[l].target # NULL => frame[l].target <= l /\ Active(frame[l].target)

(* The fields that the prologue is past are written, and what a level is   *)
(* about to store in one is of its kind.                                   *)
Written(e, g) == e[Fields[g]] # UNREAD

Read ==
  \A l \in Level :
    /\ frame[l].pc \in Prologue => \A g \in 1 .. 4 : g < frame[l].field => Written(d(l), g)
    /\ frame[l].pc \in Loop => \A g \in 1 .. 4 : Written(d(l), g)
    /\ frame[l].pc = "store" => 
         frame[l].read \in IF frame[l].field <= 2 THEN Index ELSE Slots

FIFOInv == TypeOK /\ Posted /\ Targets /\ Read

-----------------------------------------------------------------------------
(***************************************************************************)
(* Types.                                                                  *)
(***************************************************************************)

(* NULL, SIGNAL and UNREAD are no level, no index and no item.             *)
LEMMA Constants ==
  /\ MaxLevel \in Nat /\ QueueLength \in Nat \ {0} /\ MaxIndex \in Nat /\ MaxIndex > 0
  /\ Level \subseteq Nat /\ Index \subseteq Nat /\ StartIndex \in Index
  /\ NULL \notin Level /\ UNREAD \notin Index /\ UNREAD \notin Slots
  /\ MaxCalls \in Nat
  <1>1. \A x \in {NULL, SIGNAL, UNREAD} : x \notin Items /\ x \notin Level /\ x \notin Index
    BY QueueAssumption
  <1> QED
    BY <1>1, QueueAssumption DEF Level, Index, Slots

(* An index leads to a slot, and to another index.                         *)
LEMMA IndexFacts ==
  ASSUME NEW i \in Nat
  PROVE  i % MaxIndex \in Index /\ i % QueueLength \in 0 .. QueueLength - 1
  BY Constants DEF Index

LEMMA FieldNames ==
  /\ Fields[1] = "propose" /\ Fields[2] = "index"
  /\ Fields[3] = "slotPropose" /\ Fields[4] = "slotReturn" /\ Len(Fields) = 4
  BY DEF Fields

Descriptors ==
  [kind : {"none", "enqueue", "dequeue"}, item : Items \cup {NULL},
   propose : Index \cup {UNREAD}, index : Index \cup {UNREAD},
   slotPropose : Slots \cup {UNREAD}, slotReturn : Slots \cup {UNREAD},
   done : BOOLEAN]

(* A descriptor whose fields are all written.                              *)
LEMMA WrittenTypes ==
  ASSUME NEW e \in Descriptors
  PROVE  /\ Written(e, 1) => e.propose \in Index
         /\ Written(e, 2) => e.index \in Index
         /\ Written(e, 3) => e.slotPropose \in Slots
         /\ Written(e, 4) => e.slotReturn \in Slots
  BY FieldNames DEF Written, Descriptors

LEMMA Types ==
  ASSUME TypeOK
  PROVE  /\ des \in [Level -> Descriptors] /\ frame \in [Level -> Frames]
         /\ head \in Index /\ tail \in Index /\ pending \in Level \cup {NULL}
         /\ q \in [0 .. QueueLength - 1 -> Slots] /\ marker \in Slots
         /\ calls \in 0 .. MaxCalls
  BY DEF TypeOK, Descriptors, Slots

-----------------------------------------------------------------------------
(***************************************************************************)
(* A step within an operation: level l goes on, fr becomes its frame.      *)
(***************************************************************************)
LEMMA WorkStep ==
  ASSUME FIFOInv, NEW l \in Level, NEW fr \in Frames,
         frame[l].pc \notin {"idle", "begin"}, fr.pc \notin {"idle", "begin"},
         fr.target = frame[l].target, frame' = [frame EXCEPT ![l] = fr],
         fr.pc \in Prologue \cup Loop => fr.target # NULL,
         \A m \in Level, g \in 1 .. 4 : Written(des[m], g) => Written(des'[m], g),
         fr.pc \in Prologue =>
           \A g \in 1 .. 4 : g < fr.field => Written(des'[fr.target], g),
         fr.pc \in Loop => \A g \in 1 .. 4 : Written(des'[fr.target], g),
         fr.pc = "store" => fr.read \in IF fr.field <= 2 THEN Index ELSE Slots,
         \/ pending' = NULL
         \/ pending' = pending /\ (pending = l => fr.pc \in Prologue \cup Loop \cup {"withdraw"})
  PROVE  Posted' /\ Targets' /\ Read' /\ frame' \in [Level -> Frames]
  <1>0. frame \in [Level -> Frames] /\ pending \in Level \cup {NULL}
    BY Types DEF FIFOInv
  <1>1. \A m \in Level : frame'[m] = IF m = l THEN fr ELSE frame[m]
    BY <1>0
  <1>2. \A m \in Level : frame'[m].target = frame[m].target
    BY <1>1
  <1>3. \A m \in Level : Active(m)' <=> Active(m)
    BY <1>1 DEF Active
  <1>4. Posted'
    BY <1>0, <1>1, <1>2, Constants DEF FIFOInv, Posted
  <1>5. Targets'
    <2> SUFFICES ASSUME NEW m \in Level
                 PROVE  /\ frame'[m].pc \in Prologue \cup Loop => frame'[m].target # NULL
                        /\ frame'[m].pc \in {"idle", "begin"} =>
                             frame'[m].target = NULL /\ frame'[m].field = 1
                        /\ frame'[m].target # NULL =>
                             frame'[m].target <= m /\ Active(frame[m].target)'
      BY <1>2 DEF Targets
    <2>1. frame[m].target \in Level \cup {NULL}
      BY <1>0 DEF Frames
    <2> QED
      BY <1>1, <1>2, <1>3, <2>1 DEF FIFOInv, Targets
  <1>6. Read'
    <2> SUFFICES ASSUME NEW m \in Level
                 PROVE  /\ frame'[m].pc \in Prologue =>
                             \A g \in 1 .. 4 : g < frame'[m].field => Written(des'[frame[m].target], g)
                        /\ frame'[m].pc \in Loop =>
                             \A g \in 1 .. 4 : Written(des'[frame[m].target], g)
                        /\ frame'[m].pc = "store" =>
                             frame'[m].read \in IF frame'[m].field <= 2 THEN Index ELSE Slots
      BY <1>2 DEF Read, d, Written
    <2>1. CASE m = l
      BY <1>1, <2>1
    <2>2. CASE m # l
      <3>1. frame[m].pc \in Prologue \cup Loop => frame[m].target \in Level
        BY <1>0 DEF FIFOInv, Targets, Frames
      <3> QED
        BY <1>1, <2>2, <3>1 DEF FIFOInv, Read, d
    <2> QED
      BY <2>1, <2>2
  <1> QED
    BY <1>0, <1>1, <1>4, <1>5, <1>6

(* A step of the code that leaves the descriptors as they are, or marks    *)
(* one done.                                                               *)
LEMMA GoOn ==
  ASSUME FIFOInv, NEW l \in Level, NEW fr \in Frames,
         frame[l].pc \in Prologue \cup Loop, fr.target = frame[l].target,
         \/ fr.pc \in Prologue \cup Loop \cup {"withdraw"}
         \/ fr.pc = "post" /\ frame[l].target # l,
         frame' = [frame EXCEPT ![l] = fr],
         \/ des' = des
         \/ des' = [des EXCEPT ![frame[l].target].done = TRUE],
         fr.pc \in Prologue => \A g \in 1 .. 4 : g < fr.field => Written(d(l), g),
         fr.pc \in Loop => \A g \in 1 .. 4 : Written(d(l), g),
         fr.pc = "store" => fr.read \in IF fr.field <= 2 THEN Index ELSE Slots,
         pending' = pending
  PROVE  Posted' /\ Targets' /\ Read' /\ frame' \in [Level -> Frames]
                 /\ des' \in [Level -> Descriptors]
  <1>1. frame[l].target \in Level /\ des \in [Level -> Descriptors]
    BY Types DEF FIFOInv, Targets, Frames
  <1>2. /\ des' \in [Level -> Descriptors]
        /\ \A m \in Level, g \in 1 .. 4 : Written(des'[m], g) <=> Written(des[m], g)
    <2>1. CASE des' = des
      BY <1>1, <2>1
    <2>2. CASE des' = [des EXCEPT ![frame[l].target].done = TRUE]
      <3>0. ASSUME NEW m \in Level
            PROVE  des'[m] = des[m] \/ des'[m] = [des[m] EXCEPT !.done = TRUE]
        BY <1>1, <2>2
      <3>1. \A m \in Level : /\ des'[m] \in Descriptors
                             /\ des'[m].propose = des[m].propose
                             /\ des'[m].index = des[m].index
                             /\ des'[m].slotPropose = des[m].slotPropose
                             /\ des'[m].slotReturn = des[m].slotReturn
        <4> SUFFICES ASSUME NEW m \in Level
                     PROVE  /\ des'[m] \in Descriptors
                            /\ des'[m].propose = des[m].propose
                            /\ des'[m].index = des[m].index
                            /\ des'[m].slotPropose = des[m].slotPropose
                            /\ des'[m].slotReturn = des[m].slotReturn
          OBVIOUS
        <4>1. des[m] \in Descriptors
          BY <1>1
        <4>2. CASE des'[m] = des[m]
          BY <4>1, <4>2
        <4>3. CASE des'[m] = [des[m] EXCEPT !.done = TRUE]
          <5>1. /\ [des[m] EXCEPT !.done = TRUE] \in Descriptors
                /\ [des[m] EXCEPT !.done = TRUE].propose = des[m].propose
                /\ [des[m] EXCEPT !.done = TRUE].index = des[m].index
                /\ [des[m] EXCEPT !.done = TRUE].slotPropose = des[m].slotPropose
                /\ [des[m] EXCEPT !.done = TRUE].slotReturn = des[m].slotReturn
            BY <4>1 DEF Descriptors
          <5> QED
            BY <4>3, <5>1
        <4> QED
          BY <3>0, <4>2, <4>3
      <3>2. \A g \in 1 .. 4 : g = 1 \/ g = 2 \/ g = 3 \/ g = 4
        OBVIOUS
      <3>3. des' \in [Level -> Descriptors]
        BY <1>1, <2>2, <3>1
      <3>4. ASSUME NEW m \in Level, NEW g \in 1 .. 4
            PROVE  des'[m][Fields[g]] = des[m][Fields[g]]
        BY <3>1, <3>2, FieldNames
      <3> QED
        BY <3>3, <3>4 DEF Written
    <2> QED
      BY <2>1, <2>2
  <1>3. pending = l => frame[l].target = l
    BY Constants DEF FIFOInv, Posted
  <1>4. /\ frame[l].pc \notin {"idle", "begin"} /\ fr.pc \notin {"idle", "begin"}
        /\ fr.target # NULL
    BY <1>1, Constants DEF Prologue, Loop
  <1>5. /\ fr.pc \in Prologue =>
             \A g \in 1 .. 4 : g < fr.field => Written(des'[fr.target], g)
        /\ fr.pc \in Loop => \A g \in 1 .. 4 : Written(des'[fr.target], g)
    BY <1>1, <1>2 DEF d
  <1> QED
    BY <1>2, <1>3, <1>4, <1>5, WorkStep

(* What a level at work in an operation is known to have.                  *)
LEMMA AtFacts ==
  ASSUME FIFOInv, NEW l \in Level, NEW pc \in Prologue \cup Loop, At(l, pc)
  PROVE  /\ frame[l] \in Frames /\ frame[l].pc = pc /\ frame[l].target \in Level
         /\ d(l) \in Descriptors /\ frame[l].field \in 1 .. 4
         /\ pc \in Loop =>
              /\ d(l).index \in Index /\ slotOf(l) \in 0 .. QueueLength - 1
              /\ q[slotOf(l)] \in Slots /\ d(l).slotReturn \in Slots
              /\ \A g \in 1 .. 4 : Written(d(l), g)
         /\ \/ After(l) = "withdraw"
            \/ After(l) = "post" /\ frame[l].target # l
  <1>1. frame[l] \in Frames /\ frame[l].pc = pc
    BY Types DEF At, FIFOInv
  <1>2. frame[l].target \in Level
    BY <1>1 DEF FIFOInv, Targets, Frames
  <1>3. d(l) \in Descriptors
    BY <1>2, Types DEF FIFOInv, d
  <1>4. frame[l].field \in 1 .. 4
    BY <1>1 DEF Frames
  <1>5. ASSUME pc \in Loop
        PROVE  /\ d(l).index \in Index /\ slotOf(l) \in 0 .. QueueLength - 1
               /\ q[slotOf(l)] \in Slots /\ d(l).slotReturn \in Slots
               /\ \A g \in 1 .. 4 : Written(d(l), g)
    <2>1. \A g \in 1 .. 4 : Written(d(l), g)
      BY <1>1, <1>5 DEF FIFOInv, Read
    <2>2. d(l).index \in Index /\ d(l).slotReturn \in Slots
      BY <1>3, <2>1, WrittenTypes
    <2>3. slotOf(l) \in 0 .. QueueLength - 1
      BY <2>2, Constants, IndexFacts DEF slotOf
    <2> QED
      BY <2>1, <2>2, <2>3, Types DEF FIFOInv
  <1> QED
    BY <1>1, <1>2, <1>3, <1>4, <1>5 DEF After

(* The prologue.                                                           *)
LEMMA NextFieldFacts ==
  ASSUME NEW f \in 1 .. 4
  PROVE  \/ NextField(f).pc = "test" /\ NextField(f).field = f + 1 /\ f < 4
         \/ NextField(f).pc = "open" /\ NextField(f).field = f /\ f = 4
  BY FieldNames DEF NextField

LEMMA TestFieldStep ==
  ASSUME FIFOInv, NEW l \in Level, TestField(l)
  PROVE  FIFOInv'
  <1> DEFINE f == frame[l].field
             next == IF d(l)[Fields[f]] = UNREAD THEN [pc |-> "load", field |-> f]
                                                 ELSE NextField(f)
             fr == [frame[l] EXCEPT !.pc = next.pc, !.field = next.field]
  <1>1. At(l, "test") /\ frame[l].pc = "test" /\ "test" \in Prologue
    BY DEF TestField, At, Prologue
  <1>2. frame[l] \in Frames /\ f \in 1 .. 4 /\ frame[l].target \in Level
    BY <1>1, AtFacts
  <1>3. frame' = [frame EXCEPT ![l] = fr]
    <2>1. frame' = [frame EXCEPT ![l].pc = next.pc, ![l].field = next.field]
      BY DEF TestField
    <2> HIDE DEF next
    <2> QED
      BY <2>1, Types DEF FIFOInv, Frames
  <1>4. \A g \in 1 .. 4 : g < f => Written(d(l), g)
    BY <1>1 DEF FIFOInv, Read
  <1>5. /\ next.field \in 1 .. 4
        /\ \/ next.pc = "load" /\ next.field = f
           \/ next.pc = "test" /\ next.field = f + 1 /\ Written(d(l), f)
           \/ next.pc = "open" /\ f = 4 /\ Written(d(l), 4)
    BY <1>2, NextFieldFacts DEF Written
  <1> HIDE DEF next
  <1>6. /\ fr \in Frames /\ fr.target = frame[l].target
        /\ fr.pc = next.pc /\ fr.field = next.field
    BY <1>2, <1>5 DEF Frames
  <1> HIDE DEF fr
  <1>7. /\ fr.pc \in Prologue => \A g \in 1 .. 4 : g < fr.field => Written(d(l), g)
        /\ fr.pc \in Loop => \A g \in 1 .. 4 : Written(d(l), g)
        /\ fr.pc \in Prologue \cup Loop /\ fr.pc # "store"
    BY <1>2, <1>4, <1>5, <1>6 DEF Prologue, Loop
  <1>8. des' = des /\ pending' = pending
    BY DEF TestField
  <1>9. Posted' /\ Targets' /\ Read' /\ frame' \in [Level -> Frames]
    BY <1>1, <1>3, <1>6, <1>7, <1>8, GoOn
  <1> QED
    BY <1>9 DEF FIFOInv, TypeOK, TestField, queue

LEMMA LoadFieldStep ==
  ASSUME FIFOInv, NEW l \in Level, LoadField(l)
  PROVE  FIFOInv'
  <1> DEFINE fr == [frame[l] EXCEPT !.pc = "store", !.read = Source(l)]
  <1>1. At(l, "load") /\ frame[l].pc = "load" /\ "load" \in Prologue
    BY DEF LoadField, At, Prologue
  <1>2. frame[l] \in Frames /\ frame[l].field \in 1 .. 4 /\ d(l) \in Descriptors
    BY <1>1, AtFacts
  <1>3. frame' = [frame EXCEPT ![l] = fr]
    BY Types DEF LoadField, FIFOInv, Frames
  <1>4. \A g \in 1 .. 4 : g < frame[l].field => Written(d(l), g)
    BY <1>1 DEF FIFOInv, Read
  <1>5. Source(l) \in IF frame[l].field <= 2 THEN Index ELSE Slots
    <2>1. CASE frame[l].field = 1
      BY <2>1, FieldNames, Types DEF Source, FIFOInv
    <2>2. CASE frame[l].field = 2
      <3>1. Written(d(l), 1)
        BY <1>4, <2>2
      <3> QED
        BY <2>2, <3>1, <1>2, FieldNames, WrittenTypes DEF Source
    <2>3. CASE frame[l].field = 3
      <3>1. Written(d(l), 2)
        BY <1>4, <2>3
      <3>2. slotOf(l) \in 0 .. QueueLength - 1
        BY <3>1, <1>2, WrittenTypes, IndexFacts, Constants DEF slotOf
      <3> QED
        BY <2>3, <3>2, FieldNames, Types DEF Source, FIFOInv
    <2>4. CASE frame[l].field = 4
      <3>1. Written(d(l), 3)
        BY <1>4, <2>4
      <3> QED
        BY <2>4, <3>1, <1>2, FieldNames, WrittenTypes DEF Source
    <2> QED
      BY <1>2, <2>1, <2>2, <2>3, <2>4
  <1> HIDE DEF Source
  <1>6. /\ fr \in Frames /\ fr.target = frame[l].target /\ fr.field = frame[l].field
        /\ fr.pc = "store" /\ fr.read = Source(l)
    BY <1>2, <1>5 DEF Frames
  <1> HIDE DEF fr
  <1>7. "store" \in Prologue /\ "store" \notin Loop
    BY DEF Prologue, Loop
  <1>8. des' = des /\ pending' = pending
    BY DEF LoadField
  <1>9. Posted' /\ Targets' /\ Read' /\ frame' \in [Level -> Frames]
    BY <1>1, <1>3, <1>4, <1>5, <1>6, <1>7, <1>8, GoOn
  <1> QED
    BY <1>9 DEF FIFOInv, TypeOK, LoadField, queue

(* The store of a field writes a value of its kind.                        *)
LEMMA FieldStored ==
  ASSUME NEW e \in Descriptors, NEW f \in 1 .. 4,
         NEW v \in IF f <= 2 THEN Index ELSE Slots
  PROVE  /\ [e EXCEPT ![Fields[f]] = v] \in Descriptors
         /\ \A g \in 1 .. 4 : Written(e, g) \/ g = f => Written([e EXCEPT ![Fields[f]] = v], g)
  <1> DEFINE w == [e EXCEPT ![Fields[f]] = v]
  <1>1. v # UNREAD
    BY Constants
  <1>2. \A g \in 1 .. 4 : g = 1 \/ g = 2 \/ g = 3 \/ g = 4
    OBVIOUS
  <1>3. w \in Descriptors
    <2>1. CASE f = 1
      BY <2>1, FieldNames DEF Descriptors
    <2>2. CASE f = 2
      BY <2>2, FieldNames DEF Descriptors
    <2>3. CASE f = 3
      BY <2>3, FieldNames DEF Descriptors
    <2>4. CASE f = 4
      BY <2>4, FieldNames DEF Descriptors
    <2> QED
      BY <1>2, <2>1, <2>2, <2>3, <2>4
  <1>4. ASSUME NEW g \in 1 .. 4
        PROVE  w[Fields[g]] = IF g = f THEN v ELSE e[Fields[g]]
    BY <1>2, FieldNames DEF Descriptors
  <1> QED
    BY <1>1, <1>3, <1>4 DEF Written

LEMMA StoreFieldStep ==
  ASSUME FIFOInv, NEW l \in Level, StoreField(l)
  PROVE  FIFOInv'
  <1> DEFINE f == frame[l].field
             t == frame[l].target
             e == [des[t] EXCEPT ![Fields[f]] = frame[l].read]
             next == NextField(f)
             fr == [frame[l] EXCEPT !.pc = next.pc, !.field = next.field, !.read = NULL]
  <1>1. At(l, "store") /\ frame[l].pc = "store" /\ "store" \in Prologue
    BY DEF StoreField, At, Prologue
  <1>2. frame[l] \in Frames /\ f \in 1 .. 4 /\ t \in Level /\ d(l) \in Descriptors
    BY <1>1, AtFacts
  <1>3. frame' = [frame EXCEPT ![l] = fr]
    <2>1. frame' = [frame EXCEPT ![l].pc = next.pc, ![l].field = next.field, ![l].read = NULL]
      BY DEF StoreField
    <2> HIDE DEF next
    <2> QED
      BY <2>1, Types DEF FIFOInv, Frames
  <1>4. /\ \A g \in 1 .. 4 : g < f => Written(d(l), g)
        /\ frame[l].read \in IF f <= 2 THEN Index ELSE Slots
    BY <1>1 DEF FIFOInv, Read
  <1>5. /\ e \in Descriptors
        /\ \A g \in 1 .. 4 : Written(des[t], g) \/ g = f => Written(e, g)
    BY <1>2, <1>4, FieldStored DEF d
  <1>6. des' = [des EXCEPT ![t] = e]
    <2>1. des' = [des EXCEPT ![t][Fields[f]] = frame[l].read]
      BY DEF StoreField
    <2> QED
      BY <2>1, <1>2, Types DEF FIFOInv
  <1> HIDE DEF e
  <1>7. /\ des' \in [Level -> Descriptors] /\ des'[t] = e
        /\ \A m \in Level, g \in 1 .. 4 : Written(des[m], g) => Written(des'[m], g)
    <2>1. des \in [Level -> Descriptors]
      BY Types DEF FIFOInv
    <2>2. \A m \in Level : des'[m] = IF m = t THEN e ELSE des[m]
      BY <1>6, <2>1
    <2> QED
      BY <1>2, <1>5, <1>6, <2>1, <2>2
  <1>8. /\ next.field \in 1 .. 4
        /\ \/ next.pc = "test" /\ next.field = f + 1
           \/ next.pc = "open" /\ f = 4
    BY <1>2, NextFieldFacts
  <1> HIDE DEF next
  <1>9. /\ fr \in Frames /\ fr.target = t /\ fr.pc = next.pc /\ fr.field = next.field
    BY <1>2, <1>8, Constants DEF Frames, Slots
  <1> HIDE DEF fr
  <1>10. /\ fr.pc \in Prologue => \A g \in 1 .. 4 : g < fr.field => Written(des'[fr.target], g)
         /\ fr.pc \in Loop => \A g \in 1 .. 4 : Written(des'[fr.target], g)
    BY <1>2, <1>4, <1>5, <1>7, <1>8, <1>9 DEF Prologue, Loop, d
  <1>11. /\ fr.pc # "store" /\ fr.pc \notin {"idle", "begin"} /\ fr.target # NULL
         /\ fr.pc \in Prologue \cup Loop /\ frame[l].pc \notin {"idle", "begin"}
    BY <1>1, <1>2, <1>8, <1>9, Constants DEF Prologue, Loop
  <1>12. pending' = pending
    BY DEF StoreField
  <1>13. Posted' /\ Targets' /\ Read' /\ frame' \in [Level -> Frames]
    BY <1>3, <1>7, <1>9, <1>10, <1>11, <1>12, WorkStep
  <1> QED
    BY <1>7, <1>13 DEF FIFOInv, TypeOK, StoreField, queue, Descriptors

(* The loop.  A level stays in it, or leaves it to withdraw its own        *)
(* operation or, having helped, to post it.                                *)
LEMMA LoopStep ==
  ASSUME FIFOInv, NEW l \in Level, NEW pc \in Loop, At(l, pc),
         NEW to, to \in Loop \/ to = After(l), NEW read \in Index \cup Slots,
         \/ frame' = [frame EXCEPT ![l].pc = to]
         \/ frame' = [frame EXCEPT ![l].pc = to, ![l].read = read],
         \/ des' = des
         \/ des' = [des EXCEPT ![frame[l].target].done = TRUE],
         pending' = pending
  PROVE  /\ Posted' /\ Targets' /\ Read'
         /\ frame' \in [Level -> Frames] /\ des' \in [Level -> Descriptors]
  <1>1. /\ frame[l] \in Frames /\ frame[l].pc \in Loop
        /\ \A g \in 1 .. 4 : Written(d(l), g)
        /\ \/ After(l) = "withdraw"
           \/ After(l) = "post" /\ frame[l].target # l
    BY AtFacts
  <1>2. to \in Loop \cup {"withdraw", "post"}
    BY <1>1
  <1>3. PICK fr \in Frames : /\ frame' = [frame EXCEPT ![l] = fr]
                             /\ fr.pc = to /\ fr.target = frame[l].target
    <2> DEFINE kept == [frame[l] EXCEPT !.pc = to]
               read2 == [frame[l] EXCEPT !.pc = to, !.read = read]
    <2>1. kept \in Frames /\ kept.pc = to /\ kept.target = frame[l].target
      BY <1>1, <1>2 DEF Frames, Loop
    <2>2. read2 \in Frames /\ read2.pc = to /\ read2.target = frame[l].target
      BY <1>1, <1>2 DEF Frames, Loop
    <2>3. CASE frame' = [frame EXCEPT ![l].pc = to]
      <3>1. frame' = [frame EXCEPT ![l] = kept]
        BY <2>3, Types DEF FIFOInv, Frames
      <3> QED
        BY <2>1, <3>1
    <2>4. CASE frame' = [frame EXCEPT ![l].pc = to, ![l].read = read]
      <3>1. frame' = [frame EXCEPT ![l] = read2]
        BY <2>4, Types DEF FIFOInv, Frames
      <3> QED
        BY <2>2, <3>1
    <2> QED
      BY <2>3, <2>4
  <1>4. /\ fr.pc \in Prologue \cup Loop \cup {"withdraw"}
             \/ (fr.pc = "post" /\ frame[l].target # l)
        /\ fr.pc \notin Prologue /\ fr.pc # "store"
    BY <1>1, <1>2, <1>3 DEF Prologue, Loop
  <1> QED
    BY <1>1, <1>3, <1>4, GoOn

LEMMA OpenLoopStep ==
  ASSUME FIFOInv, NEW l \in Level, OpenLoop(l)
  PROVE  FIFOInv'
  <1>1. At(l, "open") /\ "open" \in Loop /\ "link" \in Loop /\ NULL \in Index \cup Slots
    BY DEF OpenLoop, Loop, Slots
  <1>2. /\ \E to : (to \in Loop \/ to = After(l)) /\ frame' = [frame EXCEPT ![l].pc = to]
        /\ des' = des /\ pending' = pending
    BY <1>1 DEF OpenLoop, Goto
  <1>3. /\ Posted' /\ Targets' /\ Read'
        /\ frame' \in [Level -> Frames] /\ des' \in [Level -> Descriptors]
    BY <1>1, <1>2, LoopStep
  <1> QED
    BY <1>3 DEF FIFOInv, TypeOK, OpenLoop, queue, Descriptors

LEMMA LoadLinkedStep ==
  ASSUME FIFOInv, NEW l \in Level, LoadLinked(l)
  PROVE  FIFOInv'
  <1>1. At(l, "link") /\ "link" \in Loop /\ "check" \in Loop
    BY DEF LoadLinked, Loop
  <1>2. q[slotOf(l)] \in Index \cup Slots
    BY <1>1, AtFacts
  <1>3. /\ frame' = [frame EXCEPT ![l].pc = "check", ![l].read = q[slotOf(l)]]
        /\ des' = des /\ pending' = pending
    BY DEF LoadLinked
  <1>4. /\ Posted' /\ Targets' /\ Read'
        /\ frame' \in [Level -> Frames] /\ des' \in [Level -> Descriptors]
    BY <1>1, <1>2, <1>3, LoopStep
  <1> QED
    BY <1>4 DEF FIFOInv, TypeOK, LoadLinked, queue, Descriptors

LEMMA CheckDoneStep ==
  ASSUME FIFOInv, NEW l \in Level, CheckDone(l)
  PROVE  FIFOInv'
  <1> DEFINE to == IF d(l).done THEN After(l) ELSE "act"
             read == IF d(l).done THEN NULL ELSE frame[l].read
  <1>1. At(l, "check") /\ "check" \in Loop /\ "act" \in Loop
    BY DEF CheckDone, Loop
  <1>2. frame[l] \in Frames
    BY <1>1, AtFacts
  <1>3. read \in Index \cup Slots /\ (to \in Loop \/ to = After(l))
    BY <1>1, <1>2 DEF Frames, Slots
  <1>4. /\ frame' = [frame EXCEPT ![l].pc = to, ![l].read = read]
        /\ des' = des /\ pending' = pending
    BY Types DEF CheckDone, FIFOInv, Frames
  <1> HIDE DEF to, read
  <1>5. /\ Posted' /\ Targets' /\ Read'
        /\ frame' \in [Level -> Frames] /\ des' \in [Level -> Descriptors]
    BY <1>1, <1>3, <1>4, LoopStep
  <1> QED
    BY <1>5 DEF FIFOInv, TypeOK, CheckDone, queue, Descriptors

LEMMA ActStep ==
  ASSUME FIFOInv, NEW l \in Level, Act(l)
  PROVE  FIFOInv'
  <1>1. At(l, "act") /\ "act" \in Loop
    BY DEF Act, Loop
  <1>2. /\ d(l) \in Descriptors /\ slotOf(l) \in 0 .. QueueLength - 1
        /\ q \in [0 .. QueueLength - 1 -> Slots]
    BY <1>1, AtFacts, Types DEF FIFOInv
  <1>3. Stored(d(l), frame[l].read) \in Slots
    BY <1>2 DEF Stored, Descriptors, Slots
  <1>4. /\ q' = q \/ q' = [q EXCEPT ![slotOf(l)] = Stored(d(l), frame[l].read)]
        /\ reserved' = FALSE \/ reserved' = reserved
        /\ \E to \in {"link", Settled(l)} :
             frame' = [frame EXCEPT ![l].pc = to, ![l].read = NULL]
        /\ UNCHANGED <<marker, head, tail, pending, des, calls>>
    BY DEF Act
  <1>5. q' \in [0 .. QueueLength - 1 -> Slots]
    BY <1>2, <1>3, <1>4
  <1>6. {"link", Settled(l)} \subseteq Loop /\ NULL \in Index \cup Slots
    BY DEF Settled, Loop, Slots
  <1>7. /\ Posted' /\ Targets' /\ Read'
        /\ frame' \in [Level -> Frames] /\ des' \in [Level -> Descriptors]
    <2>1. PICK to \in Loop : frame' = [frame EXCEPT ![l].pc = to, ![l].read = NULL]
      BY <1>4, <1>6
    <2> QED
      BY <1>1, <1>4, <1>6, <2>1, LoopStep
  <1> QED
    BY <1>4, <1>5, <1>7 DEF FIFOInv, TypeOK, Descriptors

LEMMA LinkIndexStep ==
  ASSUME FIFOInv, NEW l \in Level, LinkIndex(l)
  PROVE  FIFOInv'
  <1>1. /\ At(l, "linkIndex") /\ {"linkIndex", "moveIndex", "mark"} \subseteq Loop
        /\ NULL \in Index \cup Slots
    BY DEF LinkIndex, Loop, Slots
  <1>2. /\ \E to \in Loop : frame' = [frame EXCEPT ![l].pc = to]
        /\ des' = des /\ pending' = pending
    BY <1>1 DEF LinkIndex, Goto
  <1>3. /\ Posted' /\ Targets' /\ Read'
        /\ frame' \in [Level -> Frames] /\ des' \in [Level -> Descriptors]
    BY <1>1, <1>2, LoopStep
  <1> QED
    BY <1>3 DEF FIFOInv, TypeOK, LinkIndex, queue, Descriptors

LEMMA MoveIndexStep ==
  ASSUME FIFOInv, NEW l \in Level, MoveIndex(l)
  PROVE  FIFOInv'
  <1>1. /\ At(l, "moveIndex") /\ {"linkIndex", "moveIndex", "mark"} \subseteq Loop
        /\ NULL \in Index \cup Slots
    BY DEF MoveIndex, Loop, Slots
  <1>2. /\ \E to \in Loop : frame' = [frame EXCEPT ![l].pc = to]
        /\ des' = des /\ pending' = pending
    BY <1>1 DEF MoveIndex, Goto
  <1>3. /\ Posted' /\ Targets' /\ Read'
        /\ frame' \in [Level -> Frames] /\ des' \in [Level -> Descriptors]
    BY <1>1, <1>2, LoopStep
  <1>4. (d(l).index + 1) % MaxIndex \in Index
    <2>1. d(l).index + 1 \in Nat
      <3>1. d(l).index \in Index
        BY <1>1, AtFacts
      <3>2. \A i \in Index : i + 1 \in Nat
        BY DEF Index
      <3> QED
        BY <3>1, <3>2
    <2> QED
      BY <2>1, IndexFacts
  <1>5. head' \in Index /\ tail' \in Index /\ reserved' \in BOOLEAN
    BY <1>4, Types DEF MoveIndex, FIFOInv
  <1> QED
    BY <1>3, <1>5 DEF FIFOInv, TypeOK, MoveIndex, Descriptors

LEMMA MarkDoneStep ==
  ASSUME FIFOInv, NEW l \in Level, MarkDone(l)
  PROVE  FIFOInv'
  <1>1. At(l, "mark") /\ "mark" \in Loop /\ NULL \in Index \cup Slots
    BY DEF MarkDone, Loop, Slots
  <1>2. /\ frame' = [frame EXCEPT ![l].pc = After(l)] /\ pending' = pending
        /\ des' = [des EXCEPT ![frame[l].target].done = TRUE]
    BY DEF MarkDone, Goto
  <1>3. /\ Posted' /\ Targets' /\ Read'
        /\ frame' \in [Level -> Frames] /\ des' \in [Level -> Descriptors]
    BY <1>1, <1>2, LoopStep
  <1> QED
    BY <1>3 DEF FIFOInv, TypeOK, MarkDone, queue, Descriptors

-----------------------------------------------------------------------------
(***************************************************************************)
(* The beginning and the end of an operation, at level l: the frames of    *)
(* the others stay, and what they work for.                                *)
(***************************************************************************)
LEMMA OuterStep ==
  ASSUME FIFOInv, NEW l \in Level, NEW fr \in Frames,
         frame' = [frame EXCEPT ![l] = fr],
         \A m \in Level : m # l /\ frame[m].target # NULL =>
           /\ frame[m].target = l => fr.pc # "idle"
           /\ des'[frame[m].target] = des[frame[m].target],
         fr.pc \in {"idle", "begin"} => fr.target = NULL /\ fr.field = 1,
         fr.target # NULL => /\ fr.target <= l /\ fr.pc # "idle"
                             /\ fr.target = l \/ Active(fr.target),
         fr.pc \in Prologue => fr.pc = "test" /\ fr.field = 1 /\ fr.target # NULL,
         fr.pc \notin Loop
  PROVE  Targets' /\ Read' /\ frame' \in [Level -> Frames]
  <1>0. frame \in [Level -> Frames]
    BY Types DEF FIFOInv
  <1>1. \A m \in Level : frame'[m] = IF m = l THEN fr ELSE frame[m]
    BY <1>0
  <1>2. Targets'
    <2> SUFFICES ASSUME NEW m \in Level
                 PROVE  /\ frame'[m].pc \in Prologue \cup Loop => frame'[m].target # NULL
                        /\ frame'[m].pc \in {"idle", "begin"} =>
                             frame'[m].target = NULL /\ frame'[m].field = 1
                        /\ frame'[m].target # NULL =>
                             /\ frame'[m].target <= m
                             /\ frame'[frame'[m].target].pc # "idle"
      BY DEF Targets, Active
    <2>1. CASE m = l
      <3>1. fr.target \in Level \cup {NULL}
        BY DEF Frames
      <3> QED
        BY <1>1, <2>1, <3>1 DEF Active
    <2>2. CASE m # l
      <3>1. frame[m].target \in Level \cup {NULL}
        BY <1>0 DEF Frames
      <3> QED
        BY <1>1, <2>2, <3>1 DEF FIFOInv, Targets, Active
    <2> QED
      BY <2>1, <2>2
  <1>3. Read'
    <2> SUFFICES ASSUME NEW m \in Level
                 PROVE  /\ frame'[m].pc \in Prologue =>
                             \A g \in 1 .. 4 : g < frame'[m].field => Written(des'[frame'[m].target], g)
                        /\ frame'[m].pc \in Loop =>
                             \A g \in 1 .. 4 : Written(des'[frame'[m].target], g)
                        /\ frame'[m].pc = "store" =>
                             frame'[m].read \in IF frame'[m].field <= 2 THEN Index ELSE Slots
      BY DEF Read, d, Written
    <2>1. CASE m = l
      BY <1>1, <2>1 DEF Prologue
    <2>2. CASE m # l
      BY <1>1, <2>2 DEF FIFOInv, Read, d, Targets, Written
    <2> QED
      BY <2>1, <2>2
  <1> QED
    BY <1>0, <1>1, <1>2, <1>3

LEMMA ReadPendingStep ==
  ASSUME FIFOInv, NEW l \in Level, ReadPending(l)
  PROVE  FIFOInv'
  <1> DEFINE fr == [frame[l] EXCEPT !.pc = IF pending = NULL THEN "post" ELSE "test",
                                    !.target = pending]
  <1>1. /\ Running(l) /\ frame[l].pc = "begin" /\ frame[l] \in Frames
        /\ pending \in Level \cup {NULL} /\ des' = des /\ pending' = pending
    BY Types DEF ReadPending, At, FIFOInv
  <1>2. frame' = [frame EXCEPT ![l] = fr]
    BY Types DEF ReadPending, FIFOInv, Frames
  <1>3. /\ fr \in Frames /\ fr.target = pending /\ fr.field = 1
        /\ pending = NULL => fr.pc = "post"
        /\ pending # NULL => fr.pc = "test"
    BY <1>1 DEF Frames, FIFOInv, Targets
  <1> HIDE DEF fr
  <1>4. ASSUME pending # NULL
        PROVE  pending <= l /\ Active(pending) /\ pending # l
    <2>1. pending \in Level /\ Active(pending) /\ pending # l
      BY <1>1, <1>4 DEF FIFOInv, Posted, Active, Prologue, Loop
    <2>2. ~(pending > l)
      BY <1>1, <2>1 DEF Running
    <2> QED
      BY <2>1, <2>2, Constants
  <1>5. fr.pc # "idle" /\ fr.pc # "begin" /\ fr.pc \notin Loop
    BY <1>3 DEF Loop
  <1>6. fr.pc \in Prologue => fr.pc = "test" /\ fr.field = 1 /\ fr.target # NULL
    BY <1>3 DEF Prologue
  <1>7. Targets' /\ Read' /\ frame' \in [Level -> Frames]
    BY <1>1, <1>2, <1>3, <1>4, <1>5, <1>6, OuterStep
  <1>8. Posted'
    BY <1>1, <1>2, <1>4, Types DEF FIFOInv, Posted
  <1> QED
    BY <1>7, <1>8 DEF FIFOInv, TypeOK, ReadPending, queue

LEMMA PostStep ==
  ASSUME FIFOInv, NEW l \in Level, Post(l)
  PROVE  FIFOInv'
  <1> DEFINE fr == [NoFrame EXCEPT !.pc = "test", !.target = l]
  <1>1. /\ frame' = [frame EXCEPT ![l] = fr]
        /\ des' = des /\ pending' = l
    BY DEF Post
  <1>2. /\ fr \in Frames /\ fr.target = l /\ fr.field = 1 /\ fr.pc = "test"
    <2> DEFINE at == [NoFrame EXCEPT !.pc = "test"]
    <2>1. at \in Frames /\ at.pc = "test" /\ at.field = 1
      BY DEF Frames, NoFrame, Slots
    <2>2. fr = [at EXCEPT !.target = l]
      BY DEF NoFrame
    <2> HIDE DEF at
    <2>3. [at EXCEPT !.target = l] \in Frames
      BY <2>1 DEF Frames
    <2>4. /\ [at EXCEPT !.target = l].target = l /\ [at EXCEPT !.target = l].field = 1
          /\ [at EXCEPT !.target = l].pc = "test"
      BY <2>1 DEF Frames
    <2> HIDE DEF fr
    <2> QED
      BY <2>2, <2>3, <2>4
  <1> HIDE DEF fr
  <1>3. l # NULL /\ l <= l /\ "test" \notin Loop /\ "test" \in Prologue
    BY Constants DEF Loop, Prologue
  <1>4. Targets' /\ Read' /\ frame' \in [Level -> Frames]
    BY <1>1, <1>2, <1>3, OuterStep
  <1>5. Posted'
    BY <1>1, <1>2, <1>3, Types DEF FIFOInv, Posted
  <1> QED
    BY <1>1, <1>4, <1>5 DEF FIFOInv, TypeOK, Post, queue

(* Where every level above l is idle, none works for l.                    *)
LEMMA OwnOnly ==
  ASSUME FIFOInv, NEW l \in Level, \A m \in Level : m > l => ~Active(m)
  PROVE  \A m \in Level : m # l => frame[m].target # l
  <1> SUFFICES ASSUME NEW m \in Level, m # l, frame[m].target = l
               PROVE  FALSE
    OBVIOUS
  <1>1. l \in Nat /\ m \in Nat /\ l # NULL
    BY Constants
  <1>2. CASE m > l
    BY <1>1, <1>2 DEF FIFOInv, Targets, Active
  <1>3. CASE m < l
    BY <1>1, <1>3 DEF FIFOInv, Targets
  <1> QED
    BY <1>1, <1>2, <1>3

LEMMA StartStep ==
  ASSUME FIFOInv, NEW l \in Level, NEW e \in Descriptors, Start(l, e)
  PROVE  FIFOInv'
  <1> DEFINE fr == [NoFrame EXCEPT !.pc = "begin"]
  <1>1. /\ frame' = [frame EXCEPT ![l] = fr] /\ des' = [des EXCEPT ![l] = e]
        /\ pending' = pending /\ calls < MaxCalls /\ calls' = calls + 1
        /\ \A m \in Level : m >= l => ~Active(m)
        /\ UNCHANGED <<marker, q, head, tail, reserved>>
    BY DEF Start, queue
  <1>2. fr \in Frames /\ fr.target = NULL /\ fr.field = 1 /\ fr.pc = "begin"
    BY DEF Frames, NoFrame, Slots
  <1> HIDE DEF fr
  <1>3. l \in Nat /\ (\A m \in Level : m \in Nat)
    BY Constants
  <1>4. \A m \in Level : m # l => frame[m].target # l
    BY <1>1, <1>3, OwnOnly
  <1>5. \A m \in Level : m # l /\ frame[m].target # NULL =>
          /\ frame[m].target = l => fr.pc # "idle"
          /\ des'[frame[m].target] = des[frame[m].target]
    BY <1>1, <1>4, Types DEF FIFOInv, Frames
  <1>6. "begin" \notin Prologue /\ "begin" \notin Loop
    BY DEF Prologue, Loop
  <1>7. Targets' /\ Read' /\ frame' \in [Level -> Frames]
    BY <1>1, <1>2, <1>5, <1>6, OuterStep
  <1>8. pending # l
    <2>1. ~Active(l)
      BY <1>1, <1>3
    <2> QED
      BY <2>1, Constants DEF FIFOInv, Posted, Active, Prologue, Loop
  <1>9. Posted'
    BY <1>1, <1>8, Types DEF FIFOInv, Posted
  <1>10. des' \in [Level -> Descriptors] /\ calls' \in 0 .. MaxCalls
    BY <1>1, Types, Constants DEF FIFOInv
  <1> QED
    BY <1>1, <1>7, <1>9, <1>10 DEF FIFOInv, TypeOK, Descriptors

LEMMA ReturnStep ==
  ASSUME FIFOInv, NEW l \in Level, Return(l)
  PROVE  FIFOInv'
  <1>1. /\ frame' = [frame EXCEPT ![l] = NoFrame]
        /\ des' = [des EXCEPT ![l] = Descriptor("none", NULL)]
        /\ pending' = pending /\ reserved' = FALSE /\ frame[l].pc = "return"
        /\ \A m \in Level : m > l => ~Active(m)
        /\ UNCHANGED <<marker, q, head, tail, calls>>
    BY DEF Return, At, Running, queue
  <1>2. /\ NoFrame \in Frames /\ NoFrame.target = NULL /\ NoFrame.field = 1
        /\ NoFrame.pc = "idle"
    BY DEF Frames, NoFrame, Slots
  <1>3. \A m \in Level : m # l => frame[m].target # l
    BY <1>1, OwnOnly
  <1>4. \A m \in Level : m # l /\ frame[m].target # NULL =>
          /\ frame[m].target = l => NoFrame.pc # "idle"
          /\ des'[frame[m].target] = des[frame[m].target]
    BY <1>1, <1>3, Types DEF FIFOInv, Frames
  <1>5. "idle" \notin Prologue /\ "idle" \notin Loop
    BY DEF Prologue, Loop
  <1>6. Targets' /\ Read' /\ frame' \in [Level -> Frames]
    BY <1>1, <1>2, <1>4, <1>5, OuterStep
  <1>7. pending # l
    BY <1>1, Constants DEF FIFOInv, Posted, Prologue, Loop
  <1>8. Posted'
    BY <1>1, <1>7, Types DEF FIFOInv, Posted
  <1>9. des' \in [Level -> Descriptors]
    <2>1. Descriptor("none", NULL) \in Descriptors
      BY DEF Descriptor, Descriptors
    <2> QED
      BY <1>1, <2>1, Types DEF FIFOInv
  <1> QED
    BY <1>1, <1>6, <1>8, <1>9 DEF FIFOInv, TypeOK, Descriptors

LEMMA WithdrawStep ==
  ASSUME FIFOInv, NEW l \in Level, Withdraw(l)
  PROVE  FIFOInv'
  <1> DEFINE fr == [frame[l] EXCEPT !.pc = "return"]
  <1>1. frame[l].pc = "withdraw" /\ frame[l] \in Frames /\ pending' = NULL /\ des' = des
    BY Types DEF Withdraw, At, FIFOInv
  <1>2. frame' = [frame EXCEPT ![l] = fr]
    BY Types DEF Withdraw, Goto, FIFOInv, Frames
  <1>3. fr \in Frames /\ fr.target = frame[l].target /\ fr.pc = "return"
    BY <1>1 DEF Frames
  <1> HIDE DEF fr
  <1>4. "return" \notin Prologue /\ "return" \notin Loop
    BY DEF Prologue, Loop
  <1>5. Posted' /\ Targets' /\ Read' /\ frame' \in [Level -> Frames]
    BY <1>1, <1>2, <1>3, <1>4, WorkStep
  <1> QED
    BY <1>1, <1>5 DEF FIFOInv, TypeOK, Withdraw, queue

-----------------------------------------------------------------------------
(***************************************************************************)
(* The theorem.                                                            *)
(***************************************************************************)
LEMMA FIFOInit == Init => FIFOInv
  <1> SUFFICES ASSUME Init
               PROVE  FIFOInv
    OBVIOUS
  <1>1. q \in [0 .. QueueLength - 1 -> Slots] /\ tail \in Index
    <2>1. PICK held \in {s \in UNION {[1 .. n -> Items] : n \in 0 .. QueueLength} :
                           IsInjective(s)}, signalled \in BOOLEAN :
            /\ tail = (head + Len(held)) % MaxIndex
            /\ q = [i \in 0 .. QueueLength - 1 |->
                 LET place == 1 + (((i + QueueLength) - (head % QueueLength)) % QueueLength)
                 IN IF place <= Len(held) THEN held[place]
                    ELSE IF signalled /\ place = 1 THEN SIGNAL ELSE NULL]
      BY DEF Init, AtRest
    <2>2. PICK n \in 0 .. QueueLength : held \in [1 .. n -> Items]
      OBVIOUS
    <2>3. n \in Nat /\ Len(held) = n
      BY <2>2, Constants
    <2>4. tail \in Index
      <3>1. head + Len(held) \in Nat
        <4>1. head = StartIndex
          BY DEF Init
        <4>2. StartIndex \in 0 .. MaxIndex - 1
          BY QueueAssumption DEF Index
        <4> QED
          BY <2>3, <4>1, <4>2
      <3> QED
        BY <2>1, <3>1, IndexFacts
    <2>5. ASSUME NEW i \in 0 .. QueueLength - 1
          PROVE  1 + (((i + QueueLength) - (head % QueueLength)) % QueueLength) \in Nat \ {0}
      <3>1. head % QueueLength \in 0 .. QueueLength - 1
        BY Constants, IndexFacts DEF Init
      <3>2. (i + QueueLength) - (head % QueueLength) \in Nat
        BY <3>1, Constants
      <3>3. ((i + QueueLength) - (head % QueueLength)) % QueueLength \in 0 .. QueueLength - 1
        BY <3>2, IndexFacts
      <3> QED
        BY <3>3, Constants
    <2>6. \A p \in Nat \ {0} : p <= Len(held) => held[p] \in Slots
      BY <2>2, <2>3 DEF Slots
    <2> QED
      BY <2>1, <2>4, <2>5, <2>6 DEF Slots
  <1>2. TypeOK
    <2>1. Descriptor("none", NULL) \in Descriptors /\ NoFrame \in Frames
      BY DEF Descriptor, Descriptors, NoFrame, Frames, Slots
    <2>2. des \in [Level -> Descriptors] /\ frame \in [Level -> Frames]
      BY <2>1 DEF Init
    <2>3. head \in Index /\ marker \in {SIGNAL, NULL}
      BY Constants DEF Init
    <2>4. pending \in Level \cup {NULL} /\ reserved \in BOOLEAN
      BY DEF Init
    <2>5. calls \in 0 .. MaxCalls
      BY Constants DEF Init
    <2> QED
      BY <1>1, <2>2, <2>3, <2>4, <2>5 DEF TypeOK, Descriptors
  <1>3. \A l \in Level : frame[l] = NoFrame
    BY DEF Init
  <1>4. NoFrame.pc = "idle" /\ NoFrame.target = NULL /\ NoFrame.field = 1
    BY DEF NoFrame
  <1> QED
    BY <1>2, <1>3, <1>4 DEF Init, FIFOInv, Posted, Targets, Read, Prologue, Loop

LEMMA FIFOStep == FIFOInv /\ [Next]_vars => FIFOInv'
  <1> SUFFICES ASSUME FIFOInv, [Next]_vars
               PROVE  FIFOInv'
    OBVIOUS
  <1>1. ASSUME NEW l \in Level, Step(l)
        PROVE  FIFOInv'
    BY <1>1, ReadPendingStep, PostStep, TestFieldStep, LoadFieldStep, StoreFieldStep,
       OpenLoopStep, LoadLinkedStep, CheckDoneStep, ActStep, LinkIndexStep,
       MoveIndexStep, MarkDoneStep, WithdrawStep, ReturnStep DEF Step
  <1>2. ASSUME NEW l \in Level, NEW item \in Items, Enqueue(l, item)
        PROVE  FIFOInv'
    <2>1. Descriptor("enqueue", item) \in Descriptors
      BY DEF Descriptor, Descriptors
    <2> QED
      BY <1>2, <2>1, StartStep DEF Enqueue
  <1>3. ASSUME NEW l \in Level, Dequeue(l)
        PROVE  FIFOInv'
    <2>1. Descriptor("dequeue", NULL) \in Descriptors
      BY DEF Descriptor, Descriptors
    <2> QED
      BY <1>3, <2>1, StartStep DEF Dequeue
  <1>4. CASE Interrupt \/ UNCHANGED vars
    <2>1. /\ UNCHANGED <<marker, q, head, tail, pending, des, frame>>
          /\ reserved' \in BOOLEAN /\ calls' \in 0 .. MaxCalls
      <3>1. calls \in 0 .. MaxCalls /\ reserved \in BOOLEAN /\ MaxCalls \in Nat
        BY Constants DEF FIFOInv, TypeOK
      <3>2. CASE Interrupt
        <4>1. /\ UNCHANGED <<marker, q, head, tail, pending, des, frame>>
              /\ reserved' = FALSE
          BY <3>2 DEF Interrupt, queue
        <4>2. calls < MaxCalls /\ calls' = calls + 1
          BY <3>2 DEF Interrupt
        <4>3. calls' \in 0 .. MaxCalls
          BY <3>1, <4>2
        <4> QED
          BY <4>1, <4>3
      <3>3. CASE UNCHANGED vars
        BY <3>1, <3>3 DEF vars, queue
      <3> QED
        BY <1>4, <3>2, <3>3
    <2> QED
      BY <2>1 DEF FIFOInv, TypeOK, Posted, Targets, Read, Active, d, Written
  <1> QED
    BY <1>1, <1>2, <1>3, <1>4 DEF Next

(* In every execution, for any nesting of any number of operations: the    *)
(* variables keep their types, so that no field of a descriptor is used    *)
(* before it is written, and neither PendingOp nor a helper refers to the  *)
(* descriptor of an operation that has returned.                           *)
THEOREM SoundDescriptors == Spec => []DescriptorsSound
  <1>1. FIFOInv => DescriptorsSound
    BY DEF FIFOInv, DescriptorsSound, DescriptorAlive, Posted, Targets, Active, Prologue, Loop
  <1> QED
    BY <1>1, FIFOInit, FIFOStep, PTL DEF Spec

-----------------------------------------------------------------------------
(***************************************************************************)
(* That an operation takes effect once: the inductive invariant.           *)
(***************************************************************************)

(* What the prologue found in the slot decides the operation: whether Head *)
(* or Tail moves, what the slot is to hold, and so whether it is done.     *)
Known(e) == e.slotReturn # UNREAD
Moves(e) == IF e.kind = "dequeue" THEN e.slotReturn # NULL ELSE e.slotReturn # SIGNAL
Effect(e) == Stored(e, e.slotReturn)
Place(e) == e.index % QueueLength
Following(i) == (i + 1) % MaxIndex
Closed(e) == Known(e) /\ (e.done \/ ~Changes(e))
Taken(e) == Known(e) /\ (Closed(e) \/ q[Place(e)] = Effect(e))

(* A level is helped once it has posted its operation, and whatever is no  *)
(* longer posted is finished; the levels above the posted operation help   *)
(* it before they post their own.                                          *)
Nested ==
  /\ \A l \in Level :
       /\ frame[l].target # NULL => frame[frame[l].target].target = frame[l].target
       /\ frame[l].pc \in {"withdraw", "return"} => frame[l].target = l
       /\ frame[l].pc = "post" => frame[l].target # l
  /\ pending # NULL =>
       \A l \in Level : l > pending /\ Active(l) =>
                          frame[l].pc = "begin" \/ frame[l].target = pending

Finished ==
  \A l \in Level :
    /\ frame[l].target # NULL /\ frame[l].target # pending => Closed(des[frame[l].target])
    /\ frame[l].target # NULL /\ frame[l].pc \in {"post", "withdraw", "return"} =>
         Closed(des[frame[l].target])

(* A descriptor: its fields are written in their order, by whoever works   *)
(* for it.                                                                 *)
InOrder(e) ==
  /\ e.propose = UNREAD => e.index = UNREAD
  /\ e.index = UNREAD => e.slotPropose = UNREAD
  /\ e.slotPropose = UNREAD => e.slotReturn = UNREAD
  /\ e.slotReturn = UNREAD => ~e.done

Sound(e) ==
  /\ e.kind = "enqueue" => e.item \in Items
  /\ e.kind # "enqueue" => e.item = NULL
  /\ Known(e) /\ Changes(e) /\ e.kind = "dequeue" => e.slotReturn # SIGNAL
  /\ InOrder(e)

Described ==
  \A l \in Level :
    /\ Sound(des[l])
    /\ des[l].kind = "none" <=> ~Active(l)
    /\ frame[l].target # l => des[l] = Descriptor(des[l].kind, des[l].item)

(* Two that work for one operation confirm what they read: the second to   *)
(* store the index, or the slot's value, stores what is there.             *)
Ordered ==
  \A l, m \in Level :
    m < l /\ frame[m].target = frame[l].target /\ frame[l].pc \in {"load", "store"} =>
      frame[m].pc \in Prologue /\ frame[m].field <= frame[l].field

Confirms(fr, e) ==
  /\ fr.pc = "load" /\ fr.field = 2 /\ e.index # UNREAD => e.propose = e.index
  /\ fr.pc = "load" /\ fr.field = 4 /\ e.slotReturn # UNREAD =>
       e.slotPropose = e.slotReturn
  /\ fr.pc = "store" /\ fr.field = 2 =>
       fr.read = IF e.index = UNREAD THEN e.propose ELSE e.index
  /\ fr.pc = "store" /\ fr.field = 4 =>
       fr.read = IF e.slotReturn = UNREAD THEN e.slotPropose ELSE e.slotReturn

Confirmed ==
  \A l \in Level : frame[l].target # NULL => Confirms(frame[l], des[frame[l].target])

(* The posted operation has the queue to itself: what was read of it holds *)
(* until the operation takes effect in its slot, and Head or Tail follows. *)
Opens(e) ==
  /\ e.index = UNREAD /\ e.propose # UNREAD => e.propose = IndexOf(e)
  /\ e.index # UNREAD /\ ~Known(e) => e.index = IndexOf(e)
  /\ e.slotPropose # UNREAD /\ ~Known(e) => e.slotPropose = q[Place(e)]

Reads(fr, e) ==
  /\ fr.pc = "store" /\ fr.field = 1 /\ e.index = UNREAD => fr.read = IndexOf(e)
  /\ fr.pc = "store" /\ fr.field = 3 /\ ~Known(e) => fr.read = q[Place(e)]

Stage(e) ==
  \/ q[Place(e)] = e.slotReturn /\ e.index = IndexOf(e)
  \/ q[Place(e)] = Effect(e) /\ e.index = IndexOf(e)
  \/ q[Place(e)] = Effect(e) /\ Moves(e) /\ IndexOf(e) = Following(e.index)

Opened ==
  pending # NULL =>
    /\ Opens(des[pending])
    /\ \A l \in Level : frame[l].target = pending => Reads(frame[l], des[pending])
    /\ Known(des[pending]) /\ ~Closed(des[pending]) =>
         /\ Stage(des[pending])
         /\ /\ des[pending].kind = "dequeue" /\ Moves(des[pending])
            /\ q[Place(des[pending])] = Effect(des[pending])
            => des[pending].slotReturn \notin Waiting

(* What a level in the loop knows.                                         *)
Loops(fr, e) ==
  /\ fr.pc \in Loop \ {"open"} => Changes(e)
  /\ fr.pc = "check" => e.done \/ fr.read \in {e.slotReturn, Effect(e)}
  /\ fr.pc = "act" => fr.read \in {e.slotReturn, Effect(e)}
  /\ fr.pc \in {"check", "act"} /\ fr.read = Effect(e) => e.done \/ q[Place(e)] = Effect(e)
  /\ fr.pc \in {"linkIndex", "moveIndex"} =>
       Moves(e) /\ (e.done \/ q[Place(e)] = Effect(e))
  /\ fr.pc = "mark" =>
       \/ e.done
       \/ q[Place(e)] = Effect(e) /\ (Moves(e) => e.index # IndexOf(e))

Looped == \A l \in Level : frame[l].target # NULL => Loops(frame[l], des[frame[l].target])

(* While the reservation holds, nobody else has run.                       *)
Reserves(fr, e) ==
  /\ fr.pc = "check" => fr.read = q[Place(e)]
  /\ fr.pc = "act" => fr.read = q[Place(e)] /\ ~e.done
  /\ fr.pc = "moveIndex" => e.index = IndexOf(e)

Reserved ==
  reserved => \A l \in Level : Running(l) /\ frame[l].target # NULL =>
                                 Reserves(frame[l], des[frame[l].target])

(* Head and Tail do not come round to a place that an operation under way  *)
(* has moved them past.                                                    *)
Moved(e) == Known(e) /\ Changes(e) /\ Moves(e) /\ e.index # IndexOf(e)
Ahead(e) == IF IndexOf(e) >= e.index THEN IndexOf(e) - e.index
            ELSE MaxIndex - (e.index - IndexOf(e))
Unmoved == {l \in Level : Active(l) /\ ~Moved(des[l])}

Counted ==
  /\ Cardinality(Unmoved) <= calls
  /\ \A l \in Level :
       /\ Moved(des[l]) => Ahead(des[l]) + Cardinality(Unmoved) <= calls
       /\ Known(des[l]) /\ des[l].done /\ Changes(des[l]) /\ Moves(des[l]) =>
            des[l].index # IndexOf(des[l])

(* The items lie together, from where the next is taken out to where the   *)
(* next is put in: Head and Tail, which lag behind the effect of an        *)
(* operation until it moves them.  A signal is alone.                      *)
Lags(kind) ==
  /\ pending # NULL
  /\ des[pending].kind = kind /\ Known(des[pending]) /\ Changes(des[pending])
  /\ Moves(des[pending]) /\ q[Place(des[pending])] = Effect(des[pending])
  /\ des[pending].index = IndexOf(des[pending])

NextOut == IF Lags("dequeue") THEN Following(head) ELSE head
NextIn == IF Lags("enqueue") THEN Following(tail) ELSE tail
Length == Cardinality(Filled)

Shape ==
  /\ NextIn = (NextOut + Length) % MaxIndex
  /\ \A i \in 0 .. QueueLength - 1 :
       q[(NextOut + i) % QueueLength] \in Items <=> i < Length
  /\ \A i \in 0 .. QueueLength - 1 : q[i] = SIGNAL =>
       /\ marker = SIGNAL /\ Length = 0 /\ i = head % QueueLength
       /\ ~Lags("dequeue") /\ ~Lags("enqueue")

(* An item is in one slot, and in none before it is enqueued.              *)
Unique ==
  /\ \A i, j \in 0 .. QueueLength - 1 : q[i] = q[j] /\ q[i] \in Items => i = j
  /\ \A l, m \in Level : /\ des[l].kind = "enqueue" /\ des[m].kind = "enqueue"
                         /\ des[l].item = des[m].item
                         => l = m
  /\ \A l \in Level : des[l].kind = "enqueue" /\ ~Taken(des[l]) => des[l].item \notin Waiting

AtomInv ==
  /\ FIFOInv /\ Nested /\ Finished /\ Described /\ Ordered /\ Confirmed /\ Opened
  /\ Looped /\ Reserved /\ Counted /\ Shape /\ Unique

-----------------------------------------------------------------------------
(***************************************************************************)
(* What the invariant says of one operation.                               *)
(***************************************************************************)

(* What the slot held, and what it is to hold, tell whether the store is   *)
(* still to be made; both tell whether Head or Tail is to move.            *)
LEMMA Deciding ==
  ASSUME marker \in {SIGNAL, NULL}, NEW e \in Descriptors, Sound(e), Known(e), Changes(e),
         e.kind # "none"
  PROVE  /\ Effect(e) # e.slotReturn /\ Effect(e) \in Slots
         /\ Stores(e, e.slotReturn) /\ ~Stores(e, Effect(e))
         /\ Advances(e, e.slotReturn) <=> Moves(e)
         /\ Advances(e, Effect(e)) <=> Moves(e)
  <1>1. e.slotReturn \in Items \cup {NULL, SIGNAL} /\ e.kind \in {"enqueue", "dequeue"}
    BY DEF Descriptors, Known, Slots
  <1>2. NULL # SIGNAL /\ NULL \notin Items /\ SIGNAL \notin Items
    BY QueueAssumption
  <1>3. CASE e.kind = "dequeue"
    <2>1. e.slotReturn # SIGNAL
      BY <1>3 DEF Sound
    <2>2. Effect(e) = IF e.slotReturn = NULL THEN SIGNAL ELSE NULL
      BY <1>3 DEF Effect, Stored
    <2> QED
      BY <1>1, <1>2, <1>3, <2>1, <2>2 DEF Stores, Advances, Moves, Slots
  <1>4. CASE e.kind = "enqueue"
    <2>1. e.slotReturn \in {NULL, SIGNAL} /\ e.item \in Items
      BY <1>4 DEF Changes, Sound
    <2>2. Effect(e) = IF e.slotReturn = SIGNAL THEN NULL ELSE e.item
      BY <1>4 DEF Effect, Stored
    <2> QED
      BY <1>1, <1>2, <1>4, <2>1, <2>2 DEF Stores, Advances, Moves, Slots
  <1> QED
    BY <1>1, <1>3, <1>4

(* Whom a level works for.                                                 *)
LEMMA TargetFacts ==
  ASSUME AtomInv, NEW l \in Level, frame[l].target # NULL
  PROVE  /\ frame[l].target \in Level /\ frame[frame[l].target].target = frame[l].target
         /\ des[frame[l].target] \in Descriptors /\ Sound(des[frame[l].target])
         /\ des[frame[l].target].kind \in {"enqueue", "dequeue"}
         /\ ~Closed(des[frame[l].target]) => frame[l].target = pending
         /\ frame[l].target <= l /\ Active(frame[l].target)
  <1>1. frame[l].target \in Level /\ des \in [Level -> Descriptors]
    BY Types DEF AtomInv, FIFOInv, Frames
  <1>2. Active(frame[l].target) /\ frame[l].target <= l
    BY DEF AtomInv, FIFOInv, Targets
  <1>3. frame[frame[l].target].target = frame[l].target
    BY DEF AtomInv, Nested
  <1>4. ~Closed(des[frame[l].target]) => frame[l].target = pending
    BY DEF AtomInv, Finished
  <1>5. Sound(des[frame[l].target]) /\ des[frame[l].target].kind # "none"
    BY <1>1, <1>2 DEF AtomInv, Described
  <1>6. des[frame[l].target].kind \in {"enqueue", "dequeue"}
    BY <1>1, <1>5 DEF Descriptors
  <1> QED
    BY <1>1, <1>2, <1>3, <1>4, <1>5, <1>6

(* The posted operation.                                                   *)
LEMMA PostedFacts ==
  ASSUME AtomInv, pending # NULL
  PROVE  /\ pending \in Level /\ frame[pending].target = pending
         /\ frame[pending].pc \in Prologue \cup Loop \cup {"withdraw"}
         /\ des[pending] \in Descriptors /\ Sound(des[pending]) /\ Active(pending)
         /\ des[pending].kind \in {"enqueue", "dequeue"}
  <1>1. pending \in Level /\ frame[pending].target = pending
          /\ frame[pending].pc \in Prologue \cup Loop \cup {"withdraw"}
    BY Types DEF AtomInv, FIFOInv, Posted
  <1> QED
    BY <1>1, TargetFacts, Constants

(* A level whose fields have been written has posted its operation.        *)
LEMMA KnownFacts ==
  ASSUME AtomInv, NEW l \in Level, Known(des[l])
  PROVE  /\ frame[l].target = l /\ des[l] \in Descriptors /\ Sound(des[l])
         /\ des[l].kind \in {"enqueue", "dequeue"}
         /\ des[l].index \in Index /\ Place(des[l]) \in 0 .. QueueLength - 1
         /\ des[l].slotReturn \in Slots
         /\ ~Closed(des[l]) => l = pending
  <1>1. frame[l].target = l
    <2>1. Descriptor(des[l].kind, des[l].item).slotReturn = UNREAD
      BY DEF Descriptor
    <2> QED
      BY <2>1 DEF AtomInv, Described, Known
  <1>2. l # NULL
    BY Constants
  <1>3. des[l] \in Descriptors /\ Sound(des[l]) /\ des[l].kind \in {"enqueue", "dequeue"}
          /\ (~Closed(des[l]) => l = pending)
    BY <1>1, <1>2, TargetFacts
  <1>4. des[l].index # UNREAD
    BY <1>3 DEF Sound, InOrder, Known
  <1>5. des[l].index \in Index /\ des[l].slotReturn \in Slots
    BY <1>3, <1>4 DEF Descriptors, Known
  <1>6. Place(des[l]) \in 0 .. QueueLength - 1
    BY <1>5, Constants, IndexFacts DEF Place
  <1> QED
    BY <1>1, <1>3, <1>5, <1>6

(* What the refinement takes for the effect of an operation is its effect. *)
LEMMA EffectedIsTaken ==
  ASSUME AtomInv, NEW l \in Level
  PROVE  effected(l) <=> Taken(des[l])
  <1> DEFINE e == des[l]
  <1>0. NULL # SIGNAL /\ NULL \notin Items /\ SIGNAL \notin Items
    BY QueueAssumption
  <1>1. CASE ~Known(e)
    BY <1>1 DEF effected, Taken, Known
  <1>2. CASE Known(e) /\ Closed(e)
    BY <1>2 DEF effected, Taken, Known, Closed
  <1>3. CASE Known(e) /\ ~Closed(e)
    <2>1. /\ l = pending /\ e \in Descriptors /\ Sound(e)
          /\ e.kind \in {"enqueue", "dequeue"} /\ e.slotReturn \in Slots
          /\ Place(e) \in 0 .. QueueLength - 1
      BY <1>3, KnownFacts
    <2>2. Changes(e) /\ ~e.done
      BY <1>3 DEF Closed
    <2>3. pending # NULL
      BY <2>1, Constants
    <2>4. /\ q[Place(e)] = e.slotReturn \/ q[Place(e)] = Effect(e)
          /\ e.kind = "dequeue" /\ Moves(e) /\ q[Place(e)] = Effect(e) =>
               e.slotReturn \notin Waiting
      BY <1>3, <2>1, <2>3 DEF AtomInv, Opened, Stage
    <2>5. Effect(e) # e.slotReturn /\ marker \in {SIGNAL, NULL}
      BY <1>3, <2>1, <2>2, Deciding DEF AtomInv, FIFOInv, TypeOK
    <2>6. Taken(e) <=> q[Place(e)] = Effect(e)
      BY <1>3 DEF Taken
    <2>7. DOMAIN q = 0 .. QueueLength - 1
      BY Types DEF AtomInv, FIFOInv
    <2>8. q[Place(e)] \in Items => q[Place(e)] \in Waiting
      BY <2>1, <2>7 DEF Waiting
    <2>9. CASE e.kind = "dequeue" /\ e.slotReturn = NULL
      <3>1. Effect(e) = SIGNAL
        BY <2>9 DEF Effect, Stored
      <3>2. effected(l) <=> q[Place(e)] = SIGNAL
        BY <1>3, <2>2, <2>9 DEF effected, Known, Place
      <3> QED
        BY <2>6, <3>1, <3>2
    <2>10. CASE e.kind = "dequeue" /\ e.slotReturn # NULL
      <3>1. effected(l) <=> e.slotReturn \notin Waiting
        BY <1>3, <2>2, <2>10 DEF effected, Known
      <3>2. Moves(e) /\ e.slotReturn \in Items
        BY <1>3, <2>1, <2>2, <2>10 DEF Moves, Sound, Slots
      <3> QED
        BY <2>4, <2>5, <2>6, <2>8, <2>10, <3>1, <3>2
    <2>11. CASE e.kind = "enqueue" /\ e.slotReturn = SIGNAL
      <3>1. effected(l) <=> q[Place(e)] # SIGNAL
        BY <1>3, <2>2, <2>11 DEF effected, Known, Place
      <3> QED
        BY <2>4, <2>5, <2>6, <2>11, <3>1
    <2>12. CASE e.kind = "enqueue" /\ e.slotReturn # SIGNAL
      <3>1. effected(l) <=> e.item \in Waiting
        BY <1>3, <2>2, <2>12 DEF effected, Known
      <3>2. Effect(e) = e.item /\ e.item \in Items
        BY <2>1, <2>12 DEF Effect, Stored, Sound
      <3>3. ~Taken(e) => e.item \notin Waiting
        BY <2>12 DEF AtomInv, Unique
      <3> QED
        BY <2>6, <2>8, <3>1, <3>2, <3>3
    <2> QED
      BY <2>1, <2>9, <2>10, <2>11, <2>12
  <1> QED
    BY <1>1, <1>2, <1>3

LEMMA EffectedAre == AtomInv => \A l \in Level : effected(l) <=> Taken(des[l])
  BY EffectedIsTaken

LEMMA EffectedStayTaken ==
  AtomInv' => (\A l \in Level : effected(l) <=> Taken(des[l]))'
  BY EffectedAre, PTL

-----------------------------------------------------------------------------
(***************************************************************************)
(* The steps that leave the queue and the descriptors as they are.         *)
(***************************************************************************)
Signalled == \E i \in DOMAIN q : q[i] = SIGNAL
Calls == [l \in Level |-> AbstractCall(l)]

(* Nothing happens to the abstract queue. *)
Stutter == UNCHANGED <<marker, Contents, Calls>> /\ (Signalled' <=> Signalled)

LEMMA CallsStay ==
  ASSUME AtomInv, AtomInv', marker' = marker,
         \A m \in Level : /\ des'[m].kind = des[m].kind /\ des'[m].item = des[m].item
                          /\ Taken(des[m])' <=> Taken(des[m])
                          /\ Known(des[m]) => des'[m].slotReturn = des[m].slotReturn
  PROVE  UNCHANGED Calls
  <1>1. ASSUME NEW m \in Level
        PROVE  AbstractCall(m)' = AbstractCall(m)
    <2>1. (effected(m)' <=> effected(m)) /\ (effected(m) => Known(des[m]))
      <3>1. effected(m) <=> Taken(des[m])
        BY EffectedIsTaken
      <3>2. effected(m)' <=> Taken(des[m])'
        BY EffectedStayTaken
      <3> QED
        BY <3>1, <3>2 DEF Taken
    <2>2. effected(m) => Answer(des[m])' = Answer(des[m])
      BY <2>1 DEF Answer
    <2>3. effected(m) \in BOOLEAN /\ effected(m)' \in BOOLEAN
      BY DEF effected
    <2>4. effected(m)' = effected(m)
      BY <2>1, <2>3
    <2> QED
      BY <2>2, <2>4 DEF AbstractCall
  <1> QED
    BY <1>1 DEF Calls

(* Level l goes on in its operation, and fr becomes its frame.             *)
LEMMA GoingOn ==
  ASSUME AtomInv, NEW l \in Level, Running(l), NEW fr,
         frame' = [frame EXCEPT ![l] = fr], pending' = pending,
         fr.pc \notin {"idle", "begin"},
         \/ frame[l].pc # "begin" /\ fr.target = frame[l].target
         \/ frame[l].pc = "begin" /\ fr.target = pending,
         fr.pc \in {"withdraw", "return"} => fr.target = l,
         fr.pc = "post" => fr.target # l,
         fr.pc \in {"load", "store"} =>
           \A m \in Level : m < l /\ frame[m].target = fr.target =>
             frame[m].pc \in Prologue /\ frame[m].field <= fr.field
  PROVE  /\ Nested' /\ Ordered'
         /\ \A m \in Level : frame'[m] = IF m = l THEN fr ELSE frame[m]
         /\ \A m \in Level : (Active(m)' <=> Active(m)) /\ (Running(m)' => m = l)
         /\ \A m \in Level : m \in Nat /\ m # NULL
         /\ frame[l].pc = "begin" => frame[l].target = NULL
         /\ fr.target # NULL => /\ fr.target \in Level
                                /\ frame[fr.target].target = fr.target
                                /\ frame[l].pc = "begin" => fr.target # l
  <1>0. /\ frame \in [Level -> Frames] /\ \A m \in Level : m \in Nat /\ m # NULL
        /\ pending \in Level \cup {NULL}
    BY Types, Constants DEF AtomInv, FIFOInv
  <1>1. \A m \in Level : frame'[m] = IF m = l THEN fr ELSE frame[m]
    BY <1>0
  <1>2. \A m \in Level : Active(m)' <=> Active(m)
    BY <1>1 DEF Active, Running
  <1>3. \A m \in Level : Active(m) => m <= l
    BY <1>0 DEF Running
  <1>4. \A m \in Level : frame[m].target # NULL => Active(m)
    <2>1. \A m \in Level : ~Active(m) => frame[m].target = NULL
      BY DEF AtomInv, FIFOInv, Targets, Active
    <2> QED
      BY <2>1
  <1>5. frame[l].pc = "begin" => frame[l].target = NULL
    BY DEF AtomInv, FIFOInv, Targets
  <1>6. pending # NULL => /\ pending \in Level /\ frame[pending].target = pending
                          /\ frame[pending].pc # "begin" /\ Active(pending)
    BY PostedFacts DEF Prologue, Loop
  <1>7. fr.target # NULL => /\ fr.target \in Level
                            /\ frame[fr.target].target = fr.target
                            /\ frame[l].pc = "begin" => fr.target # l
    BY <1>6, TargetFacts
  <1>8. Nested'
    <2>1. ASSUME NEW m \in Level, frame'[m].target # NULL
          PROVE  frame'[frame'[m].target].target = frame'[m].target
      <3>1. CASE m = l
        BY <1>1, <1>7, <2>1, <3>1
      <3>2. CASE m # l
        <4>1. frame[m].target \in Level /\ frame[frame[m].target].target = frame[m].target
          BY <1>1, <2>1, <3>2, TargetFacts
        <4> QED
          BY <1>0, <1>1, <1>5, <3>2, <4>1
      <3> QED
        BY <3>1, <3>2
    <2>2. \A m \in Level : /\ frame'[m].pc \in {"withdraw", "return"} => frame'[m].target = m
                           /\ frame'[m].pc = "post" => frame'[m].target # m
      BY <1>1 DEF AtomInv, Nested
    <2>3. ASSUME pending # NULL, NEW m \in Level, m > pending, Active(m)
          PROVE  frame'[m].pc = "begin" \/ frame'[m].target = pending
      <3>1. frame[m].pc = "begin" \/ frame[m].target = pending
        BY <2>3 DEF AtomInv, Nested
      <3> QED
        BY <1>1, <1>5, <2>3, <3>1
    <2> QED
      BY <1>2, <2>1, <2>2, <2>3 DEF Nested
  <1>9. Ordered'
    <2> SUFFICES ASSUME NEW k \in Level, NEW m \in Level, m < k,
                        frame'[m].target = frame'[k].target,
                        frame'[k].pc \in {"load", "store"}
                 PROVE  frame'[m].pc \in Prologue /\ frame'[m].field <= frame'[k].field
      BY DEF Ordered
    <2>1. Active(k)
      BY <1>2 DEF Active
    <2>2. k <= l /\ m # l
      BY <1>0, <1>3, <2>1
    <2> QED
      BY <1>1, <2>2 DEF AtomInv, Ordered
  <1>10. \A m \in Level : Running(m)' => m = l
    BY <1>0, <1>2 DEF Running
  <1> QED
    BY <1>0, <1>1, <1>2, <1>5, <1>7, <1>8, <1>9, <1>10

LEMMA FrameStep ==
  ASSUME AtomInv, FIFOInv', NEW l \in Level, Running(l), NEW fr,
         frame' = [frame EXCEPT ![l] = fr],
         UNCHANGED <<marker, q, head, tail, pending, des, calls>>,
         fr.pc \notin {"idle", "begin"},
         \/ frame[l].pc # "begin" /\ fr.target = frame[l].target
         \/ frame[l].pc = "begin" /\ fr.target = pending,
         fr.pc \in {"post", "withdraw", "return"} /\ fr.target # NULL =>
           Closed(des[fr.target]),
         fr.pc \in {"withdraw", "return"} => fr.target = l,
         fr.pc = "post" => fr.target # l,
         fr.target # NULL => Confirms(fr, des[fr.target]) /\ Loops(fr, des[fr.target]),
         fr.target # NULL /\ fr.target = pending => Reads(fr, des[fr.target]),
         fr.pc \in {"load", "store"} =>
           \A m \in Level : m < l /\ frame[m].target = fr.target =>
             frame[m].pc \in Prologue /\ frame[m].field <= fr.field,
         reserved' /\ fr.target # NULL => Reserves(fr, des[fr.target])
  PROVE  AtomInv' /\ Stutter
  <1>0. /\ frame \in [Level -> Frames] /\ des \in [Level -> Descriptors]
        /\ \A m \in Level : m \in Nat /\ m # NULL
        /\ pending \in Level \cup {NULL}
    BY Types, Constants DEF AtomInv, FIFOInv
  <1>1. /\ Nested' /\ Ordered'
        /\ \A m \in Level : frame'[m] = IF m = l THEN fr ELSE frame[m]
        /\ \A m \in Level : (Active(m)' <=> Active(m)) /\ (Running(m)' => m = l)
        /\ frame[l].pc = "begin" => frame[l].target = NULL
        /\ fr.target # NULL => /\ fr.target \in Level
                               /\ frame[fr.target].target = fr.target
                               /\ frame[l].pc = "begin" => fr.target # l
    BY GoingOn
  <1>3. Finished'
    <2> SUFFICES ASSUME NEW m \in Level, frame'[m].target # NULL,
                        \/ frame'[m].target # pending
                        \/ frame'[m].pc \in {"post", "withdraw", "return"}
                 PROVE  Closed(des[frame[m].target])'
      BY DEF Finished
    <2>1. frame'[m].target \in Level /\ Closed(des[frame'[m].target])
      BY <1>1, TargetFacts DEF AtomInv, Finished
    <2> QED
      BY <1>0, <2>1 DEF Closed, Known, Changes
  <1>4. Described'
    BY <1>0, <1>1 DEF AtomInv, Described, Sound, InOrder, Known, Changes
  <1>5. Confirmed'
    <2> SUFFICES ASSUME NEW m \in Level, frame'[m].target # NULL
                 PROVE  Confirms(frame[m], des[frame[m].target])'
      BY DEF Confirmed
    <2>1. Confirms(frame'[m], des[frame'[m].target])
      BY <1>1 DEF AtomInv, Confirmed
    <2> QED
      BY <2>1 DEF Confirms
  <1>6. Looped'
    <2> SUFFICES ASSUME NEW m \in Level, frame'[m].target # NULL
                 PROVE  Loops(frame[m], des[frame[m].target])'
      BY DEF Looped
    <2>1. Loops(frame'[m], des[frame'[m].target])
      BY <1>1 DEF AtomInv, Looped
    <2> QED
      BY <2>1 DEF Loops, Changes, Effect, Stored, Place, Moves, IndexOf
  <1>7. Opened'
    <2> SUFFICES ASSUME pending # NULL
                 PROVE  Opened'
      BY DEF Opened
    <2>1. Opens(des[pending])'
      BY DEF AtomInv, Opened, Opens, IndexOf, Place, Known
    <2>2. ASSUME NEW m \in Level, frame'[m].target = pending
          PROVE  Reads(frame[m], des[pending])'
      <3>1. Reads(frame'[m], des[pending])
        BY <1>1, <2>2 DEF AtomInv, Opened
      <3> QED
        BY <3>1 DEF Reads, IndexOf, Place, Known
    <2>3. (Known(des[pending]) /\ ~Closed(des[pending]))' =>
             /\ Stage(des[pending])'
             /\ ((/\ des[pending].kind = "dequeue" /\ Moves(des[pending])
                  /\ q[Place(des[pending])] = Effect(des[pending]))
                 => des[pending].slotReturn \notin Waiting)'
      BY DEF AtomInv, Opened, Stage, Effect, Stored, Place, Moves, IndexOf, Following,
             Known, Closed, Changes, Waiting
    <2> QED
      BY <2>1, <2>2, <2>3 DEF Opened
  <1>8. Reserved'
    <2> SUFFICES ASSUME reserved', NEW m \in Level, Running(m)', frame'[m].target # NULL
                 PROVE  Reserves(frame[m], des[frame[m].target])'
      BY DEF Reserved
    <2>1. m = l
      BY <1>1
    <2>2. Reserves(fr, des[fr.target]) /\ frame'[m] = fr
      BY <1>1, <2>1
    <2> QED
      BY <2>2 DEF Reserves, Place, IndexOf
  <1>9. Counted'
    <2>1. Unmoved' = Unmoved
      BY <1>1 DEF Unmoved, Moved, Known, Changes, Moves, IndexOf
    <2> QED
      BY <2>1 DEF AtomInv, Counted, Ahead, Moved, Known, Changes, Moves, IndexOf
  <1>10. Filled' = Filled /\ Waiting' = Waiting
    BY DEF Filled, Waiting
  <1>11. Shape'
    <2>1. \A k : Lags(k)' <=> Lags(k)
      BY DEF Lags, Known, Changes, Moves, Place, Effect, Stored, IndexOf
    <2>2. NextOut' = NextOut /\ NextIn' = NextIn /\ Length' = Length
      BY <1>10, <2>1 DEF NextOut, NextIn, Length, Following
    <2> QED
      BY <2>1, <2>2 DEF AtomInv, Shape
  <1>12. \A m \in Level : Taken(des[m])' <=> Taken(des[m])
    BY DEF Taken, Known, Closed, Changes, Place, Effect, Stored
  <1>13. Unique'
    BY <1>10, <1>12 DEF AtomInv, Unique
  <1>14. AtomInv'
    BY <1>1, <1>3, <1>4, <1>5, <1>6, <1>7, <1>8, <1>9, <1>11, <1>13
       DEF AtomInv
  <1>15. Stutter
    <2>1. UNCHANGED Calls
      BY <1>12, <1>14, CallsStay
    <2>2. Contents' = Contents /\ (Signalled' <=> Signalled)
      BY <1>10 DEF Contents, Oldest, Signalled
    <2> QED
      BY <2>1, <2>2 DEF Stutter
  <1> QED
    BY <1>14, <1>15

(* A level in the loop goes on in it, or leaves it for a finished          *)
(* operation.                                                              *)
LEMMA LoopFrameStep ==
  ASSUME AtomInv, FIFOInv', NEW l \in Level, NEW pc \in Loop, At(l, pc),
         NEW fr, frame' = [frame EXCEPT ![l] = fr], fr.target = frame[l].target,
         UNCHANGED <<marker, q, head, tail, pending, des, calls>>,
         fr.pc \in Loop \/ (fr.pc = After(l) /\ Closed(d(l))),
         Loops(fr, d(l)), reserved' => Reserves(fr, d(l))
  PROVE  AtomInv' /\ Stutter
  <1>1. Running(l) /\ frame[l].pc = pc
    BY DEF At
  <1>2. frame[l].target # NULL
    BY <1>1, AtFacts, Constants DEF AtomInv
  <1>3. /\ frame[l].pc # "begin" /\ fr.pc \notin {"idle", "begin", "load", "store"}
        /\ fr.pc \in {"post", "withdraw", "return"} => fr.pc = After(l) /\ Closed(d(l))
    BY <1>1 DEF Loop, After
  <1>4. /\ fr.pc \in {"withdraw", "return"} => fr.target = l
        /\ fr.pc = "post" => fr.target # l
    BY <1>3 DEF After
  <1>5. Confirms(fr, d(l)) /\ Reads(fr, d(l))
    BY <1>3 DEF Confirms, Reads
  <1> QED
    BY <1>1, <1>2, <1>3, <1>4, <1>5, FrameStep DEF d

(* What a level in the loop works for.                                     *)
LEMMA LoopFacts ==
  ASSUME AtomInv, NEW l \in Level, NEW pc \in Loop, At(l, pc)
  PROVE  /\ frame[l] \in Frames /\ frame[l].pc = pc /\ Running(l)
         /\ frame[l].target \in Level /\ frame[l].target # NULL
         /\ d(l) \in Descriptors /\ Sound(d(l)) /\ d(l).kind \in {"enqueue", "dequeue"}
         /\ Known(d(l)) /\ d(l).index \in Index /\ slotOf(l) = Place(d(l))
         /\ Place(d(l)) \in 0 .. QueueLength - 1 /\ d(l).slotReturn \in Slots
         /\ Loops(frame[l], d(l)) /\ (reserved => Reserves(frame[l], d(l)))
         /\ ~Closed(d(l)) => frame[l].target = pending
         /\ marker \in {SIGNAL, NULL}
         /\ pc # "open" => Changes(d(l))
         /\ pc # "open" =>
              /\ Effect(d(l)) # d(l).slotReturn
              /\ Stores(d(l), d(l).slotReturn) /\ ~Stores(d(l), Effect(d(l)))
              /\ Advances(d(l), d(l).slotReturn) <=> Moves(d(l))
              /\ Advances(d(l), Effect(d(l))) <=> Moves(d(l))
  <1>1. /\ frame[l] \in Frames /\ frame[l].pc = pc /\ frame[l].target \in Level
        /\ d(l) \in Descriptors /\ d(l).index \in Index
        /\ slotOf(l) \in 0 .. QueueLength - 1 /\ d(l).slotReturn \in Slots
    BY AtFacts DEF AtomInv
  <1>2. Running(l) /\ frame[l].target # NULL
    BY <1>1, Constants DEF At
  <1>3. /\ Sound(d(l)) /\ d(l).kind \in {"enqueue", "dequeue"}
        /\ ~Closed(d(l)) => frame[l].target = pending
    BY <1>2, TargetFacts DEF d
  <1>4. Known(d(l)) /\ slotOf(l) = Place(d(l)) /\ marker \in {SIGNAL, NULL}
    BY <1>1, Constants DEF Known, slotOf, Place, AtomInv, FIFOInv, TypeOK
  <1>5. Loops(frame[l], d(l)) /\ (reserved => Reserves(frame[l], d(l)))
    BY <1>2 DEF AtomInv, Looped, Reserved, d
  <1>6. pc # "open" => Changes(d(l))
    BY <1>1, <1>5 DEF Loops
  <1> QED
    BY <1>1, <1>2, <1>3, <1>4, <1>5, <1>6, Deciding

LEMMA OpenLoopAtom ==
  ASSUME AtomInv, NEW l \in Level, OpenLoop(l)
  PROVE  AtomInv' /\ Stutter
  <1> DEFINE fr == [frame[l] EXCEPT !.pc = IF Changes(d(l)) THEN "link" ELSE After(l)]
  <1>1. At(l, "open") /\ "open" \in Loop /\ {"link"} \subseteq Loop
    BY DEF OpenLoop, Loop
  <1>2. Known(d(l)) /\ frame \in [Level -> Frames]
    BY <1>1, LoopFacts, Types DEF AtomInv, FIFOInv
  <1>3. /\ frame' = [frame EXCEPT ![l] = fr] /\ fr.target = frame[l].target
        /\ fr.pc = IF Changes(d(l)) THEN "link" ELSE After(l)
    <2>1. frame \in [Level -> Frames]
      BY Types DEF AtomInv, FIFOInv
    <2> QED
      BY <2>1 DEF OpenLoop, Goto, Frames
  <1> HIDE DEF fr
  <1>4. fr.pc \in Loop \/ (fr.pc = After(l) /\ Closed(d(l)))
    BY <1>1, <1>2, <1>3 DEF Closed
  <1>5. Loops(fr, d(l)) /\ Reserves(fr, d(l))
    BY <1>3 DEF Loops, Reserves, After, Loop
  <1>6. UNCHANGED <<marker, q, head, tail, pending, des, calls>> /\ FIFOInv'
    BY OpenLoopStep DEF OpenLoop, queue, AtomInv
  <1> QED
    BY <1>1, <1>3, <1>4, <1>5, <1>6, LoopFrameStep

LEMMA LoadLinkedAtom ==
  ASSUME AtomInv, NEW l \in Level, LoadLinked(l)
  PROVE  AtomInv' /\ Stutter
  <1> DEFINE fr == [frame[l] EXCEPT !.pc = "check", !.read = q[slotOf(l)]]
  <1>1. At(l, "link") /\ "link" \in Loop /\ "check" \in Loop
    BY DEF LoadLinked, Loop
  <1>2. /\ frame' = [frame EXCEPT ![l] = fr] /\ fr.target = frame[l].target
        /\ fr.pc = "check" /\ fr.read = q[slotOf(l)]
    <2>1. frame \in [Level -> Frames]
      BY Types DEF AtomInv, FIFOInv
    <2> QED
      BY <2>1 DEF LoadLinked, Frames
  <1> HIDE DEF fr
  <1>3. Changes(d(l)) /\ slotOf(l) = Place(d(l)) /\ Known(d(l))
          /\ (~Closed(d(l)) => frame[l].target = pending /\ frame[l].target # NULL)
    BY <1>1, LoopFacts
  <1>4. d(l).done \/ q[Place(d(l))] \in {d(l).slotReturn, Effect(d(l))}
    <2>1. CASE Closed(d(l))
      BY <1>3, <2>1 DEF Closed
    <2>2. CASE ~Closed(d(l))
      BY <1>3, <2>2 DEF AtomInv, Opened, Stage, d
    <2> QED
      BY <2>1, <2>2
  <1>5. Loops(fr, d(l)) /\ Reserves(fr, d(l))
    BY <1>2, <1>3, <1>4 DEF Loops, Reserves
  <1>6. UNCHANGED <<marker, q, head, tail, pending, des, calls>> /\ FIFOInv'
    BY LoadLinkedStep DEF LoadLinked, queue, AtomInv
  <1> QED
    BY <1>1, <1>2, <1>5, <1>6, LoopFrameStep

LEMMA CheckDoneAtom ==
  ASSUME AtomInv, NEW l \in Level, CheckDone(l)
  PROVE  AtomInv' /\ Stutter
  <1> DEFINE fr == [frame[l] EXCEPT !.pc = IF d(l).done THEN After(l) ELSE "act",
                                   !.read = IF d(l).done THEN NULL ELSE frame[l].read]
  <1>1. At(l, "check") /\ "check" \in Loop /\ "act" \in Loop
    BY DEF CheckDone, Loop
  <1>2. /\ frame' = [frame EXCEPT ![l] = fr] /\ fr.target = frame[l].target
        /\ fr.pc = (IF d(l).done THEN After(l) ELSE "act")
        /\ fr.read = (IF d(l).done THEN NULL ELSE frame[l].read)
    <2>1. frame \in [Level -> Frames]
      BY Types DEF AtomInv, FIFOInv
    <2> QED
      BY <2>1 DEF CheckDone, Frames
  <1> HIDE DEF fr
  <1>3. /\ Changes(d(l)) /\ Known(d(l)) /\ frame[l].pc = "check"
        /\ Loops(frame[l], d(l)) /\ (reserved => Reserves(frame[l], d(l)))
    BY <1>1, LoopFacts
  <1>4. fr.pc \in Loop \/ (fr.pc = After(l) /\ Closed(d(l)))
    BY <1>1, <1>2, <1>3 DEF Closed
  <1>5. /\ UNCHANGED <<marker, q, head, tail, pending, des, calls>> /\ FIFOInv'
        /\ reserved' = reserved
    BY CheckDoneStep DEF CheckDone, queue, AtomInv
  <1>6. Loops(fr, d(l)) /\ (reserved' => Reserves(fr, d(l)))
    BY <1>2, <1>3, <1>5 DEF Loops, Reserves, After, Loop
  <1> QED
    BY <1>1, <1>2, <1>4, <1>5, <1>6, LoopFrameStep

LEMMA LinkIndexAtom ==
  ASSUME AtomInv, NEW l \in Level, LinkIndex(l)
  PROVE  AtomInv' /\ Stutter
  <1> DEFINE fr == [frame[l] EXCEPT !.pc =
                   IF IndexOf(d(l)) = d(l).index THEN "moveIndex" ELSE "mark"]
  <1>1. At(l, "linkIndex") /\ {"linkIndex", "moveIndex", "mark"} \subseteq Loop
    BY DEF LinkIndex, Loop
  <1>2. /\ frame' = [frame EXCEPT ![l] = fr] /\ fr.target = frame[l].target
        /\ fr.pc = IF IndexOf(d(l)) = d(l).index THEN "moveIndex" ELSE "mark"
    <2>1. frame \in [Level -> Frames]
      BY Types DEF AtomInv, FIFOInv
    <2> QED
      BY <2>1 DEF LinkIndex, Goto, Frames
  <1> HIDE DEF fr
  <1>3. Changes(d(l)) /\ frame[l].pc = "linkIndex" /\ Loops(frame[l], d(l))
    BY <1>1, LoopFacts
  <1>4. Loops(fr, d(l)) /\ Reserves(fr, d(l))
    BY <1>2, <1>3 DEF Loops, Reserves
  <1>5. UNCHANGED <<marker, q, head, tail, pending, des, calls>> /\ FIFOInv'
    BY LinkIndexStep DEF LinkIndex, queue, AtomInv
  <1> QED
    BY <1>1, <1>2, <1>4, <1>5, LoopFrameStep

(* Head or Tail has been moved meanwhile, or may have been: look again.    *)
LEMMA MoveIndexFails ==
  ASSUME AtomInv, NEW l \in Level, MoveIndex(l), ~reserved
  PROVE  AtomInv' /\ Stutter
  <1> DEFINE fr == [frame[l] EXCEPT !.pc = "linkIndex"]
  <1>1. At(l, "moveIndex") /\ {"linkIndex", "moveIndex"} \subseteq Loop
    BY DEF MoveIndex, Loop
  <1>2. /\ frame' = [frame EXCEPT ![l] = fr] /\ fr.target = frame[l].target
        /\ fr.pc = "linkIndex"
    <2>1. frame \in [Level -> Frames]
      BY Types DEF AtomInv, FIFOInv
    <2> QED
      BY <2>1 DEF MoveIndex, Goto, Frames
  <1> HIDE DEF fr
  <1>3. Changes(d(l)) /\ frame[l].pc = "moveIndex" /\ Loops(frame[l], d(l))
    BY <1>1, LoopFacts
  <1>4. Loops(fr, d(l)) /\ ~reserved'
    BY <1>2, <1>3 DEF Loops, MoveIndex
  <1>5. UNCHANGED <<marker, q, head, tail, pending, des, calls>> /\ FIFOInv'
    BY MoveIndexStep DEF MoveIndex, AtomInv
  <1> QED
    BY <1>1, <1>2, <1>4, <1>5, LoopFrameStep

(* The slot was stored into already, or may have changed since it was read. *)
LEMMA ActNoStore ==
  ASSUME AtomInv, NEW l \in Level, Act(l),
         ~(Stores(d(l), frame[l].read) /\ reserved)
  PROVE  AtomInv' /\ Stutter
  <1> DEFINE fr == [frame[l] EXCEPT
                  !.pc = IF Stores(d(l), frame[l].read) THEN "link" ELSE Settled(l),
                  !.read = NULL]
  <1>1. At(l, "act") /\ {"link", "linkIndex", "mark", "act"} \subseteq Loop
    BY DEF Act, Loop
  <1>2. /\ UNCHANGED <<marker, q, head, tail, pending, des, calls>> /\ FIFOInv'
        /\ reserved' = reserved
        /\ frame' = [frame EXCEPT
             ![l].pc = IF Stores(d(l), frame[l].read) THEN "link" ELSE Settled(l),
             ![l].read = NULL]
    BY ActStep DEF Act, AtomInv
  <1>3. /\ frame' = [frame EXCEPT ![l] = fr] /\ fr.target = frame[l].target
        /\ fr.pc = IF Stores(d(l), frame[l].read) THEN "link" ELSE Settled(l)
    <2>1. frame \in [Level -> Frames]
      BY Types DEF AtomInv, FIFOInv
    <2> QED
      BY <1>2, <2>1 DEF Frames
  <1> HIDE DEF fr
  <1>4. /\ Changes(d(l)) /\ Known(d(l)) /\ frame[l].pc = "act" /\ Loops(frame[l], d(l))
        /\ reserved => Reserves(frame[l], d(l))
        /\ Stores(d(l), d(l).slotReturn)
        /\ Advances(d(l), Effect(d(l))) <=> Moves(d(l))
        /\ ~Closed(d(l)) => frame[l].target = pending /\ frame[l].target # NULL
    BY <1>1, LoopFacts
  <1>5. fr.pc \in {"link", "linkIndex", "mark"}
    BY <1>3 DEF Settled
  <1>6. ASSUME ~Stores(d(l), frame[l].read)
        PROVE  /\ frame[l].read = Effect(d(l)) /\ fr.pc = IF Moves(d(l)) THEN "linkIndex" ELSE "mark"
               /\ d(l).done \/ q[Place(d(l))] = Effect(d(l))
    <2>1. frame[l].read = Effect(d(l))
      BY <1>4, <1>6 DEF Loops
    <2>2. fr.pc = IF Moves(d(l)) THEN "linkIndex" ELSE "mark"
      BY <1>3, <1>4, <1>6, <2>1 DEF Settled
    <2>3. d(l).done \/ q[Place(d(l))] = Effect(d(l))
      BY <1>4, <2>1 DEF Loops
    <2> QED
      BY <2>1, <2>2, <2>3
  <1>7. Loops(fr, d(l)) /\ Reserves(fr, d(l))
    BY <1>3, <1>4, <1>5, <1>6 DEF Loops, Reserves
  <1> QED
    BY <1>1, <1>2, <1>3, <1>5, <1>7, LoopFrameStep

(* A level finds what is posted when it begins.                            *)
LEMMA ReadPendingAtom ==
  ASSUME AtomInv, NEW l \in Level, ReadPending(l)
  PROVE  AtomInv' /\ Stutter
  <1> DEFINE fr == [frame[l] EXCEPT !.pc = IF pending = NULL THEN "post" ELSE "test",
                                    !.target = pending]
  <1>1. Running(l) /\ frame[l].pc = "begin" /\ l # NULL
    BY Constants DEF ReadPending, At
  <1>2. /\ frame' = [frame EXCEPT ![l] = fr] /\ fr.target = pending
        /\ fr.pc = IF pending = NULL THEN "post" ELSE "test"
    <2>1. frame \in [Level -> Frames]
      BY Types DEF AtomInv, FIFOInv
    <2> QED
      BY <2>1 DEF ReadPending, Frames
  <1> HIDE DEF fr
  <1>3. UNCHANGED <<marker, q, head, tail, pending, des, calls>> /\ FIFOInv'
    BY ReadPendingStep DEF ReadPending, queue, AtomInv
  <1>4. \A e : Confirms(fr, e) /\ Loops(fr, e) /\ Reads(fr, e) /\ Reserves(fr, e)
    BY <1>2 DEF Confirms, Loops, Reads, Reserves, Loop
  <1>5. fr.pc \in {"post", "withdraw", "return"} => fr.target = NULL /\ fr.pc = "post"
    BY <1>2
  <1>6. fr.pc \notin {"idle", "begin", "load", "store", "withdraw", "return"}
    BY <1>2
  <1> QED
    BY <1>1, <1>2, <1>3, <1>4, <1>5, <1>6, FrameStep

(* What a level in the prologue works for.                                 *)
LEMMA PrologueFacts ==
  ASSUME AtomInv, NEW l \in Level, NEW pc \in Prologue, At(l, pc)
  PROVE  /\ frame[l] \in Frames /\ frame[l].pc = pc /\ Running(l)
         /\ frame[l].target \in Level /\ frame[l].target # NULL
         /\ d(l) \in Descriptors /\ Sound(d(l)) /\ d(l).kind \in {"enqueue", "dequeue"}
         /\ frame[l].field \in 1 .. 4
         /\ frame[l].field >= 2 => d(l).propose # UNREAD
         /\ frame[l].field >= 3 => d(l).index # UNREAD
         /\ frame[l].field >= 4 => d(l).slotPropose # UNREAD
         /\ Confirms(frame[l], d(l))
         /\ ~Closed(d(l)) => frame[l].target = pending
         /\ frame[l].target = pending => Reads(frame[l], d(l))
  <1>1. /\ frame[l] \in Frames /\ frame[l].pc = pc /\ frame[l].target \in Level
        /\ d(l) \in Descriptors /\ frame[l].field \in 1 .. 4
    BY AtFacts DEF AtomInv
  <1>2. Running(l) /\ frame[l].target # NULL
    BY <1>1, Constants DEF At
  <1>3. /\ Sound(d(l)) /\ d(l).kind \in {"enqueue", "dequeue"}
        /\ ~Closed(d(l)) => frame[l].target = pending
    BY <1>2, TargetFacts DEF d
  <1>4. \A g \in 1 .. 4 : g < frame[l].field => Written(d(l), g)
    BY <1>1 DEF AtomInv, FIFOInv, Read
  <1>5. /\ frame[l].field >= 2 => d(l).propose # UNREAD
        /\ frame[l].field >= 3 => d(l).index # UNREAD
        /\ frame[l].field >= 4 => d(l).slotPropose # UNREAD
    BY <1>1, <1>4, FieldNames DEF Written
  <1>6. Confirms(frame[l], d(l)) /\ (frame[l].target = pending => Reads(frame[l], d(l)))
    BY <1>2 DEF AtomInv, Confirmed, Opened, d
  <1> QED
    BY <1>1, <1>2, <1>3, <1>5, <1>6

(* Nobody is past a field that is still unread.                            *)
LEMMA UnreadField ==
  ASSUME AtomInv, NEW m \in Level, NEW f \in 1 .. 4, frame[m].target # NULL,
         des[frame[m].target][Fields[f]] = UNREAD
  PROVE  frame[m].pc \in Prologue /\ frame[m].field <= f
  <1>1. ~Written(d(m), f)
    BY DEF Written, d
  <1>2. frame[m] \in Frames /\ frame[m].field \in 1 .. 4
    BY Types DEF AtomInv, FIFOInv, Frames
  <1>3. frame[m].pc \in Prologue => frame[m].field <= f
    BY <1>1, <1>2 DEF AtomInv, FIFOInv, Read
  <1>4. frame[m].pc \notin Loop
    BY <1>1 DEF AtomInv, FIFOInv, Read
  <1>5. ~Known(des[frame[m].target])
    <2>1. Sound(des[frame[m].target])
      BY TargetFacts
    <2>2. f = 1 \/ f = 2 \/ f = 3 \/ f = 4
      OBVIOUS
    <2> QED
      BY <2>1, <2>2, FieldNames DEF Sound, InOrder, Known
  <1>6. frame[m].pc \notin {"post", "withdraw", "return"}
    BY <1>5 DEF AtomInv, Finished, Closed
  <1>7. frame[m].pc \notin {"idle", "begin"}
    BY DEF AtomInv, FIFOInv, Targets
  <1> QED
    BY <1>2, <1>3, <1>4, <1>6, <1>7 DEF Frames, Prologue, Loop

LEMMA TestFieldAtom ==
  ASSUME AtomInv, NEW l \in Level, TestField(l)
  PROVE  AtomInv' /\ Stutter
  <1> DEFINE f == frame[l].field
             next == IF d(l)[Fields[f]] = UNREAD THEN [pc |-> "load", field |-> f]
                     ELSE NextField(f)
             fr == [frame[l] EXCEPT !.pc = next.pc, !.field = next.field]
  <1>1. At(l, "test") /\ "test" \in Prologue
    BY DEF TestField, Prologue
  <1>2. /\ frame[l] \in Frames /\ frame[l].pc = "test" /\ Running(l) /\ f \in 1 .. 4
        /\ frame[l].target # NULL
    BY <1>1, PrologueFacts
  <1>3. /\ d(l)[Fields[f]] = UNREAD => next.pc = "load" /\ next.field = f
        /\ d(l)[Fields[f]] # UNREAD => next.pc \in {"test", "open"}
    BY <1>2, NextFieldFacts
  <1> HIDE DEF next
  <1>4. /\ frame' = [frame EXCEPT ![l] = fr] /\ fr.target = frame[l].target
        /\ fr.pc = next.pc /\ fr.field = next.field
    <2>1. frame \in [Level -> Frames]
      BY Types DEF AtomInv, FIFOInv
    <2> QED
      BY <2>1 DEF TestField, next, Frames
  <1> HIDE DEF fr
  <1>5. UNCHANGED <<marker, q, head, tail, pending, des, calls>> /\ FIFOInv'
    BY TestFieldStep DEF TestField, queue, AtomInv
  <1>6. fr.pc = "load" => fr.field = f /\ des[frame[l].target][Fields[f]] = UNREAD
    BY <1>3, <1>4 DEF d
  <1>7. fr.pc \in {"load", "test", "open"}
    BY <1>3, <1>4
  <1>8. Confirms(fr, d(l))
    <2>1. /\ fr.pc = "load" /\ fr.field = 2 => d(l).index = UNREAD
          /\ fr.pc = "load" /\ fr.field = 4 => d(l).slotReturn = UNREAD
      BY <1>6, FieldNames DEF d
    <2> QED
      BY <1>7, <2>1 DEF Confirms
  <1>9. Loops(fr, d(l)) /\ Reads(fr, d(l)) /\ Reserves(fr, d(l))
    BY <1>7 DEF Loops, Reads, Reserves, Loop
  <1>10. \A m \in Level : fr.pc = "load" /\ frame[m].target = fr.target =>
           frame[m].pc \in Prologue /\ frame[m].field <= fr.field
    BY <1>2, <1>4, <1>6, UnreadField
  <1> QED
    BY <1>2, <1>4, <1>5, <1>7, <1>8, <1>9, <1>10, FrameStep DEF d

LEMMA LoadFieldAtom ==
  ASSUME AtomInv, NEW l \in Level, LoadField(l)
  PROVE  AtomInv' /\ Stutter
  <1> DEFINE fr == [frame[l] EXCEPT !.read = Source(l), !.pc = "store"]
             f == frame[l].field
  <1>1. At(l, "load") /\ "load" \in Prologue
    BY DEF LoadField, Prologue
  <1>2. /\ frame[l] \in Frames /\ frame[l].pc = "load" /\ Running(l) /\ f \in 1 .. 4
        /\ frame[l].target # NULL /\ Confirms(frame[l], d(l))
    BY <1>1, PrologueFacts
  <1>3. /\ frame' = [frame EXCEPT ![l] = fr] /\ fr.target = frame[l].target
        /\ fr.pc = "store" /\ fr.field = f /\ fr.read = Source(l)
    <2>1. frame \in [Level -> Frames]
      BY Types DEF AtomInv, FIFOInv
    <2> QED
      BY <2>1 DEF LoadField, Frames
  <1> HIDE DEF fr
  <1>4. UNCHANGED <<marker, q, head, tail, pending, des, calls>> /\ FIFOInv'
    BY LoadFieldStep DEF LoadField, queue, AtomInv
  <1>5. /\ f = 1 => Source(l) = IndexOf(d(l))
        /\ f = 2 => Source(l) = d(l).propose
        /\ f = 3 => Source(l) = q[Place(d(l))]
        /\ f = 4 => Source(l) = d(l).slotPropose
    BY FieldNames DEF Source, IndexOf, slotOf, Place
  <1>6. Confirms(fr, d(l)) /\ Reads(fr, d(l))
    BY <1>2, <1>3, <1>5 DEF Confirms, Reads
  <1>7. Loops(fr, d(l)) /\ Reserves(fr, d(l))
    BY <1>3 DEF Loops, Reserves, Loop
  <1>8. \A m \in Level : m < l /\ frame[m].target = fr.target =>
          frame[m].pc \in Prologue /\ frame[m].field <= fr.field
    BY <1>2, <1>3 DEF AtomInv, Ordered
  <1> QED
    BY <1>2, <1>3, <1>4, <1>6, <1>7, <1>8, FrameStep DEF d

-----------------------------------------------------------------------------
(***************************************************************************)
(* The steps that write a field of a descriptor, or mark it done.          *)
(***************************************************************************)

(* Level l writes in the descriptor it works for, which becomes e2, and    *)
(* goes on.                                                                *)
LEMMA DescriptorStep ==
  ASSUME AtomInv, FIFOInv', NEW l \in Level, Running(l), NEW fr, NEW e2 \in Descriptors,
         frame' = [frame EXCEPT ![l] = fr], fr.target = frame[l].target,
         frame[l].pc \in Prologue \cup Loop,
         des' = [des EXCEPT ![frame[l].target] = e2],
         UNCHANGED <<marker, q, head, tail, pending, calls>>,
         fr.pc \in {"test", "open"} \/ (fr.pc = After(l) /\ Closed(e2)),
         Sound(e2), e2.kind = d(l).kind, e2.item = d(l).item,
         d(l).done => e2.done,
         d(l).index # UNREAD => e2.index = d(l).index,
         Known(d(l)) => e2.slotReturn = d(l).slotReturn,
         ~Known(d(l)) /\ Known(e2) => 
           /\ ~e2.done /\ e2.index = IndexOf(e2) /\ q[Place(e2)] = e2.slotReturn,
         e2.done /\ ~d(l).done =>
           /\ Known(d(l)) /\ Changes(e2) /\ q[Place(e2)] = Effect(e2)
           /\ Moves(e2) => e2.index # IndexOf(e2),
         Opens(e2),
         \A m \in Level : m # l /\ frame[m].target = frame[l].target =>
           Confirms(frame[m], e2) /\ (frame[l].target = pending => Reads(frame[m], e2))
  PROVE  /\ AtomInv' /\ UNCHANGED <<marker, Contents>> /\ (Signalled' <=> Signalled)
         /\ \A m \in Level : m # frame[l].target =>
              des'[m] = des[m] /\ (Taken(des[m])' <=> Taken(des[m]))
         /\ (~Known(e2) \/ Known(d(l))) => Stutter
  <1> DEFINE t == frame[l].target
             e == des[t]
  <1>0. /\ frame \in [Level -> Frames] /\ des \in [Level -> Descriptors]
        /\ \A m \in Level : m \in Nat /\ m # NULL
        /\ pending \in Level \cup {NULL} /\ marker \in {SIGNAL, NULL}
    BY Types, Constants DEF AtomInv, FIFOInv, TypeOK
  <1>1. t \in Level /\ t # NULL /\ frame[l].pc # "begin" /\ l # NULL
    BY <1>0, Constants DEF AtomInv, FIFOInv, Targets, Prologue, Loop, Frames
  <1>2. /\ e \in Descriptors /\ Sound(e) /\ e.kind \in {"enqueue", "dequeue"} /\ d(l) = e
        /\ ~Closed(e) => t = pending
        /\ frame[t].target = t
    BY <1>1, TargetFacts DEF d
  <1>3. \A m \in Level : des'[m] = IF m = t THEN e2 ELSE des[m]
    BY <1>0
  <1> HIDE DEF t, e
  <1>4. fr.pc \in {"test", "open", "post", "withdraw"}
        /\ fr.pc \notin {"idle", "begin", "load", "store", "return"}
        /\ (fr.pc = "withdraw" => fr.target = l) /\ (fr.pc = "post" => fr.target # l)
        /\ (fr.pc \in {"post", "withdraw"} => Closed(e2))
    BY DEF After
  <1>5. /\ Nested' /\ Ordered'
        /\ \A m \in Level : frame'[m] = IF m = l THEN fr ELSE frame[m]
        /\ \A m \in Level : (Active(m)' <=> Active(m)) /\ (Running(m)' => m = l)
    BY <1>1, <1>4, GoingOn
  <1>6. \A x \in Descriptors : Closed(x)' <=> Closed(x)
    BY DEF Closed, Known, Changes
  <1>7. Closed(e) => Closed(e2)
    BY <1>2 DEF Closed, Known, Changes
  <1>8. Finished'
    <2> SUFFICES ASSUME NEW m \in Level, frame'[m].target # NULL,
                        \/ frame'[m].target # pending
                        \/ frame'[m].pc \in {"post", "withdraw", "return"}
                 PROVE  Closed(des[frame[m].target])'
      BY DEF Finished
    <2>1. frame'[m].target \in Level /\ frame'[m].target = frame[m].target
      BY <1>5, TargetFacts
    <2>2. Closed(des'[frame[m].target])
      <3>1. CASE m = l
        <4>1. Closed(e2)
          <5>1. CASE fr.pc \in {"post", "withdraw", "return"}
            BY <1>4, <5>1
          <5>2. CASE t # pending
            BY <1>2, <1>7, <5>2
          <5> QED
            BY <1>5, <2>1, <3>1, <5>1, <5>2 DEF t
        <4> QED
          BY <1>3, <2>1, <3>1, <4>1 DEF t
      <3>2. CASE m # l
        <4>1. Closed(des[frame[m].target])
          BY <1>5, <2>1, <3>2 DEF AtomInv, Finished
        <4> QED
          BY <1>3, <1>7, <2>1, <4>1 DEF e
      <3> QED
        BY <3>1, <3>2
    <2> QED
      BY <2>1, <2>2 DEF Closed, Known, Changes
  <1>9. Described'
    <2> SUFFICES ASSUME NEW m \in Level
                 PROVE  /\ Sound(des[m])'
                        /\ (des'[m].kind = "none" <=> ~Active(m))
                        /\ frame'[m].target # m =>
                             des'[m] = Descriptor(des'[m].kind, des'[m].item)
      BY <1>5 DEF Described, Descriptor
    <2>1. Sound(des'[m])
      BY <1>3 DEF AtomInv, Described
    <2>2. Sound(des[m])'
      BY <2>1 DEF Sound, InOrder, Known, Changes
    <2>3. des'[m].kind = des[m].kind
      BY <1>2, <1>3 DEF e
    <2>4. frame'[m].target = frame[m].target
      BY <1>5
    <2>5. frame[m].target # m => m # t
      BY <1>2
    <2> QED
      BY <1>3, <2>2, <2>3, <2>4, <2>5 DEF AtomInv, Described
  <1>10. Confirmed'
    <2> SUFFICES ASSUME NEW m \in Level, frame'[m].target # NULL
                 PROVE  Confirms(frame[m], des[frame[m].target])'
      BY DEF Confirmed
    <2>1. frame'[m].target \in Level /\ frame'[m].target = frame[m].target
      BY <1>5, TargetFacts
    <2>2. Confirms(frame'[m], des'[frame[m].target])
      <3>1. CASE m = l
        BY <1>4, <1>5, <3>1 DEF Confirms
      <3>2. CASE m # l
        BY <1>3, <1>5, <2>1, <3>2 DEF AtomInv, Confirmed, t
      <3> QED
        BY <3>1, <3>2
    <2> QED
      BY <2>1, <2>2 DEF Confirms
  <1>11. Looped'
    <2> SUFFICES ASSUME NEW m \in Level, frame'[m].target # NULL
                 PROVE  Loops(frame[m], des[frame[m].target])'
      BY DEF Looped
    <2>1. frame'[m].target \in Level /\ frame'[m].target = frame[m].target
      BY <1>5, TargetFacts
    <2>2. Loops(frame'[m], des'[frame[m].target])
      <3>1. CASE m = l
        BY <1>4, <1>5, <3>1 DEF Loops, Loop
      <3>2. CASE m # l /\ frame[m].target # t
        BY <1>3, <1>5, <2>1, <3>2 DEF AtomInv, Looped
      <3>3. CASE m # l /\ frame[m].target = t
        <4>1. Loops(frame[m], e) /\ frame'[m] = frame[m]
          BY <1>5, <2>1, <3>3 DEF AtomInv, Looped, e
        <4>2. CASE frame[m].pc \notin Loop
          BY <1>3, <2>1, <3>3, <4>1, <4>2 DEF Loops, Loop
        <4>3. CASE frame[m].pc \in Loop
          <5>1. Written(e, 2) /\ Written(e, 4)
            BY <3>3, <4>3 DEF AtomInv, FIFOInv, Read, d, e
          <5>2. Known(e) /\ e.index # UNREAD
            BY <5>1, FieldNames DEF Written, Known
          <5>3. e2.slotReturn = e.slotReturn /\ e2.index = e.index
            BY <1>2, <5>2
          <5> QED
            BY <1>2, <1>3, <2>1, <3>3, <4>1, <5>3
               DEF Loops, Changes, Effect, Stored, Place, Moves, IndexOf
        <4> QED
          BY <4>2, <4>3
      <3> QED
        BY <3>1, <3>2, <3>3
    <2>3. des'[frame'[m].target] = des'[frame[m].target]
      BY <2>1
    <2>4. marker' = marker /\ q' = q /\ head' = head /\ tail' = tail
      OBVIOUS
    <2>5. /\ Changes(des[frame[m].target])' <=> Changes(des'[frame[m].target])
          /\ Moves(des[frame[m].target])' <=> Moves(des'[frame[m].target])
      BY <2>3, <2>4 DEF Changes, Moves
    <2>6. /\ Place(des[frame[m].target])' = Place(des'[frame[m].target])
          /\ IndexOf(des[frame[m].target])' = IndexOf(des'[frame[m].target])
      BY <2>3, <2>4 DEF Place, IndexOf
    <2>7. Effect(des[frame[m].target])' = Effect(des'[frame[m].target])
      BY <2>3 DEF Effect, Stored
    <2> QED
      BY <2>2, <2>3, <2>4, <2>5, <2>6, <2>7 DEF Loops
  <1>12. Known(e2) => Known(e) \/ (~e2.done /\ e2.index = IndexOf(e2)
                                    /\ q[Place(e2)] = e2.slotReturn)
    BY <1>2
  <1>13. Known(e) => /\ Known(e2) /\ e2.slotReturn = e.slotReturn /\ e2.index = e.index
                     /\ Place(e2) = Place(e) /\ Effect(e2) = Effect(e)
                     /\ Moves(e2) = Moves(e) /\ IndexOf(e2) = IndexOf(e)
                     /\ (Changes(e2) <=> Changes(e))
    <2>1. Known(e) => e2.slotReturn = e.slotReturn /\ e2.index = e.index
      BY <1>2 DEF Known, Sound, InOrder
    <2> QED
      BY <1>2, <2>1 DEF Known, Place, Effect, Stored, Moves, IndexOf, Changes
  <1>14. Known(e2) /\ Changes(e2) => Effect(e2) # e2.slotReturn
    BY <1>0, <1>2, Deciding
  <1>15. Filled' = Filled /\ Waiting' = Waiting
    BY DEF Filled, Waiting
  <1>16. Opened'
    <2> SUFFICES ASSUME pending # NULL
                 PROVE  Opened'
      BY DEF Opened
    <2>0. pending \in Level
      BY <1>0
    <2>1. Opens(des[pending])'
      <3>1. Opens(des'[pending])
        BY <1>3, <2>0 DEF AtomInv, Opened
      <3> QED
        BY <3>1 DEF Opens, IndexOf, Place, Known
    <2>2. ASSUME NEW m \in Level, frame'[m].target = pending
          PROVE  Reads(frame[m], des[pending])'
      <3>1. Reads(frame'[m], des'[pending])
        <4>1. CASE m = l
          BY <1>4, <1>5, <4>1 DEF Reads
        <4>2. CASE m # l /\ t # pending
          BY <1>3, <1>5, <2>0, <2>2, <4>2 DEF AtomInv, Opened
        <4>3. CASE m # l /\ t = pending
          BY <1>3, <1>5, <2>0, <2>2, <4>3 DEF t
        <4> QED
          BY <4>1, <4>2, <4>3
      <3> QED
        BY <3>1 DEF Reads, IndexOf, Place, Known
    <2>3. ASSUME Known(des'[pending]), ~Closed(des'[pending])
          PROVE  /\ Stage(des'[pending])
                 /\ (/\ des'[pending].kind = "dequeue" /\ Moves(des'[pending])
                     /\ q[Place(des'[pending])] = Effect(des'[pending]))
                    => des'[pending].slotReturn \notin Waiting
      <3>1. CASE t # pending
        BY <1>3, <2>0, <2>3, <3>1 DEF AtomInv, Opened
      <3>2. CASE t = pending /\ Known(e)
        <4>1. ~Closed(e)
          BY <1>3, <1>7, <2>0, <2>3, <3>2
        <4>2. /\ Stage(e)
              /\ (e.kind = "dequeue" /\ Moves(e) /\ q[Place(e)] = Effect(e)) =>
                    e.slotReturn \notin Waiting
          BY <3>2, <4>1 DEF AtomInv, Opened, e
        <4> QED
          BY <1>2, <1>3, <1>13, <2>0, <3>2, <4>2 DEF Stage
      <3>3. CASE t = pending /\ ~Known(e)
        <4>1. /\ e2.index = IndexOf(e2) /\ q[Place(e2)] = e2.slotReturn
              /\ Effect(e2) # e2.slotReturn /\ des'[pending] = e2
          BY <1>3, <1>12, <1>14, <2>0, <2>3, <3>3 DEF Closed
        <4> QED
          BY <4>1 DEF Stage
      <3> QED
        BY <3>1, <3>2, <3>3
    <2>4. (Known(des[pending]) /\ ~Closed(des[pending]))' =>
             /\ Stage(des[pending])'
             /\ ((/\ des[pending].kind = "dequeue" /\ Moves(des[pending])
                  /\ q[Place(des[pending])] = Effect(des[pending]))
                 => des[pending].slotReturn \notin Waiting)'
      BY <1>15, <2>3 DEF Stage, Effect, Stored, Place, Moves, IndexOf, Following,
             Known, Closed, Changes
    <2> QED
      BY <2>1, <2>2, <2>4 DEF Opened
  <1>17. Reserved'
    <2> SUFFICES ASSUME NEW m \in Level, Running(m)', frame'[m].target # NULL
                 PROVE  Reserves(frame[m], des[frame[m].target])'
      BY DEF Reserved
    <2> QED
      BY <1>4, <1>5 DEF Reserves
  <1>18. \A m \in Level : Moved(des[m])' <=> Moved(des[m])
    <2> SUFFICES ASSUME NEW m \in Level
                 PROVE  Moved(des'[m]) <=> Moved(des[m])
      BY DEF Moved, Known, Changes, Moves, IndexOf
    <2>1. Moved(e2) <=> Moved(e)
      BY <1>12, <1>13 DEF Moved
    <2> QED
      BY <1>3, <2>1 DEF e
  <1>19. Counted'
    <2>1. Unmoved' = Unmoved
      BY <1>5, <1>18 DEF Unmoved
    <2>2. ASSUME NEW m \in Level, Moved(des[m])'
          PROVE  (Ahead(des[m]) + Cardinality(Unmoved) <= calls)'
      <3>1. Moved(des[m])
        BY <1>18, <2>2
      <3>2. IndexOf(des'[m]) = IndexOf(des[m]) /\ des'[m].index = des[m].index
        BY <1>3, <1>13, <3>1 DEF Moved, e
      <3>3. Ahead(des[m])' = Ahead(des[m])
        BY <3>2 DEF Ahead, IndexOf
      <3> QED
        BY <2>1, <3>1, <3>3 DEF AtomInv, Counted
    <2>3. ASSUME NEW m \in Level, Known(des'[m]), des'[m].done, Changes(des'[m]),
                 Moves(des'[m])
          PROVE  des'[m].index # IndexOf(des'[m])
      <3>1. CASE m # t
        BY <1>3, <2>3, <3>1 DEF AtomInv, Counted
      <3>2. CASE m = t /\ e.done
        BY <1>3, <1>12, <1>13, <2>3, <3>2, <1>1 DEF AtomInv, Counted, e
      <3>3. CASE m = t /\ ~e.done
        BY <1>2, <1>3, <2>3, <3>3
      <3> QED
        BY <3>1, <3>2, <3>3
    <2>4. \A m \in Level :
            (Known(des[m]) /\ des[m].done /\ Changes(des[m]) /\ Moves(des[m]))' =>
              des'[m].index # IndexOf(des[m])'
      BY <2>3 DEF Known, Changes, Moves, IndexOf
    <2>5. (Cardinality(Unmoved) <= calls)'
      BY <2>1 DEF AtomInv, Counted
    <2> QED
      BY <2>2, <2>4, <2>5 DEF Counted
  <1>20. Shape'
    <2>1. ASSUME NEW k
          PROVE  Lags(k)' <=> Lags(k)
      <3>1. CASE pending = NULL
        BY <3>1 DEF Lags
      <3>2. CASE pending # NULL /\ t # pending
        <4>1. des'[pending] = des[pending]
          BY <1>0, <1>3, <3>2
        <4> QED
          BY <4>1 DEF Lags, Known, Changes, Moves, Place, Effect, Stored, IndexOf
      <3>3. CASE pending # NULL /\ t = pending /\ Known(e)
        <4>1. des'[pending] = e2 /\ des[pending] = e
          BY <1>1, <1>3, <3>3 DEF e
        <4>2. Lags(k) <=> /\ e2.kind = k /\ Known(e2) /\ Changes(e2) /\ Moves(e2)
                          /\ q[Place(e2)] = Effect(e2) /\ e2.index = IndexOf(e2)
          BY <1>2, <1>13, <3>3, <4>1 DEF Lags
        <4> QED
          BY <3>3, <4>1, <4>2 DEF Lags, Known, Changes, Moves, Place, Effect, Stored, IndexOf
      <3>4. CASE pending # NULL /\ t = pending /\ ~Known(e)
        <4>1. des'[pending] = e2 /\ des[pending] = e
          BY <1>1, <1>3, <3>4 DEF e
        <4>2. ~Lags(k)
          BY <3>4, <4>1 DEF Lags
        <4>3. ~ /\ Known(e2) /\ Changes(e2)
                /\ q[Place(e2)] = Effect(e2)
          BY <1>12, <1>14, <3>4
        <4> QED
          BY <4>1, <4>2, <4>3 DEF Lags, Known, Changes, Place, Effect, Stored
      <3> QED
        BY <3>1, <3>2, <3>3, <3>4
    <2>2. NextOut' = NextOut /\ NextIn' = NextIn /\ Length' = Length
      BY <1>15, <2>1 DEF NextOut, NextIn, Length, Following
    <2> QED
      BY <2>1, <2>2 DEF AtomInv, Shape
  <1>21. \A m \in Level : Taken(des[m])' <=> Taken(des'[m])
    BY DEF Taken, Known, Closed, Changes, Place, Effect, Stored
  <1>22. Taken(e) => Taken(e2)
    BY <1>7, <1>13 DEF Taken
  <1>23. Unique'
    <2>1. \A m \in Level : des'[m].kind = des[m].kind /\ des'[m].item = des[m].item
      BY <1>2, <1>3 DEF e
    <2>2. \A m \in Level : Taken(des[m]) => Taken(des[m])'
      BY <1>3, <1>21, <1>22 DEF e
    <2> QED
      BY <1>15, <2>1, <2>2 DEF AtomInv, Unique
  <1>24. AtomInv'
    BY <1>5, <1>8, <1>9, <1>10, <1>11, <1>16, <1>17, <1>19, <1>20, <1>23 DEF AtomInv
  <1>25. Contents' = Contents /\ (Signalled' <=> Signalled)
    BY <1>15 DEF Contents, Oldest, Signalled
  <1>26. \A m \in Level : m # t => des'[m] = des[m] /\ (Taken(des[m])' <=> Taken(des[m]))
    BY <1>3, <1>21
  <1>27. ASSUME ~Known(e2) \/ Known(e)
         PROVE  Stutter
    <2>1. Taken(e2) <=> Taken(e)
      <3>1. CASE ~Known(e2)
        BY <1>13, <3>1 DEF Taken
      <3>2. CASE Known(e)
        <4>1. Closed(e2) /\ ~Closed(e) => Taken(e)
          BY <1>2, <1>13, <3>2 DEF Closed, Taken
        <4> QED
          BY <1>13, <1>22, <3>2, <4>1 DEF Taken
      <3> QED
        BY <1>27, <3>1, <3>2
    <2>2. \A m \in Level : /\ des'[m].kind = des[m].kind /\ des'[m].item = des[m].item
                           /\ Taken(des[m])' <=> Taken(des[m])
                           /\ Known(des[m]) => des'[m].slotReturn = des[m].slotReturn
      BY <1>2, <1>3, <1>13, <1>21, <2>1 DEF e
    <2> QED
      BY <1>24, <1>25, <2>2, CallsStay DEF Stutter
  <1> QED
    BY <1>2, <1>24, <1>25, <1>26, <1>27 DEF t

LEMMA MarkDoneAtom ==
  ASSUME AtomInv, NEW l \in Level, MarkDone(l)
  PROVE  AtomInv' /\ Stutter
  <1> DEFINE fr == [frame[l] EXCEPT !.pc = After(l)]
             e2 == [d(l) EXCEPT !.done = TRUE]
  <1>1. At(l, "mark") /\ "mark" \in Loop
    BY DEF MarkDone, Loop
  <1>2. /\ d(l) \in Descriptors /\ Sound(d(l)) /\ frame[l].pc = "mark" /\ Running(l)
        /\ Known(d(l)) /\ Loops(frame[l], d(l)) /\ Changes(d(l))
        /\ ~Closed(d(l)) => frame[l].target = pending /\ frame[l].target # NULL
        /\ frame[l].target \in Level
    BY <1>1, LoopFacts
  <1>3. /\ e2 \in Descriptors /\ e2.kind = d(l).kind /\ e2.item = d(l).item /\ e2.done
        /\ e2.propose = d(l).propose /\ e2.index = d(l).index
        /\ e2.slotPropose = d(l).slotPropose /\ e2.slotReturn = d(l).slotReturn
    BY <1>2 DEF Descriptors
  <1>4. /\ frame' = [frame EXCEPT ![l] = fr] /\ fr.target = frame[l].target
        /\ fr.pc = After(l)
        /\ des' = [des EXCEPT ![frame[l].target] = e2]
    <2>1. frame \in [Level -> Frames] /\ des \in [Level -> Descriptors]
      BY Types DEF AtomInv, FIFOInv
    <2>2. frame' = [frame EXCEPT ![l] = fr] /\ fr.target = frame[l].target /\ fr.pc = After(l)
      BY <2>1 DEF MarkDone, Goto, Frames
    <2>3. des' = [des EXCEPT ![frame[l].target] = e2]
      BY <1>2, <2>1 DEF MarkDone, d, Descriptors
    <2> QED
      BY <2>2, <2>3
  <1> HIDE DEF fr, e2
  <1>5. UNCHANGED <<marker, q, head, tail, pending, calls>> /\ FIFOInv'
    BY MarkDoneStep DEF MarkDone, queue, AtomInv
  <1>6. /\ Known(e2) /\ Changes(e2) /\ Closed(e2) /\ Sound(e2)
        /\ Place(e2) = Place(d(l)) /\ Effect(e2) = Effect(d(l))
        /\ Moves(e2) = Moves(d(l)) /\ IndexOf(e2) = IndexOf(d(l))
    BY <1>2, <1>3 DEF Known, Changes, Closed, Sound, InOrder, Place, Effect, Stored,
       Moves, IndexOf
  <1>7. ~d(l).done => /\ q[Place(e2)] = Effect(e2)
                      /\ Moves(e2) => e2.index # IndexOf(e2)
    BY <1>2, <1>3, <1>6 DEF Loops
  <1>8. Opens(e2)
    BY <1>3, <1>6 DEF Opens, Known, Sound, InOrder
  <1>9. \A m \in Level : m # l /\ frame[m].target = frame[l].target =>
          Confirms(frame[m], e2) /\ (frame[l].target = pending => Reads(frame[m], e2))
    <2> SUFFICES ASSUME NEW m \in Level, frame[m].target = frame[l].target
                 PROVE  /\ Confirms(frame[m], e2)
                        /\ frame[l].target = pending => Reads(frame[m], e2)
      OBVIOUS
    <2>0. frame[m].target # NULL
      BY <1>2, Constants
    <2>1. Confirms(frame[m], d(l))
      BY <2>0 DEF AtomInv, Confirmed, d
    <2>2. frame[l].target = pending => Reads(frame[m], d(l))
      BY <2>0 DEF AtomInv, Opened, d
    <2> QED
      BY <1>2, <1>3, <1>6, <2>1, <2>2 DEF Confirms, Reads
  <1>10. frame[l].pc \in Prologue \cup Loop
    BY <1>1, <1>2
  <1> QED
    BY <1>2, <1>3, <1>4, <1>5, <1>6, <1>7, <1>8, <1>9, <1>10, DescriptorStep

(* A field stored again is given the value it has; what was read of the    *)
(* slot or of Head and Tail for a field still unread holds.                *)
LEMMA StoreFieldAtom ==
  ASSUME AtomInv, NEW l \in Level, StoreField(l)
  PROVE  /\ AtomInv' /\ UNCHANGED <<marker, Contents>> /\ (Signalled' <=> Signalled)
         /\ \A m \in Level : m # frame[l].target =>
              des'[m] = des[m] /\ (Taken(des[m])' <=> Taken(des[m]))
         /\ \/ Stutter
            \/ /\ ~Known(d(l)) /\ Known(des'[frame[l].target])
               /\ frame[l].target = pending /\ pending # NULL
               /\ des'[pending].kind = des[pending].kind
               /\ des'[pending].item = des[pending].item
               /\ ~des'[pending].done /\ des'[pending].slotReturn \in Slots
               /\ des'[pending].index = IndexOf(des'[pending])
               /\ q[Place(des'[pending])] = des'[pending].slotReturn
               /\ des[pending].kind \in {"enqueue", "dequeue"}
               /\ UNCHANGED <<q, head, tail, pending>>
  <1> DEFINE f == frame[l].field
             next == NextField(f)
             fr == [frame[l] EXCEPT !.pc = next.pc, !.field = next.field, !.read = NULL]
             e == d(l)
             e2 == [e EXCEPT ![Fields[f]] = frame[l].read]
  <1>1. At(l, "store") /\ "store" \in Prologue
    BY DEF StoreField, Prologue
  <1>2. /\ e \in Descriptors /\ Sound(e) /\ frame[l].pc = "store" /\ Running(l)
        /\ e.kind \in {"enqueue", "dequeue"}
        /\ f \in 1 .. 4 /\ Confirms(frame[l], e)
        /\ ~Closed(e) => frame[l].target = pending
        /\ frame[l].target = pending => Reads(frame[l], e)
        /\ frame[l].target \in Level /\ frame[l].target # NULL
        /\ f >= 2 => e.propose # UNREAD
        /\ f >= 3 => e.index # UNREAD
        /\ f >= 4 => e.slotPropose # UNREAD
    BY <1>1, PrologueFacts
  <1>3. frame[l].read \in (IF f <= 2 THEN Index ELSE Slots) /\ frame[l].read # UNREAD
    BY <1>2, Constants DEF AtomInv, FIFOInv, Read
  <1>4. next.pc \in {"test", "open"}
    BY <1>2, NextFieldFacts
  <1> HIDE DEF next
  <1>5. /\ frame' = [frame EXCEPT ![l] = fr] /\ fr.target = frame[l].target
        /\ fr.pc = next.pc
    <2>1. frame \in [Level -> Frames]
      BY Types DEF AtomInv, FIFOInv
    <2> QED
      BY <2>1 DEF StoreField, next, Frames
  <1>6. des' = [des EXCEPT ![frame[l].target] = e2]
    <2>1. des \in [Level -> Descriptors]
      BY Types DEF AtomInv, FIFOInv
    <2> QED
      BY <1>2, <2>1 DEF StoreField, d
  <1>7. /\ e2 \in Descriptors /\ e2.kind = e.kind /\ e2.item = e.item /\ e2.done = e.done
        /\ e2.propose = IF f = 1 THEN frame[l].read ELSE e.propose
        /\ e2.index = IF f = 2 THEN frame[l].read ELSE e.index
        /\ e2.slotPropose = IF f = 3 THEN frame[l].read ELSE e.slotPropose
        /\ e2.slotReturn = IF f = 4 THEN frame[l].read ELSE e.slotReturn
    <2>1. f = 1 \/ f = 2 \/ f = 3 \/ f = 4
      BY <1>2
    <2>2. CASE f = 1
      BY <1>2, <1>3, <2>2, FieldNames DEF Descriptors
    <2>3. CASE f = 2
      BY <1>2, <1>3, <2>3, FieldNames DEF Descriptors
    <2>4. CASE f = 3
      BY <1>2, <1>3, <2>4, FieldNames DEF Descriptors
    <2>5. CASE f = 4
      BY <1>2, <1>3, <2>5, FieldNames DEF Descriptors
    <2> QED
      BY <2>1, <2>2, <2>3, <2>4, <2>5
  <1> HIDE DEF fr, e2
  <1>8. UNCHANGED <<marker, q, head, tail, pending, calls>> /\ FIFOInv'
    <2>1. FIFOInv'
      BY StoreFieldStep DEF AtomInv
    <2> QED
      BY <2>1 DEF StoreField, queue
  <1>9. Opens(e) \/ Closed(e)
    BY <1>2 DEF AtomInv, Opened, d
  <1>10. IndexOf(e2) = IndexOf(e) /\ (e2.index = e.index => Place(e2) = Place(e))
    BY <1>7 DEF IndexOf, Place
  <1> HIDE DEF e
  <1>11. e.index # UNREAD => e2.index = e.index
    BY <1>2, <1>7 DEF Confirms
  <1>12. Known(e) => e2.slotReturn = e.slotReturn
    BY <1>2, <1>7 DEF Confirms, Known
  <1>13. Known(e) => e.index # UNREAD
    BY <1>2 DEF Known, Sound, InOrder
  <1>14. InOrder(e2)
    BY <1>2, <1>3, <1>7 DEF InOrder, Sound
  <1>15. ~Known(e) => ~Closed(e) /\ Opens(e) /\ Reads(frame[l], e) /\ frame[l].target = pending
    BY <1>2, <1>9 DEF Closed
  <1>16. ~Known(e) /\ Known(e2) =>
           /\ f = 4 /\ ~e2.done /\ e2.index = IndexOf(e2) /\ q[Place(e2)] = e2.slotReturn
    <2> SUFFICES ASSUME ~Known(e), Known(e2)
                 PROVE  /\ f = 4 /\ ~e2.done /\ e2.index = IndexOf(e2)
                        /\ q[Place(e2)] = e2.slotReturn
      OBVIOUS
    <2>1. f = 4 /\ e2.index = e.index /\ e.index # UNREAD /\ e.slotPropose # UNREAD
      BY <1>2, <1>7 DEF Known
    <2>2. e2.slotReturn = e.slotPropose
      BY <1>2, <1>7, <2>1 DEF Confirms, Known
    <2>3. ~e2.done
      BY <1>2, <1>7 DEF Sound, InOrder, Known
    <2> QED
      BY <1>10, <1>15, <2>1, <2>2, <2>3 DEF Opens
  <1>17. Sound(e2)
    <2>1. ASSUME Known(e2), Changes(e2), e2.kind = "dequeue", e2.slotReturn = SIGNAL
          PROVE  FALSE
      <3>1. CASE Known(e)
        BY <1>2, <1>7, <1>12, <2>1, <3>1 DEF Sound, Changes
      <3>2. CASE ~Known(e)
        <4>1. Place(e2) \in 0 .. QueueLength - 1
          <5>1. e2.index \in Index
            BY <1>2, <1>7, <1>16, <2>1, <3>2 DEF Descriptors
          <5> QED
            BY <5>1, Constants, IndexFacts DEF Place
        <4>2. q[Place(e2)] = SIGNAL
          BY <1>16, <2>1, <3>2
        <4>3. marker = SIGNAL
          BY <4>1, <4>2 DEF AtomInv, Shape
        <4> QED
          BY <2>1, <4>3 DEF Changes
      <3> QED
        BY <3>1, <3>2
    <2> QED
      BY <1>2, <1>7, <1>14, <2>1 DEF Sound
  <1>18. Opens(e2)
    <2>1. CASE Known(e)
      <3>1. Known(e2) /\ e2.index # UNREAD
        BY <1>11, <1>12, <1>13, <2>1 DEF Known
      <3> QED
        BY <3>1 DEF Opens
    <2>2. CASE ~Known(e)
      <3>1. e2.index = UNREAD /\ e2.propose # UNREAD => e2.propose = IndexOf(e2)
        <4>1. e2.index = UNREAD => e.index = UNREAD
          BY <1>11
        <4>2. f # 1 => e2.propose = e.propose
          BY <1>7
        <4>3. f = 1 /\ e.index = UNREAD => e2.propose = IndexOf(e)
          BY <1>2, <1>7, <1>15, <2>2 DEF Reads
        <4> QED
          BY <1>10, <1>15, <2>2, <4>1, <4>2, <4>3 DEF Opens
      <3>2. e2.index # UNREAD => e2.index = IndexOf(e2)
        BY <1>2, <1>7, <1>10, <1>15, <2>2 DEF Opens, Confirms
      <3>3. e2.slotPropose # UNREAD => e2.slotPropose = q[Place(e2)]
        <4>1. e2.slotPropose # UNREAD => e2.index = e.index
          BY <1>2, <1>7, <1>11 DEF Sound, InOrder
        <4> QED
          BY <1>2, <1>7, <1>10, <1>15, <2>2, <4>1 DEF Opens, Reads
      <3> QED
        BY <3>1, <3>2, <3>3 DEF Opens
    <2> QED
      BY <2>1, <2>2
  <1>19. ASSUME NEW m \in Level, m # l, frame[m].target = frame[l].target
         PROVE  Confirms(frame[m], e2) /\ (frame[l].target = pending => Reads(frame[m], e2))
    <2>1. m < l
      <3>1. Active(m)
        BY <1>2, <1>19 DEF AtomInv, FIFOInv, Targets, Active
      <3> QED
        BY <1>2, <1>19, <3>1, Constants DEF Running
    <2>2. frame[m].field <= f /\ frame[m].field \in 1 .. 4
      <3>1. frame[m] \in Frames
        BY Types DEF AtomInv, FIFOInv
      <3> QED
        BY <1>2, <1>19, <2>1, <3>1 DEF AtomInv, Ordered, Frames, f
    <2>3. Confirms(frame[m], e)
      BY <1>2, <1>19 DEF AtomInv, Confirmed, d, e
    <2>4. frame[l].target = pending => Reads(frame[m], e)
      BY <1>2, <1>19 DEF AtomInv, Opened, d, e
    <2>5. Confirms(frame[m], e2)
      <3>1. frame[m].field = 2 => /\ e2.propose = e.propose
                                  /\ e.index = UNREAD => e2.index \in {UNREAD, e.propose}
        BY <1>2, <1>7, <2>2 DEF Confirms
      <3>2. frame[m].field = 4 =>
              /\ e2.slotPropose = e.slotPropose
              /\ e.slotReturn = UNREAD => e2.slotReturn = e.slotPropose
        BY <1>2, <1>7, <2>2 DEF Confirms
      <3> QED
        BY <1>11, <1>12, <2>3, <3>1, <3>2 DEF Confirms, Known
    <2>6. frame[l].target = pending => Reads(frame[m], e2)
      <3>1. frame[m].pc = "store" /\ frame[m].field = 3 /\ ~Known(e2) =>
              ~Known(e) /\ Place(e2) = Place(e)
        BY <1>2, <1>7, <1>10, <1>12, <2>2 DEF Known
      <3>2. e2.index = UNREAD => e.index = UNREAD
        BY <1>11
      <3> QED
        BY <1>10, <2>4, <3>1, <3>2 DEF Reads
    <2> QED
      BY <2>5, <2>6
  <1>20. frame[l].pc \in Prologue \cup Loop
    BY <1>1, <1>2
  <1>21. /\ AtomInv' /\ UNCHANGED <<marker, Contents>> /\ (Signalled' <=> Signalled)
         /\ \A m \in Level : m # frame[l].target =>
              des'[m] = des[m] /\ (Taken(des[m])' <=> Taken(des[m]))
         /\ (~Known(e2) \/ Known(e)) => Stutter
    <2>1. fr.pc \in {"test", "open"} /\ (d(l).done => e2.done) /\ ~(e2.done /\ ~d(l).done)
      BY <1>4, <1>5, <1>7 DEF e
    <2>2. /\ Sound(e2) /\ e2.kind = d(l).kind /\ e2.item = d(l).item /\ e2 \in Descriptors
          /\ d(l).index # UNREAD => e2.index = d(l).index
          /\ Known(d(l)) => e2.slotReturn = d(l).slotReturn
          /\ ~Known(d(l)) /\ Known(e2) =>
               /\ ~e2.done /\ e2.index = IndexOf(e2) /\ q[Place(e2)] = e2.slotReturn
      BY <1>7, <1>11, <1>12, <1>16, <1>17 DEF e
    <2>3. /\ Running(l) /\ frame' = [frame EXCEPT ![l] = fr] /\ fr.target = frame[l].target
          /\ des' = [des EXCEPT ![frame[l].target] = e2]
          /\ UNCHANGED <<marker, q, head, tail, pending, calls>> /\ FIFOInv' /\ Opens(e2)
      BY <1>2, <1>5, <1>6, <1>8, <1>18
    <2> QED
      BY <1>19, <1>20, <2>1, <2>2, <2>3, DescriptorStep DEF e
  <1>22. des'[frame[l].target] = e2 /\ e = d(l) /\ d(l) = des[frame[l].target]
    BY <1>2, <1>6, Types DEF AtomInv, FIFOInv, e, d
  <1>23. ASSUME ~Known(e), Known(e2)
         PROVE  /\ frame[l].target = pending /\ pending # NULL /\ e2 = des'[pending]
                /\ e = des[pending] /\ e2.slotReturn \in Slots
    BY <1>2, <1>7, <1>15, <1>22, <1>23 DEF Known, Descriptors
  <1>24. CASE ~Known(e) /\ Known(e2)
    BY <1>2, <1>7, <1>8, <1>16, <1>21, <1>22, <1>23, <1>24
  <1>25. CASE ~(~Known(e) /\ Known(e2))
    BY <1>21, <1>25
  <1> QED
    BY <1>24, <1>25

-----------------------------------------------------------------------------
(***************************************************************************)
(* Arithmetic of indexes that wrap around.                                 *)
(***************************************************************************)
LEMMA Division ==
  ASSUME NEW n \in Nat \ {0}, NEW a \in Nat
  PROVE  a = n * (a \div n) + (a % n) /\ (a % n) \in 0 .. n - 1 /\ a \div n \in Nat
  OBVIOUS

LEMMA Remainder ==
  ASSUME NEW n \in Nat \ {0}, NEW k \in Nat, NEW r \in 0 .. n - 1
  PROVE  (n * k + r) % n = r
  OBVIOUS

LEMMA Offset ==
  ASSUME NEW n \in Nat \ {0}, NEW a \in Nat, NEW i \in 0 .. n
  PROVE  (a + i) % n = IF (a % n) + i < n THEN (a % n) + i ELSE ((a % n) + i) - n
  <1> DEFINE k == a \div n
             r == a % n
  <1>1. a = n * k + r /\ r \in 0 .. n - 1 /\ k \in Nat
    BY Division
  <1> HIDE DEF k, r
  <1>2. CASE r + i < n
    <2>1. r + i \in 0 .. n - 1 /\ a + i = n * k + (r + i)
      BY <1>1, <1>2
    <2>2. (a + i) % n = r + i
      BY <2>1, <1>1, Remainder
    <2> QED
      BY <1>2, <2>2 DEF r
  <1>3. CASE ~(r + i < n)
    <2>1. (r + i) - n \in 0 .. n - 1
      BY <1>1, <1>3
    <2>2. a + i = n * (k + 1) + ((r + i) - n)
      <3>1. n * (k + 1) = n * k + n
        BY <1>1
      <3> QED
        BY <1>1, <3>1
    <2>3. (a + i) % n = (r + i) - n
      <3>1. k + 1 \in Nat
        BY <1>1
      <3> QED
        BY <2>1, <2>2, <3>1, Remainder
    <2> QED
      BY <1>3, <2>3 DEF r
  <1> QED
    BY <1>2, <1>3

(* A multiple of n leaves nothing.                                         *)
LEMMA Multiple ==
  ASSUME NEW n \in Nat \ {0}, NEW m \in Nat, m % n = 0, NEW a \in Nat
  PROVE  (m + a) % n = a % n
  <1> DEFINE k == a \div n
             r == a % n
             j == m \div n
  <1>1. a = n * k + r /\ r \in 0 .. n - 1 /\ k \in Nat
    BY Division
  <1>2. m = n * j /\ j \in Nat
    BY Division
  <1> HIDE DEF k, r, j
  <1>3. n * (j + k) = n * j + n * k
    BY <1>1, <1>2
  <1>4. m + a = n * (j + k) + r /\ j + k \in Nat
    BY <1>1, <1>2, <1>3
  <1>5. (m + a) % n = r
    BY <1>1, <1>4, Remainder
  <1> QED
    BY <1>5 DEF r

(* Places one after the other in an array are different ones, and they     *)
(* are all there are.                                                      *)
LEMMA Distinct ==
  ASSUME NEW n \in Nat \ {0}, NEW a \in Nat
  PROVE  /\ \A i, j \in 0 .. n - 1 : (a + i) % n = (a + j) % n => i = j
         /\ (a + n) % n = a % n
         /\ \A p \in 0 .. n - 1 : \E i \in 0 .. n - 1 : (a + i) % n = p
  <1> DEFINE r == a % n
  <1>1. r \in 0 .. n - 1
    BY Division
  <1>2. \A i \in 0 .. n : (a + i) % n = IF r + i < n THEN r + i ELSE (r + i) - n
    BY Offset
  <1> HIDE DEF r
  <1>3. \A i, j \in 0 .. n - 1 : (a + i) % n = (a + j) % n => i = j
    BY <1>1, <1>2
  <1>4. (a + n) % n = r
    BY <1>1, <1>2
  <1>5. ASSUME NEW p \in 0 .. n - 1
        PROVE  \E i \in 0 .. n - 1 : (a + i) % n = p
    <2> DEFINE i == IF p >= r THEN p - r ELSE (p + n) - r
    <2>1. i \in 0 .. n - 1
      BY <1>1
    <2>2. i \in 0 .. n /\ (IF r + i < n THEN r + i ELSE (r + i) - n) = p
      BY <1>1, <2>1
    <2>3. (a + i) % n = p
      BY <1>2, <2>2
    <2> QED
      BY <2>1, <2>3
  <1> QED
    BY <1>3, <1>4, <1>5 DEF r

-----------------------------------------------------------------------------
(***************************************************************************)
(* Indexes and slots of the queue.                                         *)
(***************************************************************************)
LEMMA Sizes ==
  /\ QueueLength \in Nat \ {0} /\ MaxIndex \in Nat \ {0} /\ MaxIndex % QueueLength = 0
  /\ QueueLength <= MaxIndex /\ MaxCalls \in Nat /\ MaxCalls + 1 < MaxIndex
  <1>1. /\ QueueLength \in Nat \ {0} /\ MaxIndex \in Nat \ {0}
        /\ MaxIndex % QueueLength = 0 /\ MaxCalls \in Nat /\ MaxCalls + 1 < MaxIndex
    BY QueueAssumption
  <1>2. QueueLength <= MaxIndex
    <2> SUFFICES ASSUME MaxIndex < QueueLength
                 PROVE  FALSE
      BY <1>1
    <2>1. MaxIndex \in 0 .. QueueLength - 1 /\ QueueLength * 0 + MaxIndex = MaxIndex
      BY <1>1
    <2>2. (QueueLength * 0 + MaxIndex) % QueueLength = MaxIndex
      BY <1>1, <2>1, Remainder
    <2> QED
      BY <1>1, <2>1, <2>2
  <1> QED
    BY <1>1, <1>2

(* Where an index that wraps around leads.                                 *)
LEMMA WrapSlot ==
  ASSUME NEW i \in Index, NEW k \in 0 .. MaxIndex
  PROVE  /\ ((i + k) % MaxIndex) % QueueLength = (i + k) % QueueLength
         /\ (i + k) % MaxIndex = IF i + k < MaxIndex THEN i + k ELSE (i + k) - MaxIndex
  <1>1. i \in 0 .. MaxIndex - 1
    BY DEF Index
  <1>2. i % MaxIndex = i
    BY <1>1, Sizes
  <1>3. (i + k) % MaxIndex = IF i + k < MaxIndex THEN i + k ELSE (i + k) - MaxIndex
    <2>1. i \in Nat /\ MaxIndex \in Nat \ {0}
      BY <1>1, Sizes
    <2>2. (i + k) % MaxIndex = IF (i % MaxIndex) + k < MaxIndex THEN (i % MaxIndex) + k
                               ELSE ((i % MaxIndex) + k) - MaxIndex
      BY <2>1, Offset
    <2> QED
      BY <1>2, <2>2
  <1>4. CASE i + k < MaxIndex
    BY <1>3, <1>4
  <1>5. CASE ~(i + k < MaxIndex)
    <2> DEFINE x == (i + k) - MaxIndex
    <2>1. x \in Nat /\ i + k = MaxIndex + x
      BY <1>1, <1>5, Sizes
    <2> HIDE DEF x
    <2>2. (MaxIndex + x) % QueueLength = x % QueueLength
      BY <2>1, Sizes, Multiple
    <2> QED
      BY <1>3, <1>5, <2>1, <2>2 DEF x
  <1> QED
    BY <1>3, <1>4, <1>5

LEMMA FollowingFacts ==
  ASSUME NEW i \in Index
  PROVE  /\ Following(i) \in Index /\ (MaxIndex > 1 => Following(i) # i)
         /\ Following(i) = IF i + 1 < MaxIndex THEN i + 1 ELSE 0
         /\ \A k \in Nat : /\ (Following(i) + k) % MaxIndex = (i + (k + 1)) % MaxIndex
                           /\ (Following(i) + k) % QueueLength = (i + (k + 1)) % QueueLength
  <1>1. i \in 0 .. MaxIndex - 1 /\ 1 \in 0 .. MaxIndex
    BY Sizes DEF Index
  <1>2. Following(i) = IF i + 1 < MaxIndex THEN i + 1 ELSE 0
    BY <1>1, WrapSlot, Sizes DEF Following
  <1>3. Following(i) \in Index /\ (MaxIndex > 1 => Following(i) # i)
    BY <1>1, <1>2, Sizes DEF Index
  <1>4. ASSUME NEW k \in Nat
        PROVE  /\ (Following(i) + k) % MaxIndex = (i + (k + 1)) % MaxIndex
               /\ (Following(i) + k) % QueueLength = (i + (k + 1)) % QueueLength
    <2>1. CASE i + 1 < MaxIndex
      <3>1. Following(i) + k = i + (k + 1)
        BY <1>1, <1>2, <2>1
      <3> QED
        BY <3>1
    <2>2. CASE ~(i + 1 < MaxIndex)
      <3>1. Following(i) + k = k /\ i + (k + 1) = MaxIndex + k
        BY <1>1, <1>2, <2>2, Sizes
      <3>2. MaxIndex % MaxIndex = 0
        BY Sizes
      <3>3. (MaxIndex + k) % MaxIndex = k % MaxIndex
        BY <3>2, Sizes, Multiple
      <3>4. (MaxIndex + k) % QueueLength = k % QueueLength
        BY Sizes, Multiple
      <3> QED
        BY <3>1, <3>3, <3>4
    <2> QED
      BY <2>1, <2>2
  <1> QED
    BY <1>2, <1>3, <1>4

LEMMA FilledFacts ==
  ASSUME TypeOK
  PROVE  /\ DOMAIN q = 0 .. QueueLength - 1 /\ IsFiniteSet(Filled)
         /\ Length \in 0 .. QueueLength
  <1>1. DOMAIN q = 0 .. QueueLength - 1
    BY Types
  <1>2. IsFiniteSet(0 .. QueueLength - 1) /\ Cardinality(0 .. QueueLength - 1) = QueueLength
    BY Sizes, FS_Interval
  <1>3. Filled \in SUBSET (0 .. QueueLength - 1)
    BY <1>1 DEF Filled
  <1>4. IsFiniteSet(Filled) /\ Cardinality(Filled) <= QueueLength
    BY <1>2, <1>3, FS_Subset
  <1>5. Cardinality(Filled) \in Nat
    BY <1>4, FS_CardinalityType
  <1> QED
    BY <1>1, <1>4, <1>5, Sizes DEF Length

(* The items in their order.                                               *)
LEMMA ContentsAre ==
  ASSUME AtomInv
  PROVE  /\ Contents = [i \in 1 .. Length |-> q[(NextOut + (i - 1)) % QueueLength]]
         /\ NextOut \in Index /\ Length \in 0 .. QueueLength
         /\ \A i \in 0 .. QueueLength - 1 :
              q[(NextOut + i) % QueueLength] \in Items <=> i < Length
  <1>1. /\ head \in Index /\ Length \in 0 .. QueueLength
        /\ \A i \in 0 .. QueueLength - 1 :
              q[(NextOut + i) % QueueLength] \in Items <=> i < Length
    BY Types, FilledFacts DEF AtomInv, FIFOInv, Shape
  <1>2. NextOut \in Index
    BY <1>1, FollowingFacts DEF NextOut
  <1>3. \A i \in 1 .. Length : (Oldest + (i - 1)) % QueueLength = (NextOut + (i - 1)) % QueueLength
    <2> SUFFICES ASSUME NEW i \in 1 .. Length
                 PROVE  (Oldest + (i - 1)) % QueueLength = (NextOut + (i - 1)) % QueueLength
      OBVIOUS
    <2>1. CASE Lags("dequeue")
      <3>1. /\ q[head % QueueLength] \notin Items /\ NextOut = Following(head)
        <4>1. /\ des[pending].kind = "dequeue" /\ des[pending].slotReturn # NULL
              /\ q[head % QueueLength] = Effect(des[pending])
          BY <2>1 DEF Lags, Moves, Place, IndexOf
        <4>2. Effect(des[pending]) = NULL
          BY <4>1 DEF Effect, Stored
        <4> QED
          BY <2>1, <4>1, <4>2, QueueAssumption DEF NextOut
      <3>2. Oldest = head + 1 /\ i - 1 \in Nat /\ head \in Nat
        BY <1>1, <3>1 DEF Oldest, Index
      <3>3. (Following(head) + (i - 1)) % QueueLength = (head + ((i - 1) + 1)) % QueueLength
        BY <1>1, <3>2, FollowingFacts
      <3>4. head + ((i - 1) + 1) = Oldest + (i - 1)
        BY <3>2
      <3> QED
        BY <3>1, <3>3, <3>4
    <2>2. CASE ~Lags("dequeue")
      <3>1. NextOut = head /\ 0 \in 0 .. QueueLength - 1 /\ 0 < Length /\ head + 0 = head
        BY <1>1, <2>2, Sizes DEF NextOut, Index
      <3>2. q[head % QueueLength] \in Items
        BY <1>1, <3>1
      <3> QED
        BY <3>1, <3>2 DEF Oldest
    <2> QED
      BY <2>1, <2>2
  <1> QED
    BY <1>1, <1>2, <1>3 DEF Contents, Length

LEMMA ContentsWere ==
  AtomInv => Contents = [i \in 1 .. Length |-> q[(NextOut + (i - 1)) % QueueLength]]
  BY ContentsAre

LEMMA ContentsStay ==
  AtomInv' => (Contents = [i \in 1 .. Length |-> q[(NextOut + (i - 1)) % QueueLength]])'
  BY ContentsWere, PTL

-----------------------------------------------------------------------------
(***************************************************************************)
(* The store that gives the posted operation its effect.                   *)
(***************************************************************************)
Storing(e) ==
  /\ pending # NULL /\ e = des[pending]
  /\ Known(e) /\ Changes(e) /\ ~e.done
  /\ e.index = IndexOf(e) /\ q[Place(e)] = e.slotReturn
  /\ q' = [q EXCEPT ![Place(e)] = Effect(e)]
  /\ UNCHANGED <<marker, head, tail, pending, des, calls>>

(* Before it nothing lags behind.                                          *)
LEMMA StoringFacts ==
  ASSUME AtomInv, NEW e, Storing(e)
  PROVE  /\ pending \in Level /\ e \in Descriptors /\ Sound(e)
         /\ e.kind \in {"enqueue", "dequeue"} /\ e.slotReturn \in Slots
         /\ Place(e) \in 0 .. QueueLength - 1 /\ Effect(e) \in Slots
         /\ Effect(e) # e.slotReturn
         /\ \A i \in 0 .. QueueLength - 1 :
              q'[i] = IF i = Place(e) THEN Effect(e) ELSE q[i]
         /\ \A k : ~Lags(k)
         /\ NextOut = head /\ NextIn = tail
         /\ Place(e) = IndexOf(e) % QueueLength
         /\ head \in Index /\ tail \in Index /\ marker \in {SIGNAL, NULL}
         /\ Length \in 0 .. QueueLength /\ IsFiniteSet(Filled)
         /\ tail = (head + Length) % MaxIndex
         /\ \A i \in 0 .. QueueLength - 1 :
              q[(head + i) % QueueLength] \in Items <=> i < Length
  <1>1. pending \in Level /\ e = des[pending] /\ Known(e) /\ Changes(e) /\ e.index = IndexOf(e)
    BY PostedFacts DEF Storing
  <1>2. /\ e \in Descriptors /\ Sound(e)
        /\ e.kind \in {"enqueue", "dequeue"} /\ e.slotReturn \in Slots
        /\ Place(e) \in 0 .. QueueLength - 1
    BY <1>1, KnownFacts
  <1>3. marker \in {SIGNAL, NULL} /\ head \in Index /\ tail \in Index /\ TypeOK
        /\ q \in [0 .. QueueLength - 1 -> Slots]
    BY Types DEF AtomInv, FIFOInv, TypeOK
  <1>4. Effect(e) \in Slots /\ Effect(e) # e.slotReturn
    BY <1>1, <1>2, <1>3, Deciding
  <1>5. \A i \in 0 .. QueueLength - 1 : q'[i] = IF i = Place(e) THEN Effect(e) ELSE q[i]
    BY <1>2, <1>3 DEF Storing
  <1>6. \A k : ~Lags(k)
    BY <1>1, <1>4 DEF Storing, Lags
  <1>7. NextOut = head /\ NextIn = tail
    BY <1>6 DEF NextOut, NextIn
  <1>8. Place(e) = IndexOf(e) % QueueLength
    BY <1>1 DEF Place
  <1>9. Length \in 0 .. QueueLength /\ IsFiniteSet(Filled)
    BY <1>3, FilledFacts
  <1>10. /\ tail = (head + Length) % MaxIndex
         /\ \A i \in 0 .. QueueLength - 1 :
              q[(head + i) % QueueLength] \in Items <=> i < Length
    BY <1>7 DEF AtomInv, Shape
  <1> QED
    BY <1>1, <1>2, <1>3, <1>4, <1>5, <1>6, <1>7, <1>8, <1>9, <1>10

(* The operation is the only one that can lag after it.                    *)
LEMMA LagsAfter ==
  ASSUME AtomInv, NEW e, Storing(e)
  PROVE  /\ Lags("dequeue")' <=> e.kind = "dequeue" /\ Moves(e)
         /\ Lags("enqueue")' <=> e.kind = "enqueue" /\ Moves(e)
         /\ Moves(e) <=> e.slotReturn \in (IF e.kind = "dequeue" THEN Items ELSE {NULL})
         /\ Filled' = {i \in 0 .. QueueLength - 1 : q'[i] \in Items}
         /\ Filled = {i \in 0 .. QueueLength - 1 : q[i] \in Items}
  <1>1. /\ pending # NULL /\ e = des[pending] /\ Known(e) /\ Changes(e)
        /\ e.index = IndexOf(e)
        /\ pending' = pending /\ des' = des /\ head' = head /\ tail' = tail /\ marker' = marker
    BY DEF Storing
  <1>2. /\ Sound(e) /\ q'[Place(e)] = Effect(e) /\ e.slotReturn \in Slots
        /\ e.kind \in {"enqueue", "dequeue"}
    BY StoringFacts
  <1>3. ASSUME NEW k
        PROVE  Lags(k)' <=> e.kind = k /\ Moves(e)
    BY <1>1, <1>2 DEF Lags, Known, Changes, Moves, Place, Effect, Stored, IndexOf
  <1>4. Moves(e) <=> e.slotReturn \in (IF e.kind = "dequeue" THEN Items ELSE {NULL})
    BY <1>1, <1>2, QueueAssumption DEF Moves, Sound, Changes, Slots
  <1>5. DOMAIN q' = 0 .. QueueLength - 1 /\ DOMAIN q = 0 .. QueueLength - 1
    BY Types DEF Storing, AtomInv, FIFOInv
  <1> QED
    BY <1>3, <1>4, <1>5 DEF Filled

(* A dequeue that finds nothing leaves a signal in the slot of Head.       *)
LEMMA SignalLeft ==
  ASSUME AtomInv, NEW e, Storing(e), e.kind = "dequeue", e.slotReturn = NULL
  PROVE  /\ Shape' /\ Length = 0 /\ Length' = 0 /\ Effect(e) = SIGNAL /\ marker = SIGNAL
         /\ NextOut' = NextOut /\ NextIn' = NextIn
  <1>1. Effect(e) = SIGNAL /\ SIGNAL \notin Items /\ NULL \notin Items
    BY QueueAssumption DEF Effect, Stored
  <1>2. Place(e) = head % QueueLength /\ q[Place(e)] = NULL
    BY StoringFacts DEF IndexOf, Storing
  <1>3. marker = SIGNAL
    BY StoringFacts DEF Storing, Changes
  <1>4. Length = 0
    <2>1. head + 0 = head /\ 0 \in 0 .. QueueLength - 1 /\ Length \in Nat
      BY StoringFacts, Sizes DEF Index
    <2>2. ~(0 < Length)
      BY <1>1, <1>2, <2>1, StoringFacts
    <2> QED
      BY <2>1, <2>2
  <1>5. \A i \in 0 .. QueueLength - 1 : q'[i] \in Items <=> q[i] \in Items
    BY <1>1, <1>2, StoringFacts
  <1>6. Filled' = Filled /\ Length' = Length
    BY <1>5, LagsAfter DEF Length
  <1>7. ~Lags("dequeue")' /\ ~Lags("enqueue")'
    BY <1>1, LagsAfter
  <1>8. NextOut' = head /\ NextIn' = tail /\ UNCHANGED <<head, tail, marker>>
    BY <1>7 DEF NextOut, NextIn, Storing
  <1>9. ASSUME NEW i \in 0 .. QueueLength - 1
        PROVE  q'[(head + i) % QueueLength] \in Items <=> i < Length
    <2>1. (head + i) % QueueLength \in 0 .. QueueLength - 1
      <3>1. head + i \in Nat
        BY StoringFacts DEF Index
      <3> QED
        BY <3>1, IndexFacts
    <2> QED
      BY <1>5, <2>1, StoringFacts
  <1>10. ASSUME NEW i \in 0 .. QueueLength - 1, q'[i] = SIGNAL
         PROVE  i = head % QueueLength
    BY <1>2, <1>10, StoringFacts DEF AtomInv, Shape
  <1>11. NextIn' = (NextOut' + Length') % MaxIndex
    BY <1>6, <1>8, StoringFacts
  <1>12. Shape'
    BY <1>3, <1>4, <1>6, <1>7, <1>8, <1>9, <1>10, <1>11 DEF Shape
  <1> QED
    BY <1>1, <1>3, <1>4, <1>6, <1>8, <1>12, StoringFacts

(* An enqueue that finds a signal takes it.                                *)
LEMMA SignalTaken ==
  ASSUME AtomInv, NEW e, Storing(e), e.kind = "enqueue", e.slotReturn = SIGNAL
  PROVE  /\ Shape' /\ Length = 0 /\ Length' = 0 /\ Effect(e) = NULL /\ marker = SIGNAL
         /\ NextOut' = NextOut /\ NextIn' = NextIn
         /\ \A i \in 0 .. QueueLength - 1 : q'[i] # SIGNAL
  <1>1. Effect(e) = NULL /\ SIGNAL \notin Items /\ NULL \notin Items /\ NULL # SIGNAL
    BY QueueAssumption DEF Effect, Stored
  <1>2. Place(e) \in 0 .. QueueLength - 1 /\ q[Place(e)] = SIGNAL
    BY StoringFacts DEF Storing
  <1>3. marker = SIGNAL /\ Length = 0 /\ Place(e) = head % QueueLength
    BY <1>2 DEF AtomInv, Shape
  <1>5. \A i \in 0 .. QueueLength - 1 : q'[i] \in Items <=> q[i] \in Items
    BY <1>1, <1>2, StoringFacts
  <1>6. Filled' = Filled /\ Length' = Length
    BY <1>5, LagsAfter DEF Length
  <1>7. ~Lags("dequeue")' /\ ~Lags("enqueue")'
    BY <1>1, LagsAfter
  <1>8. NextOut' = head /\ NextIn' = tail /\ UNCHANGED <<head, tail, marker>>
    BY <1>7 DEF NextOut, NextIn, Storing
  <1>9. ASSUME NEW i \in 0 .. QueueLength - 1
        PROVE  q'[(head + i) % QueueLength] \in Items <=> i < Length
    <2>1. (head + i) % QueueLength \in 0 .. QueueLength - 1
      <3>1. head + i \in Nat
        BY StoringFacts DEF Index
      <3> QED
        BY <3>1, IndexFacts
    <2> QED
      BY <1>5, <2>1, StoringFacts
  <1>10. ASSUME NEW i \in 0 .. QueueLength - 1, q'[i] = SIGNAL
         PROVE  FALSE
    <2>1. q[i] = SIGNAL /\ i # Place(e)
      BY <1>1, <1>10, StoringFacts
    <2> QED
      BY <1>3, <2>1 DEF AtomInv, Shape
  <1>11. NextIn' = (NextOut' + Length') % MaxIndex
    BY <1>6, <1>8, StoringFacts
  <1>12. Shape'
    BY <1>3, <1>6, <1>7, <1>8, <1>9, <1>10, <1>11 DEF Shape
  <1> QED
    BY <1>1, <1>3, <1>6, <1>8, <1>10, <1>12, StoringFacts

(* A dequeue takes the oldest item.                                        *)
LEMMA ItemTaken ==
  ASSUME AtomInv, NEW e, Storing(e), e.kind = "dequeue", e.slotReturn \in Items
  PROVE  /\ Shape' /\ Length' = Length - 1 /\ Length > 0 /\ Effect(e) = NULL
         /\ NextOut' = Following(NextOut) /\ Place(e) = NextOut % QueueLength
         /\ \A i \in 0 .. QueueLength - 1 : q'[i] # SIGNAL /\ q[i] # SIGNAL
  <1>1. /\ Effect(e) = NULL /\ SIGNAL \notin Items /\ NULL \notin Items
        /\ e.slotReturn # NULL /\ SIGNAL # NULL
    BY QueueAssumption DEF Effect, Stored
  <1>2. Place(e) = head % QueueLength /\ q[Place(e)] = e.slotReturn /\ head + 0 = head
        /\ Place(e) \in 0 .. QueueLength - 1 /\ head \in Nat
    <2>1. IndexOf(e) = head /\ q[Place(e)] = e.slotReturn
      BY DEF IndexOf, Storing
    <2>2. head \in Nat
      BY StoringFacts DEF Index
    <2> QED
      BY <2>1, <2>2, StoringFacts
  <1>0. /\ \A i, j \in 0 .. QueueLength - 1 :
             (head + i) % QueueLength = (head + j) % QueueLength => i = j
        /\ (head + QueueLength) % QueueLength = head % QueueLength
    BY <1>2, Sizes, Distinct
  <1>3. Length > 0 /\ Length \in 1 .. QueueLength
    <2>1. 0 \in 0 .. QueueLength - 1 /\ Length \in 0 .. QueueLength
      BY StoringFacts, Sizes
    <2>2. 0 < Length
      BY <1>2, <2>1, StoringFacts
    <2> QED
      BY <2>1, <2>2
  <1>4. Filled' = Filled \ {Place(e)} /\ Place(e) \in Filled
    <2>1. \A i \in 0 .. QueueLength - 1 : q'[i] \in Items <=> q[i] \in Items /\ i # Place(e)
      BY <1>1, <1>2, StoringFacts
    <2> QED
      BY <1>2, <2>1, LagsAfter
  <1>5. Length' = Length - 1
    BY <1>4, StoringFacts, FS_RemoveElement DEF Length
  <1>6. Lags("dequeue")' /\ ~Lags("enqueue")'
    BY <1>1, LagsAfter
  <1>7. NextOut' = Following(head) /\ NextIn' = tail /\ UNCHANGED <<head, tail, marker>>
    BY <1>6 DEF NextOut, NextIn, Storing, Following
  <1>8. NextIn' = (NextOut' + Length') % MaxIndex
    <2>1. Length - 1 \in Nat /\ (Length - 1) + 1 = Length
      BY <1>3
    <2>2. (Following(head) + (Length - 1)) % MaxIndex = (head + ((Length - 1) + 1)) % MaxIndex
      BY <2>1, StoringFacts, FollowingFacts
    <2> QED
      BY <1>5, <1>7, <2>1, <2>2, StoringFacts
  <1>9. ASSUME NEW i \in 0 .. QueueLength - 1
        PROVE  q'[(Following(head) + i) % QueueLength] \in Items <=> i < Length - 1
    <2>1. (Following(head) + i) % QueueLength = (head + (i + 1)) % QueueLength
      BY StoringFacts, FollowingFacts
    <2>2. CASE i + 1 < QueueLength
      <3>1. i + 1 \in 0 .. QueueLength - 1 /\ i + 1 # 0 /\ 0 \in 0 .. QueueLength - 1
        BY <2>2, Sizes
      <3>2. (head + (i + 1)) % QueueLength # (head + 0) % QueueLength
        BY <1>0, <3>1
      <3>3. (head + (i + 1)) % QueueLength \in 0 .. QueueLength - 1
        <4>1. head + (i + 1) \in Nat
          BY StoringFacts DEF Index
        <4> QED
          BY <4>1, IndexFacts
      <3>4. q'[(head + (i + 1)) % QueueLength] = q[(head + (i + 1)) % QueueLength]
        BY <1>2, <3>2, <3>3, StoringFacts
      <3>5. q[(head + (i + 1)) % QueueLength] \in Items <=> i + 1 < Length
        BY <3>1, StoringFacts
      <3> QED
        BY <1>3, <2>1, <3>4, <3>5
    <2>3. CASE ~(i + 1 < QueueLength)
      <3>1. i + 1 = QueueLength
        BY <2>3, Sizes
      <3>2. (head + (i + 1)) % QueueLength = Place(e)
        BY <1>0, <1>2, <3>1
      <3>3. q'[Place(e)] = NULL
        BY <1>1, <1>2, StoringFacts
      <3> QED
        BY <1>1, <1>3, <2>1, <3>1, <3>2, <3>3
    <2> QED
      BY <2>2, <2>3
  <1>10. \A i \in 0 .. QueueLength - 1 : q'[i] # SIGNAL /\ q[i] # SIGNAL
    <2>1. \A i \in 0 .. QueueLength - 1 : q[i] # SIGNAL
      BY <1>3 DEF AtomInv, Shape
    <2> QED
      BY <1>1, <2>1, StoringFacts
  <1>11. Shape'
    BY <1>5, <1>7, <1>8, <1>9, <1>10 DEF Shape
  <1> QED
    BY <1>1, <1>2, <1>3, <1>5, <1>7, <1>10, <1>11, StoringFacts

(* An enqueue puts its item after the youngest.                            *)
LEMMA ItemPut ==
  ASSUME AtomInv, NEW e, Storing(e), e.kind = "enqueue", e.slotReturn = NULL
  PROVE  /\ Shape' /\ Length' = Length + 1 /\ Length < QueueLength /\ Effect(e) = e.item
         /\ NextOut' = NextOut /\ Place(e) = (NextOut + Length) % QueueLength
         /\ e.item \in Items
         /\ \A i \in 0 .. QueueLength - 1 : q'[i] # SIGNAL /\ q[i] # SIGNAL
  <1>1. /\ Effect(e) = e.item /\ e.item \in Items /\ SIGNAL \notin Items /\ NULL \notin Items
        /\ SIGNAL # NULL
    BY StoringFacts, QueueAssumption DEF Effect, Stored, Sound
  <1>2. Place(e) = tail % QueueLength /\ q[Place(e)] = NULL
        /\ Place(e) \in 0 .. QueueLength - 1
    BY StoringFacts DEF IndexOf, Storing
  <1>3. Place(e) = (head + Length) % QueueLength /\ Length \in 0 .. QueueLength /\ head \in Nat
    <2>1. Length \in 0 .. MaxIndex
      BY StoringFacts, Sizes
    <2> QED
      BY <1>2, <2>1, StoringFacts, WrapSlot DEF Index
  <1>0. /\ \A i, j \in 0 .. QueueLength - 1 :
             (head + i) % QueueLength = (head + j) % QueueLength => i = j
        /\ (head + QueueLength) % QueueLength = head % QueueLength
    <2>1. head \in Nat /\ QueueLength \in Nat \ {0}
      BY <1>3, Sizes
    <2> QED
      BY <2>1, Distinct
  <1>4. Length < QueueLength
    <2> SUFFICES ASSUME Length = QueueLength
                 PROVE  FALSE
      BY <1>3, Sizes
    <2>1. 0 \in 0 .. QueueLength - 1 /\ 0 < Length /\ head + 0 = head
      BY <1>3, Sizes
    <2>2. Place(e) = (head + 0) % QueueLength
      BY <1>0, <1>3, <2>1
    <2>3. q[Place(e)] \in Items
      BY <2>1, <2>2, StoringFacts
    <2> QED
      BY <1>1, <1>2, <2>3
  <1>5. Filled' = Filled \cup {Place(e)} /\ Place(e) \notin Filled
    <2>1. \A i \in 0 .. QueueLength - 1 : q'[i] \in Items <=> q[i] \in Items \/ i = Place(e)
      BY <1>1, <1>2, StoringFacts
    <2> QED
      BY <1>1, <1>2, <2>1, LagsAfter
  <1>6. Length' = Length + 1
    BY <1>5, StoringFacts, FS_AddElement DEF Length
  <1>7. ~Lags("dequeue")' /\ Lags("enqueue")'
    BY <1>2, LagsAfter
  <1>8. NextOut' = head /\ NextIn' = Following(tail) /\ UNCHANGED <<head, tail, marker>>
    BY <1>7 DEF NextOut, NextIn, Storing, Following
  <1>9. NextIn' = (NextOut' + Length') % MaxIndex
    <2>1. (head + (Length + 1)) % MaxIndex = Following(tail)
      <3>1. Length + 1 \in 0 .. MaxIndex /\ Length \in 0 .. MaxIndex
        BY <1>4, <1>3, Sizes
      <3>2. /\ tail = IF head + Length < MaxIndex THEN head + Length
                      ELSE (head + Length) - MaxIndex
            /\ (head + (Length + 1)) % MaxIndex =
                 IF head + (Length + 1) < MaxIndex THEN head + (Length + 1)
                 ELSE (head + (Length + 1)) - MaxIndex
        BY <3>1, StoringFacts, WrapSlot
      <3>3. Following(tail) = IF tail + 1 < MaxIndex THEN tail + 1 ELSE 0
        BY StoringFacts, FollowingFacts
      <3>4. head < MaxIndex
        BY StoringFacts, Sizes DEF Index
      <3> QED
        BY <1>3, <3>1, <3>2, <3>3, <3>4, Sizes
    <2> QED
      BY <1>6, <1>8, <2>1
  <1>10. ASSUME NEW i \in 0 .. QueueLength - 1
         PROVE  q'[(head + i) % QueueLength] \in Items <=> i < Length + 1
    <2>1. (head + i) % QueueLength \in 0 .. QueueLength - 1
      <3>1. head + i \in Nat
        BY <1>3
      <3> QED
        BY <3>1, IndexFacts
    <2>2. CASE i = Length
      BY <1>1, <1>2, <1>3, <2>2, StoringFacts
    <2>3. CASE i # Length
      <3>1. Length \in 0 .. QueueLength - 1
        BY <1>3, <1>4, Sizes
      <3>2. (head + i) % QueueLength # Place(e)
        BY <1>0, <1>3, <2>3, <3>1
      <3>3. q'[(head + i) % QueueLength] = q[(head + i) % QueueLength]
        BY <2>1, <3>2, StoringFacts
      <3>4. q[(head + i) % QueueLength] \in Items <=> i < Length
        BY StoringFacts
      <3> QED
        BY <1>3, <2>3, <3>3, <3>4
    <2> QED
      BY <2>2, <2>3
  <1>11. \A i \in 0 .. QueueLength - 1 : q'[i] # SIGNAL /\ q[i] # SIGNAL
    <2>1. ASSUME NEW i \in 0 .. QueueLength - 1, q[i] = SIGNAL
          PROVE  FALSE
      <3>1. Length = 0 /\ i = head % QueueLength /\ head + 0 = head
        BY <1>3, <2>1 DEF AtomInv, Shape
      <3>2. i = Place(e)
        BY <1>3, <3>1
      <3> QED
        BY <1>1, <1>2, <2>1, <3>2
    <2> QED
      BY <1>1, <2>1, StoringFacts
  <1>12. Shape'
    BY <1>6, <1>8, <1>9, <1>10, <1>11 DEF Shape
  <1> QED
    BY <1>1, <1>3, <1>4, <1>6, <1>8, <1>11, <1>12, StoringFacts

(* What a level in the loop knows after a step, from what it knew before.  *)
LEMMA LoopsAgain ==
  ASSUME NEW m \in Level, NEW fr, NEW x, NEW i, fr = frame'[m], x = des'[fr.target],
         marker' = marker, i = IF x.kind = "dequeue" THEN head' ELSE tail',
         fr.pc \in Loop \ {"open"} => Changes(x),
         fr.pc = "check" => x.done \/ fr.read \in {x.slotReturn, Effect(x)},
         fr.pc = "act" => fr.read \in {x.slotReturn, Effect(x)},
         fr.pc \in {"check", "act"} /\ fr.read = Effect(x) =>
           x.done \/ q'[Place(x)] = Effect(x),
         fr.pc \in {"linkIndex", "moveIndex"} =>
           Moves(x) /\ (x.done \/ q'[Place(x)] = Effect(x)),
         fr.pc = "mark" =>
           \/ x.done
           \/ q'[Place(x)] = Effect(x) /\ (Moves(x) => x.index # i)
  PROVE  Loops(frame[m], des[frame[m].target])'
  BY DEF Loops, Changes, Effect, Stored, Place, Moves, IndexOf

(* An item that is taken out was in one slot only, and one that is put in  *)
(* was in none.                                                            *)
LEMMA StoringUnique ==
  ASSUME AtomInv, NEW e, Storing(e)
  PROVE  /\ \A i, j \in 0 .. QueueLength - 1 : q'[i] = q'[j] /\ q'[i] \in Items => i = j
         /\ e.kind = "dequeue" /\ Moves(e) => e.slotReturn \notin Waiting'
         /\ Waiting' \subseteq Waiting \cup {e.item}
         /\ e.kind = "dequeue" => Waiting' \subseteq Waiting
         /\ ~Taken(e)
  <1>1. /\ pending \in Level /\ e = des[pending] /\ Known(e) /\ Changes(e) /\ ~e.done
        /\ Place(e) \in 0 .. QueueLength - 1 /\ Effect(e) # e.slotReturn
        /\ q[Place(e)] = e.slotReturn /\ e.kind \in {"enqueue", "dequeue"}
        /\ \A i \in 0 .. QueueLength - 1 : q'[i] = IF i = Place(e) THEN Effect(e) ELSE q[i]
    <2>1. e = des[pending] /\ Known(e) /\ Changes(e) /\ ~e.done /\ q[Place(e)] = e.slotReturn
      BY DEF Storing
    <2> QED
      BY <2>1, StoringFacts
  <1>2. DOMAIN q = 0 .. QueueLength - 1 /\ DOMAIN q' = 0 .. QueueLength - 1
    BY Types DEF Storing, AtomInv, FIFOInv
  <1>3. ~Taken(e)
    BY <1>1 DEF Taken, Closed
  <1>4. Effect(e) \in Items => e.kind = "enqueue" /\ Effect(e) = e.item
    BY <1>1, QueueAssumption DEF Effect, Stored
  <1>5. e.kind = "enqueue" => e.item \notin Waiting
    BY <1>1, <1>3 DEF AtomInv, Unique
  <1>6. \A i \in 0 .. QueueLength - 1 : q[i] \in Items => q[i] \in Waiting
    BY <1>2 DEF Waiting
  <1>7. \A i, j \in 0 .. QueueLength - 1 : q[i] = q[j] /\ q[i] \in Items => i = j
    BY DEF AtomInv, Unique
  <1>8. ASSUME NEW i \in 0 .. QueueLength - 1, NEW j \in 0 .. QueueLength - 1,
               q'[i] = q'[j], q'[i] \in Items
        PROVE  i = j
    BY <1>1, <1>4, <1>5, <1>6, <1>7, <1>8
  <1>9. Waiting' = {x \in Items : \E i \in 0 .. QueueLength - 1 : q'[i] = x}
    BY <1>2 DEF Waiting
  <1>10. Waiting' \subseteq Waiting \cup {e.item} /\ (e.kind = "dequeue" => Waiting' \subseteq Waiting)
    BY <1>1, <1>4, <1>6, <1>9
  <1>11. ASSUME e.kind = "dequeue", Moves(e)
         PROVE  e.slotReturn \notin Waiting'
    <2>1. e.slotReturn \in Items
      BY <1>11, LagsAfter
    <2>2. \A i \in 0 .. QueueLength - 1 : q'[i] # e.slotReturn
      BY <1>1, <1>7, <2>1
    <2> QED
      BY <1>9, <2>2
  <1> QED
    BY <1>3, <1>8, <1>10, <1>11

LEMMA ActStoreAtom ==
  ASSUME AtomInv, NEW l \in Level, Act(l), Stores(d(l), frame[l].read), reserved
  PROVE  /\ AtomInv' /\ Storing(d(l)) /\ frame[l].target = pending
         /\ \A m \in Level : m # pending => (Taken(des[m])' <=> Taken(des[m]))
         /\ ~Taken(des[pending]) /\ Taken(des[pending])'
  <1> DEFINE fr == [frame[l] EXCEPT !.pc = Settled(l), !.read = NULL]
             e == d(l)
  <1>1. At(l, "act") /\ {"linkIndex", "mark", "act"} \subseteq Loop
    BY DEF Act, Loop
  <1>2. /\ frame[l].pc = "act" /\ Running(l) /\ Known(e) /\ Changes(e)
        /\ slotOf(l) = Place(e) /\ e.kind \in {"enqueue", "dequeue"}
        /\ Loops(frame[l], e) /\ Reserves(frame[l], e)
        /\ ~Closed(e) => frame[l].target = pending /\ frame[l].target # NULL
        /\ Effect(e) # e.slotReturn /\ ~Stores(e, Effect(e))
        /\ Advances(e, e.slotReturn) <=> Moves(e)
    BY <1>1, LoopFacts
  <1>3. frame[l].read = e.slotReturn /\ q[Place(e)] = e.slotReturn /\ ~e.done
    BY <1>2 DEF Loops, Reserves
  <1>4. frame[l].target = pending /\ pending # NULL /\ e = des[pending] /\ ~Closed(e)
    BY <1>2, <1>3 DEF Closed, d
  <1>5. e.index = IndexOf(e)
    BY <1>2, <1>3, <1>4 DEF AtomInv, Opened, Stage
  <1>6. /\ UNCHANGED <<marker, head, tail, pending, des, calls>> /\ reserved' = FALSE
        /\ q' = [q EXCEPT ![Place(e)] = Stored(e, frame[l].read)]
        /\ frame' = [frame EXCEPT ![l].pc = Settled(l), ![l].read = NULL]
    BY <1>2 DEF Act
  <1>7. Storing(e)
    BY <1>2, <1>3, <1>4, <1>5, <1>6 DEF Storing, Effect
  <1>8. FIFOInv'
    BY ActStep DEF AtomInv
  <1>9. /\ frame' = [frame EXCEPT ![l] = fr] /\ fr.target = frame[l].target
        /\ fr.pc = IF Moves(e) THEN "linkIndex" ELSE "mark"
    <2>1. frame \in [Level -> Frames]
      BY Types DEF AtomInv, FIFOInv
    <2> QED
      BY <1>2, <1>3, <1>6, <2>1 DEF Frames, Settled
  <1> HIDE DEF fr, e
  <1>10. /\ Nested' /\ Ordered'
         /\ \A m \in Level : frame'[m] = IF m = l THEN fr ELSE frame[m]
         /\ \A m \in Level : (Active(m)' <=> Active(m)) /\ (Running(m)' => m = l)
    BY <1>2, <1>6, <1>9, GoingOn
  <1>11. /\ pending \in Level /\ Place(e) \in 0 .. QueueLength - 1
         /\ \A i \in 0 .. QueueLength - 1 : q'[i] = IF i = Place(e) THEN Effect(e) ELSE q[i]
    BY <1>7, StoringFacts
  <1>12. q'[Place(e)] = Effect(e)
    BY <1>11
  <1>13. \A m \in Level : frame'[m].target = frame[m].target /\ (frame[m].target # NULL =>
                            frame[m].target \in Level)
    BY <1>9, <1>10, TargetFacts
  <1>14. Finished'
    <2> SUFFICES ASSUME NEW m \in Level, frame'[m].target # NULL,
                        \/ frame'[m].target # pending
                        \/ frame'[m].pc \in {"post", "withdraw", "return"}
                 PROVE  Closed(des[frame[m].target])'
      BY <1>6 DEF Finished
    <2>1. Closed(des[frame[m].target])
      BY <1>9, <1>10, <1>13 DEF AtomInv, Finished
    <2> QED
      BY <1>6, <1>13, <2>1 DEF Closed, Known, Changes
  <1>15. Described'
    BY <1>6, <1>10, <1>13 DEF AtomInv, Described, Sound, InOrder, Known, Changes, Descriptor
  <1>16. Confirmed'
    <2> SUFFICES ASSUME NEW m \in Level, frame'[m].target # NULL
                 PROVE  Confirms(frame[m], des[frame[m].target])'
      BY DEF Confirmed
    <2>1. Confirms(frame'[m], des[frame[m].target])
      BY <1>9, <1>10, <1>13 DEF AtomInv, Confirmed, Confirms
    <2> QED
      BY <1>6, <1>13, <2>1 DEF Confirms
  <1>0. Known(e) /\ e.index # UNREAD
    BY <1>4, <1>2, <1>11, KnownFacts, Constants
  <1>17. Opened'
    <2>1. Opens(des[pending])'
      BY <1>0, <1>4, <1>6 DEF Opens, Known
    <2>2. ASSUME NEW m \in Level
          PROVE  Reads(frame[m], des[pending])'
      BY <1>0, <1>4, <1>6 DEF Reads, Known
    <2>3. Stage(des[pending])'
      BY <1>4, <1>5, <1>6, <1>12 DEF Stage, Place, Effect, Stored, IndexOf
    <2>4. (des[pending].kind = "dequeue" /\ Moves(des[pending]) =>
             des[pending].slotReturn \notin Waiting)'
      BY <1>4, <1>6, <1>7, StoringUnique DEF Moves
    <2> QED
      BY <2>1, <2>2, <2>3, <2>4 DEF Opened
  <1>18. Looped'
    <2> SUFFICES ASSUME NEW m \in Level, frame'[m].target # NULL
                 PROVE  Loops(frame[m], des[frame[m].target])'
      BY DEF Looped
    <2> DEFINE x == des[frame[m].target]
    <2>1. frame[m].target \in Level /\ Loops(frame[m], x)
      BY <1>13 DEF AtomInv, Looped
    <2>2. CASE m = l
      <3>1. /\ frame'[m].pc = IF Moves(e) THEN "linkIndex" ELSE "mark"
            /\ des'[frame'[m].target] = e
        BY <1>4, <1>6, <1>9, <1>10, <2>2
      <3> QED
        <4>1. frame'[m].pc \in {"linkIndex", "mark"} /\ (frame'[m].pc = "linkIndex" <=> Moves(e))
          BY <3>1
        <4>2. frame'[m].pc \notin {"check", "act", "moveIndex"}
          BY <4>1
        <4> QED
          BY <1>2, <1>6, <1>12, <3>1, <4>1, <4>2, LoopsAgain
    <2>3. CASE m # l /\ frame[m].target = pending
      <3>1. x = e /\ frame'[m] = frame[m] /\ des'[frame'[m].target] = e
        BY <1>4, <1>6, <1>10, <2>3
      <3>2. frame[m].pc # "mark"
        BY <1>2, <1>3, <2>1, <3>1 DEF Loops
      <3>3. /\ frame[m].pc \in Loop \ {"open"} => Changes(e)
            /\ frame[m].pc = "check" => e.done \/ frame[m].read \in {e.slotReturn, Effect(e)}
            /\ frame[m].pc = "act" => frame[m].read \in {e.slotReturn, Effect(e)}
            /\ frame[m].pc \in {"linkIndex", "moveIndex"} => Moves(e)
        BY <2>1, <3>1 DEF Loops
      <3> QED
        BY <1>6, <1>12, <3>1, <3>2, <3>3, LoopsAgain
    <2>4. CASE m # l /\ frame[m].target # pending
      <3>1. Closed(x) /\ frame'[m] = frame[m] /\ x = des'[frame'[m].target]
        BY <1>6, <1>10, <1>13, <2>4 DEF AtomInv, Finished
      <3>2. frame[m].pc \in Loop \ {"open"} => x.done /\ Changes(x)
        BY <2>1, <3>1 DEF Loops, Closed
      <3>3. /\ frame[m].pc = "act" => frame[m].read \in {x.slotReturn, Effect(x)}
            /\ frame[m].pc \in {"linkIndex", "moveIndex"} => Moves(x)
        BY <2>1 DEF Loops
      <3> HIDE DEF x
      <3> QED
        BY <1>6, <3>1, <3>2, <3>3, LoopsAgain DEF Loop
    <2> QED
      BY <2>2, <2>3, <2>4
  <1>19. Reserved'
    BY <1>6 DEF Reserved
  <1>20. Counted'
    <2>1. Unmoved' = Unmoved
      BY <1>6, <1>10 DEF Unmoved, Moved, Known, Changes, Moves, IndexOf
    <2> QED
      BY <1>6, <2>1 DEF AtomInv, Counted, Ahead, Moved, Known, Changes, Moves, IndexOf
  <1>21. Shape'
    <2>1. e.kind = "dequeue" => e.slotReturn = NULL \/ e.slotReturn \in Items
      BY <1>2, <1>7, StoringFacts DEF Sound, Slots
    <2>2. e.kind = "enqueue" => e.slotReturn \in {NULL, SIGNAL}
      BY <1>2 DEF Changes
    <2> QED
      BY <1>2, <1>7, <2>1, <2>2, SignalLeft, SignalTaken, ItemTaken, ItemPut
  <1>22. ASSUME NEW m \in Level, m # pending
         PROVE  Taken(des[m])' <=> Taken(des[m])
    <2>1. Known(des[m]) => Closed(des[m])
      BY <1>22, KnownFacts
    <2> QED
      BY <1>6, <2>1 DEF Taken, Closed, Known, Changes
  <1>23. ~Taken(des[pending])
    BY <1>4, <1>7, StoringUnique
  <1>24. ASSUME NEW m \in Level, m = pending
         PROVE  Taken(des[m])'
    BY <1>24, <1>2, <1>4, <1>6, <1>12 DEF Taken, Known, Place, Effect, Stored
  <1>25. Unique'
    <2>1. ASSUME NEW m \in Level, des[m].kind = "enqueue", ~Taken(des[m])'
          PROVE  des[m].item \notin Waiting'
      <3>1. m # pending /\ ~Taken(des[m])
        BY <1>22, <1>24, <2>1
      <3>2. des[m].item \notin Waiting
        BY <2>1, <3>1 DEF AtomInv, Unique
      <3>3. e.kind = "enqueue" => des[m].item # e.item
        BY <1>4, <1>11, <2>1, <3>1 DEF AtomInv, Unique
      <3> QED
        BY <1>2, <1>7, <3>2, <3>3, StoringUnique
    <2>2. \A i, j \in 0 .. QueueLength - 1 : q'[i] = q'[j] /\ q'[i] \in Items => i = j
      BY <1>7, StoringUnique
    <2>3. \A m, n \in Level : /\ des[m].kind = "enqueue" /\ des[n].kind = "enqueue"
                              /\ des[m].item = des[n].item
                              => m = n
      BY DEF AtomInv, Unique
    <2> QED
      BY <1>6, <2>1, <2>2, <2>3 DEF Unique
  <1>26. AtomInv'
    BY <1>8, <1>10, <1>14, <1>15, <1>16, <1>17, <1>18, <1>19, <1>20, <1>21, <1>25
       DEF AtomInv
  <1>27. Taken(des[pending])'
    BY <1>6, <1>11, <1>24
  <1> QED
    BY <1>4, <1>7, <1>22, <1>23, <1>26, <1>27 DEF e

-----------------------------------------------------------------------------
(***************************************************************************)
(* Head or Tail follows the operation.                                     *)
(***************************************************************************)

(* How far index i is ahead of x.                                          *)
Distance(i, x) == IF i >= x THEN i - x ELSE MaxIndex - (x - i)

LEMMA DistanceFacts ==
  ASSUME NEW i \in Index, NEW x \in Index
  PROVE  /\ Distance(i, x) \in 0 .. MaxIndex - 1 /\ (Distance(i, x) = 0 <=> i = x)
         /\ Distance(i, x) + 1 < MaxIndex => Distance(Following(i), x) = Distance(i, x) + 1
  <1>1. i \in 0 .. MaxIndex - 1 /\ x \in 0 .. MaxIndex - 1
    BY DEF Index
  <1>2. Following(i) = IF i + 1 < MaxIndex THEN i + 1 ELSE 0
    BY FollowingFacts
  <1> QED
    BY <1>1, <1>2, Sizes DEF Distance

LEMMA UnmovedFacts ==
  /\ Unmoved \in SUBSET Level /\ IsFiniteSet(Unmoved) /\ Cardinality(Unmoved) \in Nat
  <1>1. IsFiniteSet(Level)
    BY Constants, FS_Interval DEF Level
  <1>2. Unmoved \in SUBSET Level
    BY DEF Unmoved
  <1> QED
    BY <1>1, <1>2, FS_Subset, FS_CardinalityType

(* The posted operation has had its effect and Head or Tail is to follow.  *)
Moving(e) ==
  /\ pending # NULL /\ e = des[pending]
  /\ Known(e) /\ Changes(e) /\ Moves(e) /\ ~e.done
  /\ e.index = IndexOf(e) /\ q[Place(e)] = Effect(e)
  /\ head' = IF e.kind = "dequeue" THEN Following(head) ELSE head
  /\ tail' = IF e.kind = "enqueue" THEN Following(tail) ELSE tail
  /\ UNCHANGED <<marker, q, pending, des, calls>>

LEMMA MovingFacts ==
  ASSUME AtomInv, NEW e, Moving(e)
  PROVE  /\ pending \in Level /\ e \in Descriptors /\ Active(pending)
         /\ e.kind \in {"enqueue", "dequeue"} /\ Lags(e.kind)
         /\ e.index \in Index /\ head \in Index /\ tail \in Index
         /\ e.index # IF e.kind = "dequeue" THEN head' ELSE tail'
         /\ \A k : ~Lags(k)'
  <1>1. pending \in Level /\ e = des[pending] /\ Known(e) /\ Active(pending)
    BY PostedFacts DEF Moving
  <1>2. e \in Descriptors /\ e.kind \in {"enqueue", "dequeue"} /\ e.index \in Index
    BY <1>1, KnownFacts
  <1>3. Lags(e.kind)
    BY <1>1 DEF Moving, Lags
  <1>4. head \in Index /\ tail \in Index
    BY Types DEF AtomInv, FIFOInv
  <1>5. IF e.kind = "dequeue" THEN head' = Following(e.index) ELSE tail' = Following(e.index)
    BY <1>2 DEF Moving, IndexOf
  <1>6. e.index # Following(e.index)
    BY <1>2, FollowingFacts, Sizes
  <1>7. e.index # IF e.kind = "dequeue" THEN head' ELSE tail'
    BY <1>5, <1>6
  <1>8. \A k : ~Lags(k)'
    BY <1>1, <1>7 DEF Moving, Lags, IndexOf
  <1> QED
    BY <1>1, <1>2, <1>3, <1>4, <1>7, <1>8

(* The items stay where they are, and the queue between them.              *)
LEMMA MovingShape ==
  ASSUME AtomInv, NEW e, Moving(e)
  PROVE  Shape' /\ NextOut' = NextOut /\ NextIn' = NextIn /\ Length' = Length
  <1>1. /\ e.kind \in {"enqueue", "dequeue"} /\ Lags(e.kind) /\ \A k : ~Lags(k)'
    BY MovingFacts
  <1>2. Lags("dequeue") <=> e.kind = "dequeue"
    BY <1>1 DEF Lags
  <1>3. Lags("enqueue") <=> e.kind = "enqueue"
    BY <1>1 DEF Lags
  <1>4. /\ head' = IF e.kind = "dequeue" THEN Following(head) ELSE head
        /\ tail' = IF e.kind = "enqueue" THEN Following(tail) ELSE tail
        /\ q' = q /\ marker' = marker
    BY DEF Moving
  <1>5. NextOut' = head' /\ NextIn' = tail'
    BY <1>1 DEF NextOut, NextIn
  <1>6. NextOut' = NextOut /\ NextIn' = NextIn
    BY <1>2, <1>3, <1>4, <1>5 DEF NextOut, NextIn
  <1>7. Length' = Length
    BY <1>4 DEF Length, Filled
  <1>8. \A i \in 0 .. QueueLength - 1 : q[i] # SIGNAL
    BY <1>1, <1>2, <1>3 DEF AtomInv, Shape
  <1> QED
    BY <1>4, <1>6, <1>7, <1>8 DEF AtomInv, Shape

(* Whoever Head or Tail was moved for is one step further behind them.     *)
LEMMA MovingCount ==
  ASSUME AtomInv, NEW e, Moving(e), \A m \in Level : Active(m)' <=> Active(m)
  PROVE  Counted'
  <1> DEFINE C == Cardinality(Unmoved)
             at(x) == IF x.kind = "dequeue" THEN head' ELSE tail'
  <1>1. /\ pending \in Level /\ e = des[pending] /\ Active(pending) /\ e \in Descriptors
        /\ e.kind \in {"enqueue", "dequeue"} /\ e.index \in Index
        /\ head \in Index /\ tail \in Index /\ e.index # at(e)
        /\ Known(e) /\ Changes(e) /\ Moves(e) /\ e.index = IndexOf(e)
    BY MovingFacts DEF Moving
  <1>2. /\ calls' = calls /\ calls \in 0 .. MaxCalls /\ marker' = marker /\ des' = des
    BY Types DEF Moving, AtomInv, FIFOInv
  <1>3. ASSUME NEW m \in Level
        PROVE  /\ Moved(des[m])' <=> /\ Known(des[m]) /\ Changes(des[m]) /\ Moves(des[m])
                                     /\ des[m].index # at(des[m])
               /\ Ahead(des[m])' = Distance(at(des[m]), des[m].index)
               /\ Ahead(des[m]) = Distance(IndexOf(des[m]), des[m].index)
    BY <1>2 DEF Moved, Known, Changes, Moves, IndexOf, Ahead, Distance
  <1>4. C \in Nat /\ IsFiniteSet(Unmoved) /\ C <= calls
    BY UnmovedFacts DEF AtomInv, Counted
  <1>5. pending \in Unmoved
    BY <1>1 DEF Unmoved, Moved
  <1>6. ASSUME NEW m \in Level, Known(des[m]), Changes(des[m]), Moves(des[m]), m # pending
        PROVE  /\ Moved(des[m]) /\ des[m].index # at(des[m])
               /\ Distance(at(des[m]), des[m].index) + C <= calls + 1
    <2>1. des[m].done /\ des[m].index \in Index /\ des[m].kind \in {"enqueue", "dequeue"}
      BY <1>6, KnownFacts DEF Closed
    <2>2. Moved(des[m]) /\ Ahead(des[m]) + C <= calls
      BY <1>6, <2>1 DEF AtomInv, Counted, Moved
    <2> DEFINE D == Distance(IndexOf(des[m]), des[m].index)
    <2>3. IndexOf(des[m]) \in Index /\ IndexOf(des[m]) # des[m].index
      BY <1>1, <2>2 DEF IndexOf, Moved
    <2>4. /\ D \in 0 .. MaxIndex - 1 /\ D # 0
          /\ D + 1 < MaxIndex => Distance(Following(IndexOf(des[m])), des[m].index) = D + 1
      BY <2>1, <2>3, DistanceFacts
    <2>5. D + C <= calls
      BY <1>3, <2>2
    <2> HIDE DEF D, C
    <2>6. D + 1 < MaxIndex
      BY <1>2, <1>4, <2>4, <2>5, Sizes
    <2>7. at(des[m]) = IndexOf(des[m]) \/ at(des[m]) = Following(IndexOf(des[m]))
      BY <2>1 DEF Moving, IndexOf
    <2>8. Distance(at(des[m]), des[m].index) \in {D, D + 1} /\ at(des[m]) \in Index
      BY <2>3, <2>4, <2>6, <2>7, FollowingFacts DEF D
    <2>9. Distance(at(des[m]), des[m].index) # 0
      BY <2>4, <2>8
    <2>10. des[m].index # at(des[m])
      BY <2>1, <2>8, <2>9, DistanceFacts
    <2>11. Distance(at(des[m]), des[m].index) + C <= calls + 1
      BY <1>2, <1>4, <2>4, <2>5, <2>8
    <2> QED
      BY <2>2, <2>10, <2>11
  <1>7. Unmoved' = Unmoved \ {pending}
    <2>1. ASSUME NEW m \in Level, m # pending
          PROVE  Moved(des[m])' <=> Moved(des[m])
      BY <1>3, <1>6, <2>1 DEF Moved
    <2>2. ASSUME NEW m \in Level, m = pending
          PROVE  Moved(des[m])'
      BY <1>1, <1>3, <2>2
    <2>3. \A m \in Level : m \in Unmoved' <=> m \in Unmoved /\ m # pending
      BY <2>1, <2>2 DEF Unmoved
    <2>4. Unmoved' \subseteq Level /\ Unmoved \subseteq Level
      BY DEF Unmoved
    <2> QED
      BY <2>3, <2>4
  <1>8. Cardinality(Unmoved') = C - 1
    BY <1>4, <1>5, <1>7, FS_RemoveElement
  <1>9. ASSUME NEW m \in Level, m = pending
        PROVE  Distance(at(des[m]), des[m].index) = 1
    <2>1. at(e) = Following(e.index)
      BY <1>1 DEF Moving, IndexOf
    <2>2. Distance(e.index, e.index) = 0
      BY <1>1, DistanceFacts
    <2>3. Distance(Following(e.index), e.index) = 1
      BY <1>1, <2>2, DistanceFacts, Sizes
    <2> QED
      BY <1>1, <1>9, <2>1, <2>3
  <1> HIDE DEF C, at
  <1>10. ASSUME NEW m \in Level, Moved(des[m])'
         PROVE  Ahead(des[m])' + Cardinality(Unmoved') <= calls'
    <2>1. Known(des[m]) /\ Changes(des[m]) /\ Moves(des[m])
      BY <1>3, <1>10
    <2>2. Distance(at(des[m]), des[m].index) + C <= calls + 1
            /\ Distance(at(des[m]), des[m].index) \in Int
      <3>1. CASE m = pending
        BY <1>2, <1>4, <1>9, <3>1
      <3>2. CASE m # pending
        <4>1. Distance(at(des[m]), des[m].index) \in Int
          <5>1. des[m].index \in Index /\ at(des[m]) \in Index
            <6>1. des[m].index \in Index
              BY <2>1, KnownFacts
            <6>2. head' \in Index /\ tail' \in Index
              BY <1>1, FollowingFacts DEF Moving
            <6> QED
              BY <6>1, <6>2 DEF at
          <5> QED
            BY <5>1, DistanceFacts
        <4> QED
          BY <1>6, <2>1, <3>2, <4>1
      <3> QED
        BY <3>1, <3>2
    <2> QED
      BY <1>2, <1>3, <1>4, <1>8, <2>2
  <1>11. ASSUME NEW m \in Level, Known(des[m]), Changes(des[m]), Moves(des[m])
         PROVE  des[m].index # at(des[m])
    BY <1>1, <1>6, <1>11
  <1>12. \A m \in Level : (Known(des[m]) /\ des[m].done /\ Changes(des[m]) /\ Moves(des[m]) =>
                            des[m].index # IndexOf(des[m]))'
    BY <1>2, <1>11 DEF Known, Changes, Moves, IndexOf, at
  <1>13. (Cardinality(Unmoved) <= calls)'
    BY <1>2, <1>4, <1>8
  <1> QED
    BY <1>10, <1>12, <1>13 DEF Counted

LEMMA MoveIndexMoves ==
  ASSUME AtomInv, NEW l \in Level, MoveIndex(l), reserved
  PROVE  AtomInv' /\ Stutter
  <1> DEFINE fr == [frame[l] EXCEPT !.pc = "mark"]
             e == d(l)
  <1>1. At(l, "moveIndex") /\ {"moveIndex", "mark"} \subseteq Loop
    BY DEF MoveIndex, Loop
  <1>2. /\ frame[l].pc = "moveIndex" /\ Running(l) /\ Known(e) /\ Changes(e)
        /\ e.kind \in {"enqueue", "dequeue"} /\ e.index \in Index
        /\ Loops(frame[l], e) /\ Reserves(frame[l], e)
        /\ ~Closed(e) => frame[l].target = pending /\ frame[l].target # NULL
        /\ frame[l].target \in Level
    BY <1>1, LoopFacts
  <1>3. Moves(e) /\ e.index = IndexOf(e)
    BY <1>2 DEF Loops, Reserves
  <1>4. ~e.done /\ ~Closed(e)
    <2>1. ~e.done
      BY <1>2, <1>3 DEF AtomInv, Counted, d
    <2> QED
      BY <1>2, <2>1 DEF Closed
  <1>5. frame[l].target = pending /\ pending # NULL /\ e = des[pending]
    BY <1>2, <1>4 DEF d
  <1>6. q[Place(e)] = Effect(e)
    BY <1>2, <1>4 DEF Loops
  <1>7. /\ UNCHANGED <<marker, q, pending, des, calls>> /\ reserved' = FALSE
        /\ frame' = [frame EXCEPT ![l].pc = "mark"]
        /\ head' = (IF e.kind = "dequeue" THEN (e.index + 1) % MaxIndex ELSE head)
        /\ tail' = (IF e.kind = "enqueue" THEN (e.index + 1) % MaxIndex ELSE tail)
    BY DEF MoveIndex, Goto
  <1>8. Moving(e)
    BY <1>2, <1>3, <1>4, <1>5, <1>6, <1>7 DEF Moving, Following, IndexOf
  <1>9. FIFOInv'
    BY MoveIndexStep DEF AtomInv
  <1>10. frame' = [frame EXCEPT ![l] = fr] /\ fr.target = frame[l].target /\ fr.pc = "mark"
    <2>1. frame \in [Level -> Frames]
      BY Types DEF AtomInv, FIFOInv
    <2> QED
      BY <1>7, <2>1 DEF Frames
  <1> HIDE DEF fr, e
  <1>11. /\ Nested' /\ Ordered'
         /\ \A m \in Level : frame'[m] = IF m = l THEN fr ELSE frame[m]
         /\ \A m \in Level : (Active(m)' <=> Active(m)) /\ (Running(m)' => m = l)
    BY <1>2, <1>7, <1>10, GoingOn
  <1>12. \A m \in Level : frame'[m].target = frame[m].target /\ (frame[m].target # NULL =>
                            frame[m].target \in Level)
    BY <1>10, <1>11, TargetFacts
  <1>13. Finished'
    <2> SUFFICES ASSUME NEW m \in Level, frame'[m].target # NULL,
                        \/ frame'[m].target # pending
                        \/ frame'[m].pc \in {"post", "withdraw", "return"}
                 PROVE  Closed(des[frame[m].target])'
      BY <1>7 DEF Finished
    <2>1. Closed(des[frame[m].target])
      BY <1>10, <1>11, <1>12 DEF AtomInv, Finished
    <2> QED
      BY <1>7, <1>12, <2>1 DEF Closed, Known, Changes
  <1>14. Described'
    BY <1>7, <1>11, <1>12 DEF AtomInv, Described, Sound, InOrder, Known, Changes, Descriptor
  <1>15. Confirmed'
    <2> SUFFICES ASSUME NEW m \in Level, frame'[m].target # NULL
                 PROVE  Confirms(frame[m], des[frame[m].target])'
      BY DEF Confirmed
    <2>1. Confirms(frame'[m], des[frame[m].target])
      BY <1>10, <1>11, <1>12 DEF AtomInv, Confirmed, Confirms
    <2> QED
      BY <1>7, <1>12, <2>1 DEF Confirms
  <1>16. Known(e) /\ e.index # UNREAD
    BY <1>2, Constants
  <1>17. Opened'
    <2>1. Opens(des[pending])'
      BY <1>5, <1>7, <1>16 DEF Opens, Known
    <2>2. ASSUME NEW m \in Level
          PROVE  Reads(frame[m], des[pending])'
      BY <1>5, <1>7, <1>16 DEF Reads, Known
    <2>3. Stage(des[pending])'
      <3>1. e.kind = "dequeue" => head' = Following(e.index)
        BY <1>7 DEF Following
      <3>2. e.kind = "enqueue" => tail' = Following(e.index)
        BY <1>7 DEF Following
      <3> QED
        BY <1>2, <1>3, <1>5, <1>6, <1>7, <3>1, <3>2
           DEF Stage, Place, Effect, Stored, IndexOf, Moves, Following
    <2>4. (des[pending].kind = "dequeue" /\ Moves(des[pending]) =>
             des[pending].slotReturn \notin Waiting)'
      <3>1. e.kind = "dequeue" => e.slotReturn \notin Waiting
        BY <1>2, <1>3, <1>4, <1>5, <1>6 DEF AtomInv, Opened
      <3> QED
        BY <1>5, <1>7, <3>1 DEF Waiting
    <2> QED
      BY <2>1, <2>2, <2>3, <2>4 DEF Opened
  <1>18. Looped'
    <2> SUFFICES ASSUME NEW m \in Level, frame'[m].target # NULL
                 PROVE  Loops(frame[m], des[frame[m].target])'
      BY DEF Looped
    <2> DEFINE x == des[frame[m].target]
    <2>1. frame[m].target \in Level /\ Loops(frame[m], x)
      BY <1>12 DEF AtomInv, Looped
    <2>2. CASE frame[m].target = pending
      <3>1. x = e /\ des'[frame'[m].target] = e /\ (m = l => frame'[m].pc = "mark")
            /\ (m # l => frame'[m] = frame[m])
        BY <1>5, <1>7, <1>10, <1>11, <1>12, <2>2
      <3>2. /\ frame'[m].pc \in Loop \ {"open"} => Changes(e)
            /\ frame'[m].pc = "check" => e.done \/ frame'[m].read \in {e.slotReturn, Effect(e)}
            /\ frame'[m].pc = "act" => frame'[m].read \in {e.slotReturn, Effect(e)}
        BY <1>2, <2>1, <3>1 DEF Loops
      <3>3. e.index # IF e.kind = "dequeue" THEN head' ELSE tail'
        BY <1>8, MovingFacts
      <3>4. q'[Place(e)] = Effect(e)
        BY <1>6, <1>7
      <3> QED
        BY <1>3, <1>7, <3>1, <3>2, <3>3, <3>4, LoopsAgain
    <2>3. CASE frame[m].target # pending
      <3>1. Closed(x) /\ frame'[m] = frame[m] /\ x = des'[frame'[m].target]
        BY <1>5, <1>7, <1>11, <1>12, <2>3 DEF AtomInv, Finished
      <3>2. frame[m].pc \in Loop \ {"open"} => x.done /\ Changes(x)
        BY <2>1, <3>1 DEF Loops, Closed
      <3>3. /\ frame[m].pc = "act" => frame[m].read \in {x.slotReturn, Effect(x)}
            /\ frame[m].pc \in {"linkIndex", "moveIndex"} => Moves(x)
        BY <2>1 DEF Loops
      <3> HIDE DEF x
      <3> QED
        BY <1>7, <3>1, <3>2, <3>3, LoopsAgain DEF Loop
    <2> QED
      BY <2>2, <2>3
  <1>19. Reserved'
    BY <1>7 DEF Reserved
  <1>20. Counted' /\ Shape' /\ NextOut' = NextOut /\ Length' = Length
    BY <1>8, <1>11, MovingCount, MovingShape
  <1>21. \A m \in Level : Taken(des[m])' <=> Taken(des[m])
    BY <1>7 DEF Taken, Known, Closed, Changes, Place, Effect, Stored
  <1>22. Unique'
    <2>1. Waiting' = Waiting
      BY <1>7 DEF Waiting
    <2> QED
      BY <1>7, <1>21, <2>1 DEF AtomInv, Unique
  <1>23. AtomInv'
    BY <1>9, <1>11, <1>13, <1>14, <1>15, <1>17, <1>18, <1>19, <1>20, <1>22 DEF AtomInv
  <1>24. UNCHANGED Calls
    BY <1>7, <1>21, <1>23, CallsStay
  <1>25. Contents' = Contents
    <2>1. Contents = [i \in 1 .. Length |-> q[(NextOut + (i - 1)) % QueueLength]]
      BY ContentsAre
    <2>2. (Contents = [i \in 1 .. Length |-> q[(NextOut + (i - 1)) % QueueLength]])'
      BY <1>23, ContentsStay
    <2> QED
      BY <1>7, <1>20, <2>1, <2>2
  <1> QED
    BY <1>7, <1>23, <1>24, <1>25 DEF Stutter, Signalled

-----------------------------------------------------------------------------
(***************************************************************************)
(* The beginning and the end of an operation.                              *)
(***************************************************************************)

(* Level l, above which none is active, begins, posts, withdraws or leaves *)
(* its operation; fr becomes its frame and e2 its descriptor.              *)
LEMMA EdgeStep ==
  ASSUME AtomInv, FIFOInv', NEW l \in Level, NEW fr, NEW e2 \in Descriptors,
         \A m \in Level : m > l => ~Active(m),
         frame' = [frame EXCEPT ![l] = fr], des' = [des EXCEPT ![l] = e2],
         UNCHANGED <<marker, q, head, tail>>,
         fr.pc \in {"idle", "begin", "test", "return"},
         fr.target = IF fr.pc \in {"test", "return"} THEN l ELSE NULL,
         fr.pc = "return" => Closed(e2),
         fr.pc = "idle" => reserved' = FALSE,
         Sound(e2), e2.kind = "none" <=> fr.pc = "idle",
         fr.pc \in {"idle", "begin"} => e2 = Descriptor(e2.kind, e2.item),
         \/ /\ pending' = pending /\ pending # l /\ fr.pc # "test"
            /\ pending # NULL => fr.pc = "begin"
         \/ /\ pending' = IF fr.pc = "test" THEN l ELSE NULL
            /\ fr.pc = "test" => e2 = Descriptor(e2.kind, e2.item)
            /\ \A m \in Level : frame[m].target # NULL => Closed(des[frame[m].target]),
         e2.kind = "enqueue" =>
           \/ e2 = des[l]
           \/ /\ e2.item \notin Waiting
              /\ \A m \in Level : m # l /\ des[m].kind = "enqueue" => des[m].item # e2.item,
         \/ calls' = calls /\ (fr.pc # "idle" => Active(l) /\ e2 = des[l])
         \/ calls' = calls + 1 /\ fr.pc = "begin"
  PROVE  /\ AtomInv' /\ UNCHANGED <<marker, Contents>> /\ (Signalled' <=> Signalled)
         /\ \A m \in Level : m # l => des'[m] = des[m] /\ (Taken(des[m])' <=> Taken(des[m]))
  <1>0. /\ frame \in [Level -> Frames] /\ des \in [Level -> Descriptors]
        /\ \A m \in Level : m \in Nat /\ m # NULL
        /\ pending \in Level \cup {NULL} /\ calls \in Nat
    BY Types, Constants DEF AtomInv, FIFOInv
  <1>1. /\ \A m \in Level : frame'[m] = IF m = l THEN fr ELSE frame[m]
        /\ \A m \in Level : des'[m] = IF m = l THEN e2 ELSE des[m]
    BY <1>0
  <1>2. \A m \in Level : m # l => frame[m].target # l
    BY OwnOnly DEF AtomInv
  <1>3. \A m \in Level : Active(m)' <=> IF m = l THEN fr.pc # "idle" ELSE Active(m)
    BY <1>1 DEF Active
  <1>4. \A m \in Level : frame[m].target # NULL =>
          /\ frame[m].target \in Level /\ frame[frame[m].target].target = frame[m].target
          /\ m # l => frame[m].target # l /\ des'[frame[m].target] = des[frame[m].target]
    BY <1>1, <1>2, TargetFacts
  <1>5. e2 = des[l] \/ (e2 = Descriptor(e2.kind, e2.item) /\ ~Known(e2))
    BY DEF Descriptor, Known
  <1>6. e2 = Descriptor(e2.kind, e2.item) =>
          /\ e2.propose = UNREAD /\ e2.index = UNREAD /\ e2.slotPropose = UNREAD
          /\ ~Known(e2) /\ ~e2.done
    BY DEF Descriptor, Known
  <1>7. \/ /\ pending' = pending /\ pending # l /\ fr.pc # "test"
           /\ pending # NULL => fr.pc = "begin"
        \/ /\ pending' = IF fr.pc = "test" THEN l ELSE NULL
           /\ fr.pc = "test" => e2 = Descriptor(e2.kind, e2.item)
           /\ \A m \in Level : frame[m].target # NULL => Closed(des[frame[m].target])
    OBVIOUS
  <1>8. pending # NULL => frame[pending].target = pending
    BY PostedFacts
  <1>9. Nested'
    <2>1. ASSUME NEW m \in Level, frame'[m].target # NULL
          PROVE  frame'[frame'[m].target].target = frame'[m].target
      BY <1>1, <1>4, <2>1
    <2>2. \A m \in Level : /\ frame'[m].pc \in {"withdraw", "return"} => frame'[m].target = m
                           /\ frame'[m].pc = "post" => frame'[m].target # m
      BY <1>1 DEF AtomInv, Nested
    <2>3. ASSUME pending' # NULL, NEW m \in Level, m > pending', Active(m)'
          PROVE  frame'[m].pc = "begin" \/ frame'[m].target = pending'
      <3>1. CASE pending' = l
        BY <1>0, <1>3, <2>3, <3>1
      <3>2. CASE pending' # l
        <4>1. pending' = pending /\ fr.pc = "begin"
          BY <1>7, <2>3, <3>2
        <4>2. CASE m = l
          BY <1>1, <4>1, <4>2
        <4>3. CASE m # l
          BY <1>1, <1>3, <2>3, <4>1, <4>3 DEF AtomInv, Nested
        <4> QED
          BY <4>2, <4>3
      <3> QED
        BY <3>1, <3>2
    <2> QED
      BY <2>1, <2>2, <2>3 DEF Nested
  <1>10. Finished'
    <2> SUFFICES ASSUME NEW m \in Level, frame'[m].target # NULL,
                        \/ frame'[m].target # pending'
                        \/ frame'[m].pc \in {"post", "withdraw", "return"}
                 PROVE  Closed(des[frame[m].target])'
      BY DEF Finished
    <2>1. Closed(des'[frame'[m].target])
      <3>1. CASE m # l
        <4>1. frame[m].target # NULL /\ des'[frame'[m].target] = des[frame[m].target]
          BY <1>1, <1>4, <3>1
        <4>2. CASE pending' = pending
          BY <1>1, <3>1, <4>1, <4>2 DEF AtomInv, Finished
        <4>3. CASE pending' # pending
          BY <1>7, <4>1, <4>3
        <4> QED
          BY <4>2, <4>3
      <3>2. CASE m = l
        <4>1. fr.pc = "return" \/ (fr.pc = "test" /\ pending' = l)
          BY <1>0, <1>1, <1>7, <3>2
        <4>2. fr.pc = "return" /\ fr.target = l
          BY <1>1, <3>2, <4>1
        <4> QED
          BY <1>1, <3>2, <4>2
      <3> QED
        BY <3>1, <3>2
    <2> QED
      BY <2>1 DEF Closed, Known, Changes
  <1>11. Described'
    <2> SUFFICES ASSUME NEW m \in Level
                 PROVE  /\ Sound(des[m])'
                        /\ (des'[m].kind = "none" <=> ~Active(m)')
                        /\ frame'[m].target # m =>
                             des'[m] = Descriptor(des'[m].kind, des'[m].item)
      BY DEF Described, Descriptor
    <2>1. Sound(des'[m])
      BY <1>1 DEF AtomInv, Described
    <2>2. Sound(des[m])'
      BY <2>1 DEF Sound, InOrder, Known, Changes
    <2>3. des'[m].kind = "none" <=> ~Active(m)'
      BY <1>1, <1>3 DEF AtomInv, Described
    <2>4. frame'[m].target # m => des'[m] = Descriptor(des'[m].kind, des'[m].item)
      BY <1>1 DEF AtomInv, Described
    <2> QED
      BY <2>2, <2>3, <2>4
  <1>12. Ordered'
    <2> SUFFICES ASSUME NEW k \in Level, NEW m \in Level, m < k,
                        frame'[m].target = frame'[k].target,
                        frame'[k].pc \in {"load", "store"}
                 PROVE  frame'[m].pc \in Prologue /\ frame'[m].field <= frame'[k].field
      BY DEF Ordered
    <2>1. k # l /\ Active(k)
      BY <1>1 DEF Active
    <2>2. m # l
      BY <1>0, <2>1
    <2> QED
      BY <1>1, <2>1, <2>2 DEF AtomInv, Ordered
  <1>13. ASSUME NEW m \in Level, m # l, frame[m].target # NULL
         PROVE  /\ frame'[m] = frame[m] /\ des'[frame'[m].target] = des[frame[m].target]
                /\ Confirms(frame[m], des[frame[m].target])
                /\ Loops(frame[m], des[frame[m].target])
    BY <1>1, <1>4, <1>13 DEF AtomInv, Confirmed, Looped
  <1>14. Confirmed'
    <2> SUFFICES ASSUME NEW m \in Level, frame'[m].target # NULL
                 PROVE  Confirms(frame[m], des[frame[m].target])'
      BY DEF Confirmed
    <2>1. Confirms(frame'[m], des'[frame'[m].target])
      <3>1. CASE m = l
        BY <1>1, <3>1 DEF Confirms
      <3>2. CASE m # l
        BY <1>1, <1>13, <3>2
      <3> QED
        BY <3>1, <3>2
    <2> QED
      BY <2>1 DEF Confirms
  <1>15. Looped'
    <2> SUFFICES ASSUME NEW m \in Level, frame'[m].target # NULL
                 PROVE  Loops(frame[m], des[frame[m].target])'
      BY DEF Looped
    <2>1. Loops(frame'[m], des'[frame'[m].target])
      <3>1. CASE m = l
        BY <1>1, <3>1 DEF Loops, Loop
      <3>2. CASE m # l
        BY <1>1, <1>13, <3>2
      <3> QED
        BY <3>1, <3>2
    <2> DEFINE x == des'[frame'[m].target]
    <2>2. /\ frame'[m].pc \in Loop \ {"open"} => Changes(x)
          /\ frame'[m].pc = "check" => x.done \/ frame'[m].read \in {x.slotReturn, Effect(x)}
          /\ frame'[m].pc = "act" => frame'[m].read \in {x.slotReturn, Effect(x)}
          /\ frame'[m].pc \in {"check", "act"} /\ frame'[m].read = Effect(x) =>
               x.done \/ q'[Place(x)] = Effect(x)
          /\ frame'[m].pc \in {"linkIndex", "moveIndex"} =>
               Moves(x) /\ (x.done \/ q'[Place(x)] = Effect(x))
          /\ frame'[m].pc = "mark" =>
               \/ x.done
               \/ /\ q'[Place(x)] = Effect(x)
                  /\ Moves(x) => x.index # IF x.kind = "dequeue" THEN head' ELSE tail'
      BY <2>1 DEF Loops, IndexOf
    <2> HIDE DEF x
    <2> QED
      BY <2>2, LoopsAgain DEF x
  <1>16. Filled' = Filled /\ Waiting' = Waiting
    BY DEF Filled, Waiting
  <1>17. Opened'
    <2> SUFFICES ASSUME pending' # NULL
                 PROVE  Opened'
      BY DEF Opened
    <2>1. CASE pending' = l
      <3>1. fr.pc = "test" /\ e2 = Descriptor(e2.kind, e2.item) /\ des'[pending'] = e2
        BY <1>1, <1>7, <2>1
      <3>2. /\ e2.propose = UNREAD /\ e2.index = UNREAD /\ e2.slotPropose = UNREAD
            /\ ~Known(e2)
        BY <1>6, <3>1
      <3>3. Opens(des[pending])'
        BY <3>1, <3>2 DEF Opens
      <3>4. ASSUME NEW m \in Level, frame'[m].target = l
            PROVE  Reads(frame[m], des[pending])'
        BY <1>1, <1>2, <3>1, <3>4 DEF Reads
      <3>5. ~Known(des[pending])'
        BY <3>1, <3>2 DEF Known
      <3> QED
        BY <2>1, <3>3, <3>4, <3>5 DEF Opened
    <2>2. CASE pending' # l
      <3>1. pending' = pending /\ fr.pc = "begin" /\ pending \in Level
              /\ des'[pending] = des[pending]
        BY <1>0, <1>1, <1>7, <2>2
      <3>2. Opens(des[pending])'
        BY <3>1 DEF AtomInv, Opened, Opens, IndexOf, Place, Known
      <3>3. ASSUME NEW m \in Level, frame'[m].target = pending
            PROVE  Reads(frame[m], des[pending])'
        <4>1. m # l
          BY <1>1, <2>2, <3>1, <3>3
        <4>2. Reads(frame'[m], des[pending])
          BY <1>1, <3>1, <3>3, <4>1 DEF AtomInv, Opened
        <4> QED
          BY <3>1, <4>2 DEF Reads, IndexOf, Place, Known
      <3>4. (Known(des[pending]) /\ ~Closed(des[pending]))' =>
               /\ Stage(des[pending])'
               /\ ((/\ des[pending].kind = "dequeue" /\ Moves(des[pending])
                    /\ q[Place(des[pending])] = Effect(des[pending]))
                   => des[pending].slotReturn \notin Waiting)'
        BY <1>16, <3>1 DEF AtomInv, Opened, Stage, Effect, Stored, Place, Moves, IndexOf,
           Following, Known, Closed, Changes
      <3> QED
        BY <3>1, <3>2, <3>3, <3>4 DEF Opened
    <2> QED
      BY <2>1, <2>2
  <1>18. Reserved'
    <2> SUFFICES ASSUME reserved', NEW m \in Level, Running(m)', frame'[m].target # NULL
                 PROVE  Reserves(frame[m], des[frame[m].target])'
      BY DEF Reserved
    <2>1. Active(l)'
      BY <1>3
    <2>2. m = l
      <3>1. ~(l > m)
        BY <2>1 DEF Running
      <3>2. ~(m > l)
        BY <1>0, <1>3 DEF Running
      <3> QED
        BY <1>0, <3>1, <3>2
    <2> QED
      BY <1>1, <2>2 DEF Reserves
  <1>19. \A m \in Level : Moved(des[m])' <=> Moved(des'[m])
    BY DEF Moved, Known, Changes, Moves, IndexOf
  <1>20. /\ Unmoved' \subseteq Unmoved \cup {l}
         /\ calls' = calls => Unmoved' \subseteq Unmoved
    <2>1. \A m \in Level : m # l => (m \in Unmoved' <=> m \in Unmoved)
      BY <1>1, <1>3, <1>19 DEF Unmoved
    <2>2. calls' = calls /\ l \in Unmoved' => l \in Unmoved
      BY <1>0, <1>1, <1>3, <1>19 DEF Unmoved
    <2>3. Unmoved' \subseteq Level
      BY DEF Unmoved
    <2> QED
      BY <2>1, <2>2, <2>3
  <1>21. Cardinality(Unmoved') - Cardinality(Unmoved) <= calls' - calls
           /\ Cardinality(Unmoved') \in Nat /\ Cardinality(Unmoved) \in Nat
    <2>1. IsFiniteSet(Unmoved) /\ Cardinality(Unmoved) \in Nat
      BY UnmovedFacts
    <2>2. IsFiniteSet(Unmoved \cup {l}) /\ Cardinality(Unmoved \cup {l}) <= Cardinality(Unmoved) + 1
            /\ Cardinality(Unmoved \cup {l}) \in Nat
      <3>1. /\ IsFiniteSet(Unmoved \cup {l})
            /\ Cardinality(Unmoved \cup {l}) =
                 IF l \in Unmoved THEN Cardinality(Unmoved) ELSE Cardinality(Unmoved) + 1
        BY <2>1, FS_AddElement
      <3> QED
        BY <2>1, <3>1
    <2>3. /\ Cardinality(Unmoved') <= Cardinality(Unmoved \cup {l})
          /\ IsFiniteSet(Unmoved')
      BY <1>20, <2>2, FS_Subset
    <2>4. Cardinality(Unmoved') \in Nat
      BY <2>3, FS_CardinalityType
    <2>5. calls' = calls => Cardinality(Unmoved') <= Cardinality(Unmoved)
      BY <1>20, <2>1, FS_Subset
    <2> QED
      BY <1>0, <2>1, <2>2, <2>3, <2>4, <2>5
  <1>22. Counted'
    <2>1. ASSUME NEW m \in Level, Moved(des[m])'
          PROVE  (Ahead(des[m]) + Cardinality(Unmoved) <= calls)'
      <3>1. Moved(des[m]) /\ des'[m] = des[m]
        BY <1>1, <1>5, <1>19, <2>1 DEF Moved
      <3>2. Ahead(des[m])' = Ahead(des[m])
        BY <3>1 DEF Ahead, IndexOf
      <3>3. Ahead(des[m]) + Cardinality(Unmoved) <= calls /\ Ahead(des[m]) \in Int
        <4>1. des[m].index \in Index /\ IndexOf(des[m]) \in Index
          <5>1. head \in Index /\ tail \in Index
            BY Types DEF AtomInv, FIFOInv
          <5> QED
            BY <3>1, <5>1, KnownFacts DEF Moved, IndexOf
        <4>2. Ahead(des[m]) \in Int
          BY <4>1, Sizes DEF Ahead, Index
        <4> QED
          BY <3>1, <4>2 DEF AtomInv, Counted
      <3>4. calls' \in Nat
        BY <1>0
      <3> QED
        BY <1>0, <1>21, <3>2, <3>3, <3>4
    <2>2. \A m \in Level :
            (Known(des[m]) /\ des[m].done /\ Changes(des[m]) /\ Moves(des[m]))' =>
              des'[m].index # IndexOf(des[m])'
      <3> SUFFICES ASSUME NEW m \in Level, Known(des'[m]), des'[m].done, Changes(des'[m]),
                          Moves(des'[m])
                   PROVE  des'[m].index # IndexOf(des'[m])
        BY DEF Known, Changes, Moves, IndexOf
      <3>1. des'[m] = des[m]
        BY <1>1, <1>5
      <3> QED
        BY <3>1 DEF AtomInv, Counted
    <2>3. Cardinality(Unmoved') <= calls'
      <3>1. Cardinality(Unmoved) <= calls
        BY DEF AtomInv, Counted
      <3> QED
        BY <1>0, <1>21, <3>1
    <2> QED
      BY <2>1, <2>2, <2>3 DEF Counted
  <1>23. Shape'
    <2>1. ASSUME NEW k
          PROVE  Lags(k)' <=> Lags(k)
      <3>1. CASE pending' = pending /\ pending # l
        <4>1. pending # NULL => des'[pending] = des[pending]
          BY <1>0, <1>1, <3>1
        <4> QED
          BY <3>1, <4>1 DEF Lags, Known, Changes, Moves, Place, Effect, Stored, IndexOf
      <3>2. CASE ~(pending' = pending /\ pending # l)
        <4>1. ~Lags(k)
          <5> SUFFICES ASSUME Lags(k)
                       PROVE  FALSE
            OBVIOUS
          <5>1. pending \in Level /\ Closed(des[pending])
            BY <1>0, <1>7, <1>8, <3>2 DEF Lags
          <5> QED
            BY <5>1 DEF Lags, Closed, AtomInv, Counted
        <4>2. ~Lags(k)'
          <5>1. pending' # NULL => ~Known(des'[pending'])
            BY <1>0, <1>1, <1>6, <1>7, <3>2
          <5> QED
            BY <5>1 DEF Lags, Known
        <4> QED
          BY <4>1, <4>2
      <3> QED
        BY <3>1, <3>2
    <2>2. NextOut' = NextOut /\ NextIn' = NextIn /\ Length' = Length
      BY <1>16, <2>1 DEF NextOut, NextIn, Length, Following
    <2> QED
      BY <2>1, <2>2 DEF AtomInv, Shape
  <1>24. \A m \in Level : Taken(des[m])' <=> Taken(des'[m])
    BY DEF Taken, Known, Closed, Changes, Place, Effect, Stored
  <1>25. Unique'
    <2>1. \A m, n \in Level : /\ des'[m].kind = "enqueue" /\ des'[n].kind = "enqueue"
                              /\ des'[m].item = des'[n].item
                              => m = n
      BY <1>1 DEF AtomInv, Unique
    <2>2. \A m \in Level : des'[m].kind = "enqueue" /\ ~Taken(des'[m]) =>
                              des'[m].item \notin Waiting
      BY <1>1 DEF AtomInv, Unique
    <2> QED
      BY <1>16, <1>24, <2>1, <2>2 DEF AtomInv, Unique
  <1>26. AtomInv'
    BY <1>9, <1>10, <1>11, <1>12, <1>14, <1>15, <1>17, <1>18, <1>22, <1>23, <1>25
       DEF AtomInv
  <1>27. Contents' = Contents /\ (Signalled' <=> Signalled)
    BY <1>16 DEF Contents, Oldest, Signalled
  <1>28. \A m \in Level : m # l => des'[m] = des[m] /\ (Taken(des[m])' <=> Taken(des[m]))
    BY <1>1, <1>24
  <1> QED
    BY <1>26, <1>27, <1>28

(* What preempted operations a level left unfinished, it has finished by   *)
(* the time it posts its own or withdraws it.                              *)
LEMMA AllClosed ==
  ASSUME AtomInv, NEW l \in Level, Running(l), frame[l].pc \in {"post", "withdraw", "return"}
  PROVE  /\ \A m \in Level : frame[m].target # NULL => Closed(des[frame[m].target])
         /\ pending # NULL => frame[l].target = pending
  <1>1. ASSUME pending # NULL
        PROVE  frame[l].target = pending
    <2>1. pending \in Level /\ frame[pending].target = pending /\ Active(pending)
            /\ frame[pending].pc \in Prologue \cup Loop \cup {"withdraw"}
      BY <1>1, PostedFacts
    <2>2. ~(pending > l)
      BY <2>1 DEF Running
    <2>3. CASE pending = l
      BY <2>1, <2>3
    <2>4. CASE pending < l
      <3>1. frame[l].pc = "begin" \/ frame[l].target = pending
        BY <1>1, <2>1, <2>4 DEF AtomInv, Nested, Running
      <3> QED
        BY <3>1
    <2> QED
      BY <2>1, <2>2, <2>3, <2>4, Constants
  <1>2. ASSUME NEW m \in Level, frame[m].target # NULL
        PROVE  Closed(des[frame[m].target])
    <2>1. CASE frame[m].target # pending
      BY <1>2, <2>1 DEF AtomInv, Finished
    <2>2. CASE frame[m].target = pending
      <3>1. frame[l].target = pending /\ pending # NULL
        BY <1>1, <1>2, <2>2
      <3>2. Closed(des[frame[l].target])
        BY <3>1 DEF AtomInv, Finished
      <3> QED
        BY <2>2, <3>1, <3>2
    <2> QED
      BY <2>1, <2>2
  <1> QED
    BY <1>1, <1>2

LEMMA PostAtom ==
  ASSUME AtomInv, NEW l \in Level, Post(l)
  PROVE  AtomInv' /\ Stutter
  <1> DEFINE fr == [NoFrame EXCEPT !.pc = "test", !.target = l]
  <1>1. /\ Running(l) /\ frame[l].pc = "post" /\ frame' = [frame EXCEPT ![l] = fr]
        /\ pending' = l /\ des' = des /\ UNCHANGED <<marker, q, head, tail, calls>>
    BY DEF Post, At, queue
  <1>2. fr.pc = "test" /\ fr.target = l
    BY DEF NoFrame
  <1> HIDE DEF fr
  <1>3. /\ frame[l].target # l /\ Sound(des[l]) /\ Active(l) /\ des[l].kind # "none"
        /\ des[l] = Descriptor(des[l].kind, des[l].item)
    BY <1>1 DEF AtomInv, Nested, Described, Running
  <1>4. des \in [Level -> Descriptors] /\ FIFOInv'
    BY PostStep, Types DEF AtomInv, FIFOInv
  <1>5. des' = [des EXCEPT ![l] = des[l]] /\ des[l] \in Descriptors
    BY <1>1, <1>4
  <1>6. \A m \in Level : frame[m].target # NULL => Closed(des[frame[m].target])
    BY <1>1, AllClosed
  <1>7. \A m \in Level : m > l => ~Active(m)
    BY <1>1 DEF Running
  <1>8. AtomInv' /\ UNCHANGED Contents /\ (Signalled' <=> Signalled)
    BY <1>1, <1>2, <1>3, <1>4, <1>5, <1>6, <1>7, EdgeStep
  <1>9. \A m \in Level : Taken(des[m])' <=> Taken(des[m])
    BY <1>1 DEF Taken, Known, Closed, Changes, Place, Effect, Stored
  <1> QED
    BY <1>1, <1>8, <1>9, CallsStay DEF Stutter

LEMMA WithdrawAtom ==
  ASSUME AtomInv, NEW l \in Level, Withdraw(l)
  PROVE  AtomInv' /\ Stutter
  <1> DEFINE fr == [frame[l] EXCEPT !.pc = "return"]
  <1>1. /\ Running(l) /\ frame[l].pc = "withdraw" /\ frame' = [frame EXCEPT ![l].pc = "return"]
        /\ pending' = NULL /\ des' = des /\ UNCHANGED <<marker, q, head, tail, calls>>
    BY DEF Withdraw, At, queue, Goto
  <1>2. frame[l].target = l /\ l # NULL
    BY <1>1, Constants DEF AtomInv, Nested
  <1>3. frame' = [frame EXCEPT ![l] = fr] /\ fr.pc = "return" /\ fr.target = l
    <2>1. frame \in [Level -> Frames]
      BY Types DEF AtomInv, FIFOInv
    <2> QED
      BY <1>1, <1>2, <2>1 DEF Frames
  <1> HIDE DEF fr
  <1>4. Sound(des[l]) /\ Active(l) /\ des[l].kind # "none"
    BY <1>1 DEF AtomInv, Described, Running
  <1>5. des \in [Level -> Descriptors] /\ FIFOInv'
    BY WithdrawStep, Types DEF AtomInv, FIFOInv
  <1>6. des' = [des EXCEPT ![l] = des[l]] /\ des[l] \in Descriptors
    BY <1>1, <1>5
  <1>7. \A m \in Level : frame[m].target # NULL => Closed(des[frame[m].target])
    BY <1>1, AllClosed
  <1>8. \A m \in Level : m > l => ~Active(m)
    BY <1>1 DEF Running
  <1>9. Closed(des[l])
    BY <1>2, <1>7
  <1>10. AtomInv' /\ UNCHANGED Contents /\ (Signalled' <=> Signalled)
    BY <1>1, <1>3, <1>4, <1>5, <1>6, <1>7, <1>8, <1>9, EdgeStep
  <1>11. \A m \in Level : Taken(des[m])' <=> Taken(des[m])
    BY <1>1 DEF Taken, Known, Closed, Changes, Place, Effect, Stored
  <1> QED
    BY <1>1, <1>10, <1>11, CallsStay DEF Stutter

(* A descriptor that no operation has.                                     *)
LEMMA NoDescriptor ==
  /\ Descriptor("none", NULL) \in Descriptors /\ Sound(Descriptor("none", NULL))
  /\ Descriptor("none", NULL).kind = "none" /\ Descriptor("none", NULL).item = NULL
  BY DEF Descriptor, Descriptors, Sound, Known, InOrder

LEMMA ReturnAtom ==
  ASSUME AtomInv, NEW l \in Level, Return(l)
  PROVE  /\ AtomInv' /\ UNCHANGED <<marker, Contents>> /\ (Signalled' <=> Signalled)
         /\ \A m \in Level : m # l => des'[m] = des[m] /\ (Taken(des[m])' <=> Taken(des[m]))
         /\ Taken(des[l]) /\ des'[l] = Descriptor("none", NULL)
  <1> DEFINE e2 == Descriptor("none", NULL)
  <1>1. /\ Running(l) /\ frame[l].pc = "return" /\ frame' = [frame EXCEPT ![l] = NoFrame]
        /\ des' = [des EXCEPT ![l] = e2] /\ reserved' = FALSE
        /\ UNCHANGED <<marker, q, head, tail, pending, calls>>
    BY DEF Return, At, queue
  <1>2. NoFrame.pc = "idle" /\ NoFrame.target = NULL
    BY DEF NoFrame
  <1>3. frame[l].target = l /\ l # NULL
    BY <1>1, Constants DEF AtomInv, Nested
  <1>4. pending = NULL
    <2> SUFFICES ASSUME pending # NULL
                 PROVE  FALSE
      OBVIOUS
    <2>1. pending = l
      BY <1>1, <1>3, AllClosed
    <2>2. frame[l].pc \in Prologue \cup Loop \cup {"withdraw"}
      BY <2>1, PostedFacts
    <2> QED
      BY <1>1, <2>2 DEF Prologue, Loop
  <1>5. des \in [Level -> Descriptors] /\ FIFOInv'
    BY ReturnStep, Types DEF AtomInv, FIFOInv
  <1>6. \A m \in Level : m > l => ~Active(m)
    BY <1>1 DEF Running
  <1>7. Taken(des[l])
    <2>1. Closed(des[l])
      BY <1>1, <1>3, AllClosed
    <2> QED
      BY <2>1 DEF Taken, Closed
  <1>8. /\ e2 \in Descriptors /\ Sound(e2) /\ e2.kind = "none" /\ e2.item = NULL
        /\ e2 = Descriptor(e2.kind, e2.item) /\ des'[l] = e2
    BY <1>1, <1>5, NoDescriptor
  <1> HIDE DEF e2
  <1>9. /\ AtomInv' /\ UNCHANGED <<marker, Contents>> /\ (Signalled' <=> Signalled)
        /\ \A m \in Level : m # l => des'[m] = des[m] /\ (Taken(des[m])' <=> Taken(des[m]))
    BY <1>1, <1>2, <1>3, <1>4, <1>5, <1>6, <1>8, EdgeStep
  <1> QED
    BY <1>7, <1>8, <1>9 DEF e2

LEMMA StartAtom ==
  ASSUME AtomInv, NEW l \in Level, NEW kind \in {"enqueue", "dequeue"},
         NEW item \in Items \cup {NULL}, kind = "enqueue" <=> item \in Items,
         kind = "enqueue" => ~Owned(item), Start(l, Descriptor(kind, item))
  PROVE  /\ AtomInv' /\ UNCHANGED <<marker, Contents>> /\ (Signalled' <=> Signalled)
         /\ \A m \in Level : m # l => des'[m] = des[m] /\ (Taken(des[m])' <=> Taken(des[m]))
         /\ des[l] = Descriptor("none", NULL) /\ des'[l] = Descriptor(kind, item)
  <1> DEFINE e2 == Descriptor(kind, item)
             fr == [NoFrame EXCEPT !.pc = "begin"]
  <1>1. /\ frame' = [frame EXCEPT ![l] = fr] /\ des' = [des EXCEPT ![l] = e2]
        /\ UNCHANGED <<marker, q, head, tail, pending>> /\ calls' = calls + 1
        /\ \A m \in Level : m >= l => ~Active(m)
    BY DEF Start, queue
  <1>2. fr.pc = "begin" /\ fr.target = NULL
    BY DEF NoFrame
  <1>3. /\ e2 \in Descriptors /\ Sound(e2) /\ e2.kind = kind /\ e2.item = item
        /\ e2 = Descriptor(e2.kind, e2.item)
    BY QueueAssumption DEF Descriptor, Descriptors, Sound, Known, InOrder
  <1>4. FIFOInv' /\ des \in [Level -> Descriptors] /\ l \in Nat /\ (\A m \in Level : m \in Nat)
    BY <1>3, StartStep, Types, Constants DEF AtomInv, FIFOInv
  <1>5. ~Active(l) /\ \A m \in Level : m > l => ~Active(m)
    BY <1>1, <1>4
  <1>6. pending # l
    BY <1>5, PostedFacts, Constants
  <1>7. des[l] = Descriptor("none", NULL)
    <2>1. frame[l].target = NULL
      BY <1>5 DEF AtomInv, FIFOInv, Targets, Active
    <2>2. des[l] = Descriptor(des[l].kind, des[l].item) /\ des[l].kind = "none" /\ Sound(des[l])
      BY <1>5, <2>1, Constants DEF AtomInv, Described
    <2>3. des[l].item = NULL
      BY <2>2 DEF Sound
    <2> QED
      BY <2>2, <2>3
  <1>8. ASSUME kind = "enqueue"
        PROVE  /\ item \notin Waiting
               /\ \A m \in Level : m # l /\ des[m].kind = "enqueue" => des[m].item # item
    BY <1>8 DEF Owned, Waiting
  <1>9. des'[l] = e2
    BY <1>1, <1>4
  <1> HIDE DEF e2, fr
  <1>10. /\ AtomInv' /\ UNCHANGED <<marker, Contents>> /\ (Signalled' <=> Signalled)
         /\ \A m \in Level : m # l => des'[m] = des[m] /\ (Taken(des[m])' <=> Taken(des[m]))
    BY <1>1, <1>2, <1>3, <1>4, <1>5, <1>6, <1>8, EdgeStep
  <1> QED
    BY <1>7, <1>9, <1>10 DEF e2

(* Where nothing but the reservation and the count of calls changes.       *)
LEMMA IdleAtom ==
  ASSUME AtomInv, FIFOInv', UNCHANGED <<marker, q, head, tail, pending, des, frame>>,
         reserved' => reserved, calls' \in Nat, calls' >= calls
  PROVE  AtomInv' /\ Stutter
  <1>1. \A m \in Level : (Active(m)' <=> Active(m)) /\ (Running(m)' <=> Running(m))
    BY DEF Active, Running
  <1>2. Nested' /\ Ordered'
    BY <1>1 DEF AtomInv, Nested, Ordered
  <1>3. Finished' /\ Described'
    BY <1>1 DEF AtomInv, Finished, Described, Closed, Known, Changes, Sound, InOrder, Descriptor
  <1>4. Confirmed' /\ Looped' /\ Reserved'
    <2>1. Confirmed'
      BY DEF AtomInv, Confirmed, Confirms
    <2>2. Looped'
      BY DEF AtomInv, Looped, Loops, Changes, Effect, Stored, Place, Moves, IndexOf
    <2>3. Reserved'
      BY <1>1 DEF AtomInv, Reserved, Reserves, Place, IndexOf
    <2> QED
      BY <2>1, <2>2, <2>3
  <1>5. Filled' = Filled /\ Waiting' = Waiting
    BY DEF Filled, Waiting
  <1>6. Opened'
    BY <1>5 DEF AtomInv, Opened, Opens, Reads, Stage, Effect, Stored, Place, Moves, IndexOf,
       Following, Known, Closed, Changes
  <1>7. Counted'
    <2>1. Unmoved' = Unmoved
      BY <1>1 DEF Unmoved, Moved, Known, Changes, Moves, IndexOf
    <2>2. \A m \in Level : Moved(des[m]) => Ahead(des[m]) \in Int
      <3> SUFFICES ASSUME NEW m \in Level, Moved(des[m])
                   PROVE  Ahead(des[m]) \in Int
        OBVIOUS
      <3>1. des[m].index \in Index /\ IndexOf(des[m]) \in Index
        <4>1. head \in Index /\ tail \in Index
          BY Types DEF AtomInv, FIFOInv
        <4> QED
          BY <4>1, KnownFacts DEF Moved, IndexOf
      <3> QED
        BY <3>1, Sizes DEF Ahead, Index
    <2>3. Cardinality(Unmoved) \in Nat /\ calls \in Nat
      BY UnmovedFacts, Types DEF AtomInv, FIFOInv
    <2>4. Cardinality(Unmoved') <= calls'
      BY <2>1, <2>3 DEF AtomInv, Counted
    <2>5. ASSUME NEW m \in Level, Moved(des[m])'
          PROVE  Ahead(des[m])' + Cardinality(Unmoved') <= calls'
      <3>1. Moved(des[m]) /\ Ahead(des[m])' = Ahead(des[m])
        BY <2>5 DEF Moved, Ahead, Known, Changes, Moves, IndexOf
      <3>2. Ahead(des[m]) + Cardinality(Unmoved) <= calls
        BY <3>1 DEF AtomInv, Counted
      <3> QED
        BY <2>1, <2>2, <2>3, <3>1, <3>2
    <2>6. \A m \in Level :
            (Known(des[m]) /\ des[m].done /\ Changes(des[m]) /\ Moves(des[m]) =>
               des[m].index # IndexOf(des[m]))'
      BY DEF AtomInv, Counted, Known, Changes, Moves, IndexOf
    <2> QED
      BY <2>4, <2>5, <2>6 DEF Counted
  <1>8. Shape'
    <2>1. \A k : Lags(k)' <=> Lags(k)
      BY DEF Lags, Known, Changes, Moves, Place, Effect, Stored, IndexOf
    <2>2. NextOut' = NextOut /\ NextIn' = NextIn /\ Length' = Length
      BY <1>5, <2>1 DEF NextOut, NextIn, Length, Following
    <2> QED
      BY <2>1, <2>2 DEF AtomInv, Shape
  <1>9. \A m \in Level : Taken(des[m])' <=> Taken(des[m])
    BY DEF Taken, Known, Closed, Changes, Place, Effect, Stored
  <1>10. Unique'
    BY <1>5, <1>9 DEF AtomInv, Unique
  <1>11. AtomInv'
    BY <1>2, <1>3, <1>4, <1>6, <1>7, <1>8, <1>10 DEF AtomInv
  <1>12. Contents' = Contents /\ (Signalled' <=> Signalled)
    BY <1>5 DEF Contents, Oldest, Signalled
  <1> QED
    BY <1>9, <1>11, <1>12, CallsStay DEF Stutter

-----------------------------------------------------------------------------
(***************************************************************************)
(* The initial states.                                                     *)
(***************************************************************************)

(* Init's description of the array, read from Head on.                     *)
LEMMA InitialSlots ==
  ASSUME Init
  PROVE  \E n \in 0 .. QueueLength, signalled \in BOOLEAN :
           \E held \in [1 .. n -> Items] :
             /\ \A a, b \in 1 .. n : held[a] = held[b] => a = b
             /\ tail = (head + n) % MaxIndex
             /\ signalled => marker = SIGNAL /\ n = 0
             /\ \A k \in 0 .. QueueLength - 1 :
                  q[(head + k) % QueueLength] =
                    IF k < n THEN held[k + 1]
                    ELSE IF signalled /\ k = 0 THEN SIGNAL ELSE NULL
  <1>1. PICK held \in {s \in UNION {[1 .. n -> Items] : n \in 0 .. QueueLength} :
                         IsInjective(s)}, signalled \in BOOLEAN :
          /\ signalled => marker = SIGNAL /\ held = <<>>
          /\ tail = (head + Len(held)) % MaxIndex
          /\ q = [i \in 0 .. QueueLength - 1 |->
               LET place == 1 + (((i + QueueLength) - (head % QueueLength)) % QueueLength)
               IN IF place <= Len(held) THEN held[place]
                  ELSE IF signalled /\ place = 1 THEN SIGNAL ELSE NULL]
    BY DEF Init, AtRest
  <1>2. PICK n \in 0 .. QueueLength : held \in [1 .. n -> Items]
    OBVIOUS
  <1>3. n \in Nat /\ Len(held) = n
    BY <1>2, Sizes
  <1>4. \A a, b \in 1 .. n : held[a] = held[b] => a = b
    BY <1>1, <1>2 DEF IsInjective
  <1>5. signalled => n = 0
    <2>1. Len(<<>>) = 0
      OBVIOUS
    <2> QED
      BY <1>1, <1>3, <2>1
  <1>6. head \in Nat
    BY Constants DEF Init
  <1>7. ASSUME NEW k \in 0 .. QueueLength - 1
        PROVE  q[(head + k) % QueueLength] =
                 IF k < n THEN held[k + 1]
                 ELSE IF signalled /\ k = 0 THEN SIGNAL ELSE NULL
    <2> DEFINE i == (head + k) % QueueLength
               r == head % QueueLength
               w == (i + QueueLength) - r
    <2>1. r \in 0 .. QueueLength - 1 /\ i = IF r + k < QueueLength THEN r + k
                                            ELSE (r + k) - QueueLength
      <3>1. k \in 0 .. QueueLength
        BY Sizes
      <3> QED
        BY <1>6, <3>1, Sizes, Offset, Division
    <2>2. i \in 0 .. QueueLength - 1
      <3>1. head + k \in Nat
        BY <1>6
      <3> QED
        BY <3>1, IndexFacts
    <2> HIDE DEF i, r
    <2>3. w = k \/ w = QueueLength + k
      BY <2>1, Sizes
    <2>4. k % QueueLength = k
      <3>1. (QueueLength * 0 + k) % QueueLength = k
        BY Sizes, Remainder
      <3>2. QueueLength * 0 + k = k
        BY Sizes
      <3> QED
        BY <3>1, <3>2
    <2>5. (QueueLength + k) % QueueLength = k
      <3>1. QueueLength % QueueLength = 0
        BY Sizes
      <3> QED
        BY <2>4, <3>1, Sizes, Multiple
    <2>6. w % QueueLength = k
      BY <2>3, <2>4, <2>5
    <2>7. q[i] = IF 1 + (w % QueueLength) <= n THEN held[1 + (w % QueueLength)]
                 ELSE IF signalled /\ 1 + (w % QueueLength) = 1 THEN SIGNAL ELSE NULL
      BY <1>1, <1>3, <2>2 DEF r
    <2> HIDE DEF w
    <2>8. q[i] = IF 1 + k <= n THEN held[1 + k]
                 ELSE IF signalled /\ 1 + k = 1 THEN SIGNAL ELSE NULL
      BY <2>6, <2>7
    <2>9. (1 + k <= n <=> k < n) /\ 1 + k = k + 1 /\ (1 + k = 1 <=> k = 0)
      BY <1>3
    <2> QED
      BY <2>8, <2>9 DEF i
  <1> QED
    BY <1>1, <1>2, <1>3, <1>4, <1>5, <1>7

(* Items that lie together are as many as the places they take.            *)
LEMMA CountFilled ==
  ASSUME TypeOK, NEW n \in 0 .. QueueLength,
         \A k \in 0 .. QueueLength - 1 : q[(head + k) % QueueLength] \in Items <=> k < n
  PROVE  Length = n
  <1> DEFINE f == [k \in 1 .. n |-> (head + (k - 1)) % QueueLength]
  <1>1. head \in Nat /\ DOMAIN q = 0 .. QueueLength - 1 /\ n \in Nat
    BY Types, FilledFacts, Sizes DEF Index
  <1>2. /\ \A i, j \in 0 .. QueueLength - 1 :
             (head + i) % QueueLength = (head + j) % QueueLength => i = j
        /\ \A p \in 0 .. QueueLength - 1 :
             \E i \in 0 .. QueueLength - 1 : (head + i) % QueueLength = p
    <2>1. head \in Nat /\ QueueLength \in Nat \ {0}
      BY <1>1, Sizes
    <2> QED
      BY <2>1, Distinct
  <1>3. \A k \in 1 .. n : k - 1 \in 0 .. QueueLength - 1 /\ k - 1 < n /\ head + (k - 1) \in Nat
    BY <1>1, Sizes
  <1>4. \A k \in 1 .. n : (head + (k - 1)) % QueueLength \in Filled
    <2> SUFFICES ASSUME NEW k \in 1 .. n
                 PROVE  (head + (k - 1)) % QueueLength \in Filled
      OBVIOUS
    <2>1. (head + (k - 1)) % QueueLength \in 0 .. QueueLength - 1
      BY <1>3, IndexFacts
    <2>2. q[(head + (k - 1)) % QueueLength] \in Items
      BY <1>3
    <2> QED
      BY <1>1, <2>1, <2>2 DEF Filled
  <1>5. f \in [1 .. n -> Filled]
    BY <1>4
  <1>6. \A a, b \in 1 .. n : f[a] = f[b] => a = b
    <2> SUFFICES ASSUME NEW a \in 1 .. n, NEW b \in 1 .. n, f[a] = f[b]
                 PROVE  a = b
      OBVIOUS
    <2>1. a - 1 = b - 1
      BY <1>2, <1>3
    <2> QED
      BY <2>1
  <1>7. \A p \in Filled : \E k \in 1 .. n : f[k] = p
    <2> SUFFICES ASSUME NEW p \in Filled
                 PROVE  \E k \in 1 .. n : f[k] = p
      OBVIOUS
    <2>1. p \in 0 .. QueueLength - 1 /\ q[p] \in Items
      BY <1>1 DEF Filled
    <2>2. PICK i \in 0 .. QueueLength - 1 : (head + i) % QueueLength = p
      BY <1>2, <2>1
    <2>3. i < n /\ i + 1 \in 1 .. n /\ (i + 1) - 1 = i
      BY <1>1, <2>1, <2>2
    <2>4. f[i + 1] = p
      BY <2>2, <2>3
    <2> QED
      BY <2>3, <2>4
  <1> HIDE DEF f
  <1>8. f \in Bijection(1 .. n, Filled)
    BY <1>5, <1>6, <1>7 DEF Bijection, Injection, Surjection, IsInjective
  <1>9. IsFiniteSet(1 .. n) /\ Cardinality(1 .. n) = n
    BY <1>1, FS_Interval
  <1> QED
    BY <1>8, <1>9, FS_Bijection DEF ExistsBijection, Length

LEMMA AtomInit == Init => AtomInv
  <1> SUFFICES ASSUME Init
               PROVE  AtomInv
    OBVIOUS
  <1>1. FIFOInv /\ TypeOK
    BY FIFOInit DEF FIFOInv
  <1>2. /\ pending = NULL /\ reserved = FALSE /\ calls = 0 /\ head \in Nat
        /\ \A l \in Level : /\ frame[l].pc = "idle" /\ frame[l].target = NULL
                            /\ des[l] = Descriptor("none", NULL) /\ ~Active(l)
                            /\ l # NULL
    BY Constants DEF Init, NoFrame, Active
  <1>3. /\ Sound(Descriptor("none", NULL)) /\ ~Known(Descriptor("none", NULL))
        /\ Descriptor("none", NULL).kind = "none" /\ Descriptor("none", NULL).item = NULL
    BY NoDescriptor DEF Descriptor, Known
  <1>4. Nested /\ Finished /\ Ordered /\ Confirmed /\ Opened /\ Looped /\ Reserved
    BY <1>2 DEF Nested, Finished, Ordered, Confirmed, Opened, Looped, Reserved
  <1>5. Described
    BY <1>2, <1>3 DEF Described
  <1>6. Counted
    <2>1. Unmoved = {}
      BY <1>2 DEF Unmoved
    <2>2. Cardinality(Unmoved) = 0
      BY <2>1, FS_EmptySet
    <2> QED
      BY <1>2, <1>3, <2>2 DEF Counted, Moved
  <1>7. PICK n \in 0 .. QueueLength, signalled \in BOOLEAN :
          \E held \in [1 .. n -> Items] :
             /\ \A a, b \in 1 .. n : held[a] = held[b] => a = b
             /\ tail = (head + n) % MaxIndex
             /\ signalled => marker = SIGNAL /\ n = 0
             /\ \A k \in 0 .. QueueLength - 1 :
                  q[(head + k) % QueueLength] =
                    IF k < n THEN held[k + 1]
                    ELSE IF signalled /\ k = 0 THEN SIGNAL ELSE NULL
    BY InitialSlots
  <1>8. PICK held \in [1 .. n -> Items] :
             /\ \A a, b \in 1 .. n : held[a] = held[b] => a = b
             /\ tail = (head + n) % MaxIndex
             /\ signalled => marker = SIGNAL /\ n = 0
             /\ \A k \in 0 .. QueueLength - 1 :
                  q[(head + k) % QueueLength] =
                    IF k < n THEN held[k + 1]
                    ELSE IF signalled /\ k = 0 THEN SIGNAL ELSE NULL
    BY <1>7
  <1>9. NULL \notin Items /\ SIGNAL \notin Items /\ NULL # SIGNAL /\ n \in Nat
    BY QueueAssumption, Sizes
  <1>10. \A k \in 0 .. QueueLength - 1 : q[(head + k) % QueueLength] \in Items <=> k < n
    <2> SUFFICES ASSUME NEW k \in 0 .. QueueLength - 1
                 PROVE  q[(head + k) % QueueLength] \in Items <=> k < n
      OBVIOUS
    <2>1. k < n => k + 1 \in 1 .. n
      BY <1>9
    <2>2. k < n => held[k + 1] \in Items
      BY <2>1
    <2> QED
      BY <1>8, <1>9, <2>2
  <1>11. Length = n
    BY <1>1, <1>10, CountFilled
  <1>12. \A p \in 0 .. QueueLength - 1 :
           \E i \in 0 .. QueueLength - 1 : (head + i) % QueueLength = p
    <2>1. head \in Nat /\ QueueLength \in Nat \ {0}
      BY <1>2, Sizes
    <2> QED
      BY <2>1, Distinct
  <1>13. NextOut = head /\ NextIn = tail /\ \A k : ~Lags(k)
    BY <1>2 DEF NextOut, NextIn, Lags
  <1>14. ASSUME NEW p \in 0 .. QueueLength - 1, q[p] = SIGNAL
         PROVE  marker = SIGNAL /\ Length = 0 /\ p = head % QueueLength
    <2>1. PICK k \in 0 .. QueueLength - 1 : (head + k) % QueueLength = p
      BY <1>12
    <2>2. ~(k < n)
      BY <1>9, <1>10, <1>14, <2>1
    <2>3. signalled /\ k = 0
      BY <1>8, <1>9, <1>14, <2>1, <2>2
    <2>4. head + k = head
      BY <1>2, <2>3
    <2> QED
      BY <1>8, <1>11, <2>1, <2>3, <2>4
  <1>15. Shape
    BY <1>8, <1>10, <1>11, <1>13, <1>14 DEF Shape
  <1>16. ASSUME NEW i \in 0 .. QueueLength - 1, NEW j \in 0 .. QueueLength - 1,
                q[i] = q[j], q[i] \in Items
         PROVE  i = j
    <2>1. PICK a \in 0 .. QueueLength - 1 : (head + a) % QueueLength = i
      BY <1>12
    <2>2. PICK b \in 0 .. QueueLength - 1 : (head + b) % QueueLength = j
      BY <1>12
    <2>3. a < n /\ b < n
      BY <1>10, <1>16, <2>1, <2>2
    <2>4. held[a + 1] = held[b + 1]
      BY <1>8, <1>16, <2>1, <2>2, <2>3
    <2>5. a + 1 \in 1 .. n /\ b + 1 \in 1 .. n
      BY <1>9, <2>3
    <2>6. a + 1 = b + 1
      BY <1>8, <2>4, <2>5
    <2>7. a = b
      BY <2>6
    <2> QED
      BY <2>1, <2>2, <2>7
  <1>17. Unique
    BY <1>2, <1>3, <1>16 DEF Unique
  <1> QED
    BY <1>1, <1>4, <1>5, <1>6, <1>15, <1>17 DEF AtomInv


-----------------------------------------------------------------------------
(***************************************************************************)
(* The abstract queue.                                                     *)
(***************************************************************************)
LEMMA SequenceFacts ==
  ASSUME NEW S, NEW n \in Nat, NEW s \in [1 .. n -> S]
  PROVE  /\ s \in Seq(S) /\ Len(s) = n /\ (s = <<>> <=> n = 0)
         /\ \A x \in S : Append(s, x) = [i \in 1 .. n + 1 |-> IF i <= n THEN s[i] ELSE x]
  <1>1. s \in Seq(S) /\ Len(s) = n /\ DOMAIN s = 1 .. n
    OBVIOUS
  <1>2. s = <<>> <=> n = 0
    BY <1>1, EmptySeq
  <1>3. ASSUME NEW x \in S
        PROVE  Append(s, x) = [i \in 1 .. n + 1 |-> IF i <= n THEN s[i] ELSE x]
    <2>1. /\ Append(s, x) \in Seq(S) /\ Len(Append(s, x)) = n + 1
          /\ \A i \in 1 .. n + 1 : Append(s, x)[i] = IF i <= n THEN s[i] ELSE x
      BY <1>1, AppendProperties
    <2>2. DOMAIN Append(s, x) = 1 .. n + 1 /\ Append(s, x) \in [1 .. n + 1 -> S]
      BY <2>1, LenProperties
    <2> QED
      BY <2>1, <2>2
  <1> QED
    BY <1>1, <1>2, <1>3

LEMMA HeadTailFacts ==
  ASSUME NEW S, NEW n \in Nat, NEW s \in [1 .. n -> S], n > 0
  PROVE  Head(s) = s[1] /\ Tail(s) = [i \in 1 .. n - 1 |-> s[i + 1]]
  <1>1. s \in Seq(S) /\ Len(s) = n /\ s # <<>>
    BY SequenceFacts
  <1>2. Tail(s) \in Seq(S) /\ Len(Tail(s)) = n - 1
          /\ \A i \in 1 .. Len(Tail(s)) : Tail(s)[i] = s[i + 1]
    BY <1>1, HeadTailProperties
  <1>3. DOMAIN Tail(s) = 1 .. n - 1 /\ Tail(s) \in [1 .. n - 1 -> S]
    BY <1>2, LenProperties
  <1>4. Head(s) = s[1]
    BY <1>1
  <1> QED
    BY <1>2, <1>3, <1>4

LEMMA ContentsFacts ==
  AtomInv => /\ Contents \in [1 .. Length -> Items]
             /\ Length \in 0 .. QueueLength /\ Len(Contents) = Length
             /\ Contents = <<>> <=> Length = 0
  <1> SUFFICES ASSUME AtomInv
               PROVE  /\ Contents \in [1 .. Length -> Items]
                      /\ Length \in 0 .. QueueLength /\ Len(Contents) = Length
                      /\ Contents = <<>> <=> Length = 0
    OBVIOUS
  <1>1. ASSUME NEW i \in 1 .. Length
        PROVE  q[(NextOut + (i - 1)) % QueueLength] \in Items
    <2>1. i - 1 \in 0 .. QueueLength - 1 /\ i - 1 < Length
      BY ContentsAre, Sizes
    <2> QED
      BY <2>1, ContentsAre
  <1>2. Contents \in [1 .. Length -> Items]
    BY <1>1, ContentsAre
  <1>3. Length \in Nat /\ Length \in 0 .. QueueLength
    BY ContentsAre, Sizes
  <1> QED
    BY <1>2, <1>3, SequenceFacts

(* A call that has its effect. *)
Settles(c, result) == [c EXCEPT !.effected = TRUE, !.result = result]

LEMMA SettlesFacts ==
  ASSUME NEW K, NEW I, NEW R, NEW r \in R,
         NEW s \in [kind : K, item : I, effected : BOOLEAN, result : R],
         NEW t \in [kind : K, item : I, effected : BOOLEAN, result : R],
         t.kind = s.kind, t.item = s.item, t.effected, t.result = r
  PROVE  t = Settles(s, r)
  <1> DEFINE C == [kind : K, item : I, effected : BOOLEAN, result : R]
             u == [s EXCEPT !.effected = TRUE, !.result = r]
  <1>1. u \in C /\ u.kind = s.kind /\ u.item = s.item /\ u.result = r
    OBVIOUS
  <1>2. u.effected = TRUE /\ t.effected = TRUE
    OBVIOUS
  <1>3. \A x, y \in C : /\ x.kind = y.kind /\ x.item = y.item
                         /\ x.effected = y.effected /\ x.result = y.result
                         => x = y
    OBVIOUS
  <1> HIDE DEF u, C
  <1>4. t.effected = u.effected
    BY <1>2, Zenon
  <1>5. t \in C
    BY DEF C
  <1>6. t = u
    BY <1>1, <1>3, <1>4, <1>5
  <1> QED
    BY <1>6 DEF u, Settles

LEMMA ContentsThen ==
  AtomInv' => (Length \in 0 .. QueueLength /\ (Contents = <<>> <=> Length = 0))'
  BY ContentsFacts, PTL

(* Whoever takes the step, the operation at level p takes its effect.      *)
LEMMA EffectStep ==
  ASSUME AtomInv, AtomInv', NEW p \in Level, marker' = marker,
         \A m \in Level : m # p => des'[m] = des[m] /\ (Taken(des[m])' <=> Taken(des[m])),
         des'[p].kind = des[p].kind, des'[p].item = des[p].item,
         ~Taken(des[p]), Taken(des[p])',
         NEW result, result = Answer(des[p])'
  PROVE  Queue!TakesEffect(p, result)
  <1>1. ~effected(p) /\ effected(p)'
    <2>1. effected(p) <=> Taken(des[p])
      BY EffectedIsTaken
    <2>2. effected(p)' <=> Taken(des[p])'
      BY EffectedStayTaken
    <2> QED
      BY <2>1, <2>2
  <1>2. \A m \in Level : effected(m) \in BOOLEAN /\ effected(m)' \in BOOLEAN
    BY DEF effected
  <1>3. effected(p) = FALSE /\ effected(p)' = TRUE
    BY <1>1, <1>2
  <1> DEFINE K == {des[p].kind}
             I == {des[p].item}
             R == {AbstractCall(p).result, result}
             C == [kind : K, item : I, effected : BOOLEAN, result : R]
  <1>4. AbstractCall(p)' = Settles(AbstractCall(p), result)
    <2>1. (IF effected(p) THEN Answer(des[p]) ELSE NULL)' = result
      BY <1>1
    <2>2. AbstractCall(p) \in C /\ AbstractCall(p).kind = des[p].kind
            /\ AbstractCall(p).item = des[p].item
      BY <1>2 DEF AbstractCall
    <2>3. AbstractCall(p)' \in C /\ AbstractCall(p)'.kind = des[p].kind
            /\ AbstractCall(p)'.item = des[p].item /\ AbstractCall(p)'.effected
            /\ AbstractCall(p)'.result = result
      BY <1>1, <1>2, <2>1 DEF AbstractCall
    <2>4. result \in R
      OBVIOUS
    <2> HIDE DEF K, I, R
    <2>5. /\ AbstractCall(p)'.kind = AbstractCall(p).kind
          /\ AbstractCall(p)'.item = AbstractCall(p).item
      BY <2>2, <2>3
    <2> QED
      BY <2>2, <2>3, <2>4, <2>5, SettlesFacts
  <1>5. ASSUME NEW m \in Level, m # p
        PROVE  AbstractCall(m)' = AbstractCall(m)
    <2>1. des'[m] = des[m] /\ (Taken(des[m])' <=> Taken(des[m]))
      BY <1>5
    <2>2. effected(m)' <=> effected(m)
      <3>1. effected(m) <=> Taken(des[m])
        BY EffectedIsTaken
      <3>2. effected(m)' <=> Taken(des[m])'
        BY EffectedStayTaken
      <3> QED
        BY <2>1, <3>1, <3>2
    <2>3. effected(m)' = effected(m)
      BY <1>2, <2>2
    <2>4. Answer(des[m])' = Answer(des[m])
      BY <2>1 DEF Answer
    <2> QED
      BY <2>1, <2>3, <2>4 DEF AbstractCall
  <1>6. /\ Calls \in [Level -> [kind : {des[m].kind : m \in Level}, item : {des[m].item : m \in Level},
                       effected : BOOLEAN, result : {AbstractCall(m).result : m \in Level}]]
    BY <1>2 DEF Calls, AbstractCall
  <1>7. Calls' = [Calls EXCEPT ![p] = Settles(Calls[p], result)]
    BY <1>4, <1>5 DEF Calls
  <1>8. Calls' = [Calls EXCEPT ![p].effected = TRUE, ![p].result = result]
    BY <1>6, <1>7 DEF Settles
  <1>9. ~Calls[p].effected
    BY <1>3 DEF Calls, AbstractCall
  <1> QED
    BY <1>8, <1>9 DEF Queue!TakesEffect, Calls

LEMMA StutterStep == Stutter => UNCHANGED Queue!vars
  <1> SUFFICES ASSUME Stutter
               PROVE  UNCHANGED Queue!vars
    OBVIOUS
  <1>1. (\E i \in DOMAIN q : q[i] = SIGNAL)' = (\E i \in DOMAIN q : q[i] = SIGNAL)
    BY Zenon DEF Stutter, Signalled
  <1> QED
    BY <1>1 DEF Stutter, Calls, Queue!vars

(* The result that the abstract queue gives.                               *)
LEMMA StoreStep ==
  ASSUME AtomInv, NEW l \in Level, Act(l), Stores(d(l), frame[l].read), reserved
  PROVE  AtomInv' /\ Queue!Next
  <1> DEFINE e == des[pending]
  <1>1. /\ AtomInv' /\ Storing(d(l)) /\ frame[l].target = pending
        /\ \A m \in Level : m # pending => (Taken(des[m])' <=> Taken(des[m]))
        /\ ~Taken(des[pending]) /\ Taken(des[pending])'
    BY ActStoreAtom
  <1>2. e = d(l) /\ Storing(e)
    BY <1>1 DEF d
  <1>3. /\ pending \in Level /\ des' = des /\ marker' = marker /\ marker \in {SIGNAL, NULL}
        /\ e.kind \in {"enqueue", "dequeue"} /\ e.slotReturn \in Slots
        /\ Place(e) \in 0 .. QueueLength - 1 /\ q'[Place(e)] = Effect(e)
        /\ q[Place(e)] = e.slotReturn /\ pending' = pending /\ Changes(e) /\ Sound(e)
    <2>1. /\ pending \in Level /\ marker \in {SIGNAL, NULL}
          /\ e.kind \in {"enqueue", "dequeue"} /\ e.slotReturn \in Slots
          /\ Place(e) \in 0 .. QueueLength - 1 /\ q'[Place(e)] = Effect(e) /\ Sound(e)
      BY <1>2, StoringFacts
    <2> QED
      BY <1>2, <2>1 DEF Storing
  <1>0. PICK p \in Level : p = pending
    BY <1>3
  <1>4. ASSUME NEW result, result = Answer(des[pending])'
        PROVE  Queue!TakesEffect(p, result)
    <2>2. ~Taken(des[p]) /\ Taken(des[p])' /\ result = Answer(des[p])'
      BY <1>0, <1>1, <1>3, <1>4
    <2> QED
      BY <1>0, <1>1, <1>3, <2>2, EffectStep
  <1>5. /\ NULL # SIGNAL /\ NULL \notin Items /\ SIGNAL \notin Items
        /\ DOMAIN q = 0 .. QueueLength - 1 /\ DOMAIN q' = 0 .. QueueLength - 1
    BY <1>1, QueueAssumption, Types DEF AtomInv, FIFOInv, Storing
  <1>6. Calls[p].kind = e.kind /\ Calls[p].item = e.item
    BY <1>0, <1>3 DEF Calls, AbstractCall
  <1>7. /\ Contents \in [1 .. Length -> Items] /\ Length \in 0 .. QueueLength
        /\ Len(Contents) = Length /\ (Contents = <<>> <=> Length = 0)
        /\ Length' \in 0 .. QueueLength /\ (Contents' = <<>> <=> Length' = 0)
        /\ NextOut \in Index
    BY <1>1, ContentsFacts, ContentsThen, ContentsAre
  <1> HIDE DEF e
  <1>8. CASE e.kind = "dequeue" /\ e.slotReturn = NULL
    <2>1. Length = 0 /\ Length' = 0 /\ Effect(e) = SIGNAL /\ marker = SIGNAL
      BY <1>2, <1>8, SignalLeft
    <2>2. Contents = <<>> /\ Contents' = Contents
      BY <1>7, <2>1
    <2>3. Signalled'
      BY <1>3, <1>5, <2>1 DEF Signalled
    <2>4. NULL = Answer(des[pending])'
      BY <1>3, <1>5, <1>8 DEF Answer, e
    <2>5. Queue!TakesEffect(p, NULL)
      BY <1>4, <2>4
    <2>6. Queue!FindEmpty(p)
      BY <1>6, <1>8, <2>1, <2>2, <2>3, <2>5, Zenon DEF Queue!FindEmpty, Calls, Signalled
    <2> QED
      BY <1>1, <2>6 DEF Queue!Next
  <1>9. CASE e.kind = "enqueue" /\ e.slotReturn = SIGNAL
    <2>1. /\ Length = 0 /\ Length' = 0 /\ marker = SIGNAL
          /\ \A i \in 0 .. QueueLength - 1 : q'[i] # SIGNAL
      BY <1>2, <1>9, SignalTaken
    <2>2. Contents' = Contents
      BY <1>7, <2>1
    <2>3. Signalled /\ ~Signalled'
      BY <1>3, <1>5, <1>9, <2>1 DEF Signalled
    <2>4. Answer(des[pending])' <=> TRUE
      BY <1>3, <1>9, <2>1 DEF Answer, e
    <2>5. Queue!TakesEffect(p, TRUE)
      <3>1. TRUE = Answer(des[pending])'
        BY <1>3, <1>9, <2>1, Zenon DEF Answer, e
      <3> QED
        BY <1>4, <3>1, Zenon
    <2>6. Queue!CatchSignal(p)
      BY <1>6, <1>9, <2>2, <2>3, <2>5, Zenon DEF Queue!CatchSignal, Calls, Signalled
    <2> QED
      BY <1>1, <2>6 DEF Queue!Next
  <1>10. CASE e.kind = "dequeue" /\ e.slotReturn \in Items
    <2>1. /\ Length' = Length - 1 /\ Length > 0
          /\ NextOut' = Following(NextOut) /\ Place(e) = NextOut % QueueLength
          /\ \A i \in 0 .. QueueLength - 1 : q'[i] # SIGNAL /\ q[i] # SIGNAL
          /\ Effect(e) = NULL
      BY <1>2, <1>10, ItemTaken
    <2>2. ~Signalled /\ ~Signalled'
      BY <1>5, <2>1 DEF Signalled
    <2>3. Contents[1] = e.slotReturn
      <3>1. 1 \in 1 .. Length /\ NextOut + (1 - 1) = NextOut
        BY <1>7, <2>1 DEF Index
      <3>2. Contents[1] = q[(NextOut + (1 - 1)) % QueueLength]
        BY <3>1, ContentsAre
      <3> QED
        BY <1>3, <2>1, <3>1, <3>2
    <2>4. ASSUME NEW i \in 1 .. Length - 1
          PROVE  q'[(NextOut' + (i - 1)) % QueueLength] = Contents[i + 1]
      <3>1. i - 1 \in Nat /\ (i - 1) + 1 = i /\ i + 1 \in 1 .. Length /\ (i + 1) - 1 = i
            /\ i \in 0 .. QueueLength - 1 /\ i # 0 /\ 0 \in 0 .. QueueLength - 1
            /\ NextOut \in Nat /\ NextOut + 0 = NextOut
        BY <1>7, Sizes DEF Index
      <3>2. (NextOut' + (i - 1)) % QueueLength = (NextOut + i) % QueueLength
        BY <1>7, <2>1, <3>1, FollowingFacts
      <3>3. Contents[i + 1] = q[(NextOut + i) % QueueLength]
        BY <3>1, ContentsAre
      <3>4. (NextOut + i) % QueueLength # (NextOut + 0) % QueueLength
        <4>1. PICK z \in 0 .. QueueLength - 1 : z = 0
          BY <3>1
        <4>2. QueueLength \in Nat \ {0} /\ NextOut \in Nat /\ i # z
          BY <3>1, <4>1, Sizes
        <4>3. (NextOut + i) % QueueLength # (NextOut + z) % QueueLength
          BY <3>1, <4>2, Distinct
        <4> QED
          BY <4>1, <4>3
      <3>5. (NextOut + i) % QueueLength \in 0 .. QueueLength - 1
        <4>1. NextOut + i \in Nat
          BY <3>1
        <4> QED
          BY <4>1, IndexFacts
      <3>6. q'[(NextOut + i) % QueueLength] = q[(NextOut + i) % QueueLength]
        BY <1>2, <2>1, <3>1, <3>4, <3>5, StoringFacts
      <3> QED
        BY <3>2, <3>3, <3>6
    <2>5. Contents' = [i \in 1 .. Length - 1 |-> Contents[i + 1]]
      <3>1. Contents' = [i \in 1 .. Length' |-> q'[(NextOut' + (i - 1)) % QueueLength]]
        BY <1>1, ContentsStay
      <3> QED
        BY <2>1, <2>4, <3>1
    <2>6. Contents' = Tail(Contents) /\ Head(Contents) = e.slotReturn /\ Contents # <<>>
      <3>1. Length \in Nat /\ Length > 0 /\ Contents \in [1 .. Length -> Items]
        BY <1>7, <2>1
      <3>2. /\ Head(Contents) = Contents[1]
            /\ Tail(Contents) = [i \in 1 .. Length - 1 |-> Contents[i + 1]]
        BY <3>1, HeadTailFacts
      <3> QED
        BY <1>7, <2>1, <2>3, <2>5, <3>1, <3>2
    <2>7. Head(Contents) = Answer(des[pending])'
      BY <1>3, <1>5, <1>10, <2>6 DEF Answer, e
    <2>8. Queue!TakesEffect(p, Head(Contents))
      BY <1>4, <2>7
    <2>9. Queue!Remove(p)
      BY <1>6, <1>10, <2>2, <2>6, <2>8, Zenon DEF Queue!Remove, Calls, Signalled
    <2> QED
      BY <1>1, <2>9 DEF Queue!Next
  <1>11. CASE e.kind = "enqueue" /\ e.slotReturn = NULL
    <2>1. /\ Length' = Length + 1 /\ Length < QueueLength /\ Effect(e) = e.item
          /\ NextOut' = NextOut /\ Place(e) = (NextOut + Length) % QueueLength
          /\ e.item \in Items
          /\ \A i \in 0 .. QueueLength - 1 : q'[i] # SIGNAL /\ q[i] # SIGNAL
      BY <1>2, <1>11, ItemPut
    <2>2. ~Signalled /\ ~Signalled'
      BY <1>5, <2>1 DEF Signalled
    <2>4. ASSUME NEW i \in 1 .. Length + 1
          PROVE  q'[(NextOut + (i - 1)) % QueueLength] =
                   IF i <= Length THEN Contents[i] ELSE e.item
      <3>1. /\ i - 1 \in 0 .. QueueLength - 1 /\ Length \in 0 .. QueueLength - 1
            /\ NextOut \in Nat /\ Length \in Nat
        BY <1>7, <2>1, Sizes DEF Index
      <3>2. CASE i <= Length
        <4>1. Contents[i] = q[(NextOut + (i - 1)) % QueueLength]
          BY <3>2, ContentsAre
        <4>2. (NextOut + (i - 1)) % QueueLength # (NextOut + Length) % QueueLength
          <5>1. QueueLength \in Nat \ {0} /\ i - 1 # Length
            BY <3>1, <3>2, Sizes
          <5> QED
            BY <3>1, <5>1, Distinct
        <4>3. (NextOut + (i - 1)) % QueueLength \in 0 .. QueueLength - 1
          <5>1. NextOut + (i - 1) \in Nat
            BY <3>1
          <5> QED
            BY <5>1, IndexFacts
        <4>4. q'[(NextOut + (i - 1)) % QueueLength] = q[(NextOut + (i - 1)) % QueueLength]
          BY <1>2, <2>1, <4>2, <4>3, StoringFacts
        <4> QED
          BY <3>2, <4>1, <4>4
      <3>3. CASE ~(i <= Length)
        <4>1. i - 1 = Length
          BY <3>1, <3>3
        <4> QED
          BY <1>3, <2>1, <3>3, <4>1
      <3> QED
        BY <3>2, <3>3
    <2>5. Contents' = [i \in 1 .. Length + 1 |-> IF i <= Length THEN Contents[i] ELSE e.item]
      <3>1. Contents' = [i \in 1 .. Length' |-> q'[(NextOut' + (i - 1)) % QueueLength]]
        BY <1>1, ContentsStay
      <3> QED
        BY <2>1, <2>4, <3>1
    <2>6. Contents' = Append(Contents, e.item)
      <3>1. Length \in Nat
        BY <1>7, Sizes
      <3> QED
        BY <1>7, <2>1, <2>5, <3>1, SequenceFacts
    <2>7. (marker = NULL) = Answer(des[pending])'
      BY <1>3, <1>11, Zenon DEF Answer, e
    <2>8. Queue!TakesEffect(p, marker = NULL)
      BY <1>4, <2>7, Zenon
    <2>9. Len(Contents) < QueueLength
      BY <1>7, <2>1
    <2>10. Queue!Insert(p)
      BY <1>6, <1>11, <2>2, <2>6, <2>8, <2>9, Zenon DEF Queue!Insert, Calls, Signalled
    <2> QED
      BY <1>1, <2>10 DEF Queue!Next
  <1>12. /\ e.kind = "dequeue" => e.slotReturn = NULL \/ e.slotReturn \in Items
         /\ e.kind = "enqueue" => e.slotReturn = SIGNAL \/ e.slotReturn = NULL
    <2>1. Known(e) /\ Changes(e)
      BY <1>2 DEF Storing
    <2>2. e.kind = "dequeue" => e.slotReturn # SIGNAL
      BY <1>3, <2>1 DEF Sound
    <2> QED
      BY <1>3, <2>1, <2>2 DEF Changes, Slots
  <1> QED
    BY <1>3, <1>8, <1>9, <1>10, <1>11, <1>12

LEMMA SoundAre == AtomInv => \A m \in Level : des[m] \in Descriptors /\ Sound(des[m])
  BY Types DEF AtomInv, FIFOInv, Described

LEMMA SoundThen == AtomInv' => (\A m \in Level : des[m] \in Descriptors /\ Sound(des[m]))'
  BY SoundAre, PTL

(* The last field decides an operation that has nothing to store.          *)
LEMMA FieldStep ==
  ASSUME AtomInv, NEW l \in Level, StoreField(l)
  PROVE  AtomInv' /\ (Queue!Next \/ UNCHANGED Queue!vars)
  <1>1. /\ AtomInv' /\ UNCHANGED <<marker, Contents>> /\ (Signalled' <=> Signalled)
        /\ \A m \in Level : m # frame[l].target =>
             des'[m] = des[m] /\ (Taken(des[m])' <=> Taken(des[m]))
    BY StoreFieldAtom
  <1>2. CASE Stutter
    BY <1>1, <1>2, StutterStep
  <1>3. CASE ~Stutter
    <2>1. /\ ~Known(d(l)) /\ Known(des'[frame[l].target])
          /\ frame[l].target = pending /\ pending # NULL
          /\ des'[pending].kind = des[pending].kind
          /\ des'[pending].item = des[pending].item
          /\ ~des'[pending].done /\ des'[pending].slotReturn \in Slots
          /\ des'[pending].index = IndexOf(des'[pending])
          /\ q[Place(des'[pending])] = des'[pending].slotReturn
          /\ des[pending].kind \in {"enqueue", "dequeue"}
          /\ UNCHANGED <<q, head, tail, pending>>
      BY <1>3, StoreFieldAtom
    <2>2. PICK p \in Level : p = pending
      BY <2>1, PostedFacts
    <2>3. PICK e : e = des'[p]
      OBVIOUS
    <2>4. /\ ~Known(des[p]) /\ Known(e) /\ e.kind = des[p].kind /\ e.item = des[p].item
          /\ ~e.done /\ e.slotReturn \in Slots /\ e.index = IndexOf(e)
          /\ q[Place(e)] = e.slotReturn /\ e.kind \in {"enqueue", "dequeue"}
          /\ frame[l].target = p
      BY <2>1, <2>2, <2>3 DEF d
    <2>5. /\ Known(des[p])' /\ (Taken(des[p])' <=> ~Changes(e) \/ q[Place(e)] = Effect(e))
          /\ ~Taken(des[p])
      BY <1>1, <2>1, <2>3, <2>4 DEF Taken, Known, Closed, Changes, Place, Effect, Stored
    <2>6. \A m \in Level : m # p =>
            des'[m] = des[m] /\ (Taken(des[m])' <=> Taken(des[m]))
      BY <1>1, <2>4
    <2>7. /\ NULL # SIGNAL /\ NULL \notin Items /\ SIGNAL \notin Items
          /\ DOMAIN q = 0 .. QueueLength - 1 /\ marker \in {SIGNAL, NULL}
          /\ head \in Index /\ tail \in Index
      BY QueueAssumption, Types DEF AtomInv, FIFOInv, TypeOK
    <2>8. /\ Length \in 0 .. QueueLength /\ Len(Contents) = Length
          /\ (Contents = <<>> <=> Length = 0)
          /\ \A i \in 0 .. QueueLength - 1 :
               q[(NextOut + i) % QueueLength] \in Items <=> i < Length
          /\ NextIn = (NextOut + Length) % MaxIndex
          /\ Signalled => marker = SIGNAL
      BY <2>7, ContentsFacts DEF AtomInv, Shape, Signalled
    <2>9. NextOut = head /\ NextIn = tail
      BY <2>2, <2>4 DEF NextOut, NextIn, Lags
    <2>10. Calls[p].kind = e.kind /\ Calls[p].item = e.item
      BY <2>4 DEF Calls, AbstractCall
    <2>11. ASSUME ~Changes(e), NEW result, result = Answer(des[p])'
           PROVE  Queue!TakesEffect(p, result)
      <3>1. Taken(des[p])'
        BY <2>5, <2>11
      <3> QED
        BY <1>1, <2>3, <2>4, <2>5, <2>6, <2>11, <3>1, EffectStep
    <2>12. CASE ~Changes(e) /\ e.kind = "dequeue"
      <3>1. e.slotReturn = marker
        BY <2>12 DEF Changes
      <3>2. q[head % QueueLength] = marker
        BY <2>4, <2>12, <3>1 DEF Place, IndexOf
      <3>3. Length = 0
        <4>1. 0 \in 0 .. QueueLength - 1 /\ head + 0 = head
          BY <2>7, Sizes DEF Index
        <4>2. ~(0 < Length)
          BY <2>7, <2>8, <2>9, <3>2, <4>1
        <4> QED
          BY <2>8, <4>2
      <3>4. Signalled' <=> marker = SIGNAL
        <4>1. head % QueueLength \in DOMAIN q
          BY <2>7, IndexFacts DEF Index
        <4>2. marker = SIGNAL => Signalled
          BY <3>2, <4>1 DEF Signalled
        <4> QED
          BY <1>1, <2>8, <4>2
      <3>5. NULL = Answer(des[p])'
        BY <2>3, <2>7, <2>12, <3>1 DEF Answer
      <3>6. Queue!TakesEffect(p, NULL)
        BY <2>11, <2>12, <3>5
      <3>7. Queue!FindEmpty(p)
        BY <1>1, <2>8, <2>10, <2>12, <3>3, <3>4, <3>6, Zenon
           DEF Queue!FindEmpty, Calls, Signalled
      <3> QED
        BY <1>1, <3>7 DEF Queue!Next
    <2>13. CASE ~Changes(e) /\ e.kind = "enqueue"
      <3>1. e.slotReturn \in Items
        BY <2>4, <2>13 DEF Changes, Slots
      <3>2. q[tail % QueueLength] \in Items
        BY <2>4, <2>7, <2>13, <3>1 DEF Place, IndexOf
      <3>3. Length = QueueLength
        <4> SUFFICES ASSUME Length \in 0 .. QueueLength - 1
                     PROVE  FALSE
          BY <2>8, Sizes
        <4>1. tail % QueueLength = (head + Length) % QueueLength
          <5>1. Length \in 0 .. MaxIndex
            BY Sizes
          <5> QED
            BY <2>7, <2>8, <2>9, <5>1, WrapSlot
        <4>2. Length < Length
          BY <2>8, <2>9, <3>2, <4>1
        <4> QED
          BY <4>2
      <3>4. FALSE = Answer(des[p])'
        <4>1. e.slotReturn # marker /\ marker' = marker /\ des'[p].kind = "enqueue"
          BY <1>1, <2>3, <2>7, <2>13, <3>1
        <4>2. (e.slotReturn = marker) = FALSE
          BY <4>1
        <4>3. Answer(des[p])' = (e.slotReturn = marker)
          BY <2>3, <4>1, Zenon DEF Answer
        <4> QED
          BY <4>2, <4>3, Zenon
      <3>5. Queue!TakesEffect(p, FALSE)
        BY <2>11, <2>13, <3>4, Zenon
      <3>6. Len(Contents) = QueueLength
        BY <2>8, <3>3
      <3>7. UNCHANGED <<Contents, \E i \in DOMAIN q : q[i] = SIGNAL>>
        BY <1>1, Zenon DEF Signalled
      <3>8. Queue!Refuse(p)
        BY <2>10, <2>13, <3>5, <3>6, <3>7, Zenon DEF Queue!Refuse, Calls
      <3> QED
        BY <1>1, <3>8 DEF Queue!Next
    <2>14. CASE Changes(e)
      <3>1. e \in Descriptors /\ Sound(e)
        <4>1. (\A m \in Level : des[m] \in Descriptors /\ Sound(des[m]))'
          BY <1>1, SoundThen
        <4>2. (Sound(des[p]))' => Sound(e)
          BY <1>1, <2>3 DEF Sound, InOrder, Known, Changes
        <4> QED
          BY <2>3, <4>1, <4>2
      <3>2. Effect(e) # e.slotReturn
        BY <2>4, <2>7, <2>14, <3>1, Deciding
      <3>3. ~Taken(des[p])'
        BY <2>4, <2>5, <2>14, <3>2
      <3>4. UNCHANGED Calls
        BY <1>1, <2>3, <2>4, <2>5, <2>6, <3>3, CallsStay
      <3> QED
        BY <1>1, <1>3, <3>4 DEF Stutter
    <2> QED
      BY <2>4, <2>12, <2>13, <2>14
  <1> QED
    BY <1>2, <1>3

(* The calls of a level that begins or ends an operation.                  *)
LEMMA OtherCalls ==
  ASSUME AtomInv, AtomInv', NEW l \in Level, marker' = marker,
         \A m \in Level : m # l => des'[m] = des[m] /\ (Taken(des[m])' <=> Taken(des[m]))
  PROVE  Calls' = [Calls EXCEPT ![l] = AbstractCall(l)']
  <1>1. ASSUME NEW m \in Level, m # l
        PROVE  AbstractCall(m)' = AbstractCall(m)
    <2>1. des'[m] = des[m] /\ (Taken(des[m])' <=> Taken(des[m]))
      BY <1>1
    <2>2. effected(m)' <=> effected(m)
      <3>1. effected(m) <=> Taken(des[m])
        BY EffectedIsTaken
      <3>2. effected(m)' <=> Taken(des[m])'
        BY EffectedStayTaken
      <3> QED
        BY <2>1, <3>1, <3>2
    <2>3. effected(m)' = effected(m)
      <3>1. effected(m) \in BOOLEAN /\ effected(m)' \in BOOLEAN
        BY DEF effected
      <3> QED
        BY <2>2, <3>1
    <2>4. Answer(des[m])' = Answer(des[m])
      BY <2>1 DEF Answer
    <2> QED
      BY <2>1, <2>3, <2>4 DEF AbstractCall
  <1> QED
    BY <1>1 DEF Calls

(* Nothing is effected before the descriptor is filled in.                 *)
LEMMA Undone ==
  ASSUME NEW l \in Level, NEW kind, NEW item, des[l] = Descriptor(kind, item)
  PROVE  AbstractCall(l) = [kind |-> kind, item |-> item, effected |-> FALSE, result |-> NULL]
  <1>1. ~effected(l) /\ des[l].kind = kind /\ des[l].item = item
    BY DEF effected, Descriptor
  <1>2. effected(l) = FALSE
    <2>1. effected(l) \in BOOLEAN
      BY DEF effected
    <2> QED
      BY <1>1, <2>1
  <1>3. (IF effected(l) THEN Answer(des[l]) ELSE NULL) = NULL
    BY <1>1
  <1> QED
    BY <1>1, <1>2, <1>3, Zenon DEF AbstractCall

LEMMA UndoneThen ==
  ASSUME NEW l \in Level, NEW kind, NEW item, des'[l] = Descriptor(kind, item)
  PROVE  AbstractCall(l)' = [kind |-> kind, item |-> item, effected |-> FALSE, result |-> NULL]
  <1>1. ~effected(l)' /\ des'[l].kind = kind /\ des'[l].item = item
    BY DEF effected, Descriptor
  <1>2. effected(l)' = FALSE
    <2>1. effected(l)' \in BOOLEAN
      BY DEF effected
    <2> QED
      BY <1>1, <2>1
  <1>3. (IF effected(l) THEN Answer(des[l]) ELSE NULL)' = NULL
    BY <1>1
  <1> QED
    BY <1>1, <1>2, <1>3, Zenon DEF AbstractCall

Called(kind, item) ==
  IF kind = "enqueue" THEN [Queue!NoCall EXCEPT !.kind = "enqueue", !.item = item]
  ELSE [Queue!NoCall EXCEPT !.kind = "dequeue"]

LEMMA CalledFacts ==
  ASSUME NEW item, NEW kind \in {"enqueue", "dequeue"}, kind = "dequeue" => item = NULL
  PROVE  Called(kind, item) =
           [kind |-> kind, item |-> item, effected |-> FALSE, result |-> NULL]
  <1> DEFINE K == {"none", "enqueue", "dequeue"}
             C == [kind : K, item : {NULL, item}, effected : BOOLEAN, result : {NULL}]
             n == Queue!NoCall
             t == [n EXCEPT !.kind = "enqueue", !.item = item]
             s == [n EXCEPT !.kind = "dequeue"]
             u == [kind |-> kind, item |-> item, effected |-> FALSE, result |-> NULL]
  <1>1. n \in C /\ n.item = NULL /\ n.effected = FALSE /\ n.result = NULL
    BY DEF Queue!NoCall
  <1>2. u \in C /\ u.kind = kind /\ u.item = item /\ u.effected = FALSE /\ u.result = NULL
    OBVIOUS
  <1> HIDE DEF n, u
  <1>3. t \in C /\ t.kind = "enqueue" /\ t.item = item /\ t.effected = n.effected
    BY <1>1
  <1>4. s \in C /\ s.kind = "dequeue" /\ s.item = n.item /\ s.effected = n.effected
    BY <1>1
  <1>5. \A x, y \in C : x.kind = y.kind /\ x.item = y.item /\ x.effected = y.effected => x = y
    OBVIOUS
  <1> HIDE DEF t, s, C
  <1>6. t.effected = u.effected /\ s.effected = u.effected
    BY <1>1, <1>2, <1>3, <1>4, Zenon
  <1>7. (kind = "enqueue" => t = u) /\ (kind = "dequeue" => s = u)
    BY <1>1, <1>2, <1>3, <1>4, <1>5, <1>6
  <1> QED
    BY <1>7 DEF t, s, u, n, Called

LEMMA NewCall ==
  ASSUME AtomInv, NEW l \in Level,
         NEW kind \in {"enqueue", "dequeue"}, NEW item \in Items \cup {NULL},
         AtomInv', UNCHANGED <<marker, Contents>>, Signalled' <=> Signalled,
         \A m \in Level : m # l =>
           des'[m] = des[m] /\ (Taken(des[m])' <=> Taken(des[m])),
         des[l] = Descriptor("none", NULL), des'[l] = Descriptor(kind, item)
  PROVE  /\ Calls[l] = Queue!NoCall
         /\ Calls' = [Calls EXCEPT ![l] = [kind |-> kind, item |-> item,
                                           effected |-> FALSE, result |-> NULL]]
         /\ UNCHANGED <<marker, Contents, \E i \in DOMAIN q : q[i] = SIGNAL>>
  <1>1. Calls[l] = Queue!NoCall
    BY Undone DEF Calls, Queue!NoCall
  <1>2. Calls' = [Calls EXCEPT ![l] = AbstractCall(l)']
    BY OtherCalls
  <1>3. AbstractCall(l)' = [kind |-> kind, item |-> item, effected |-> FALSE, result |-> NULL]
    BY UndoneThen
  <1>4. UNCHANGED <<marker, Contents, \E i \in DOMAIN q : q[i] = SIGNAL>>
    BY Zenon DEF Signalled
  <1> QED
    BY <1>1, <1>2, <1>3, <1>4

LEMMA EnqueueStep ==
  ASSUME AtomInv, NEW l \in Level, NEW item \in Items, Enqueue(l, item)
  PROVE  AtomInv' /\ Queue!Next
  <1>1. /\ AtomInv' /\ UNCHANGED <<marker, Contents>> /\ (Signalled' <=> Signalled)
        /\ \A m \in Level : m # l => des'[m] = des[m] /\ (Taken(des[m])' <=> Taken(des[m]))
        /\ des[l] = Descriptor("none", NULL) /\ des'[l] = Descriptor("enqueue", item)
    BY StartAtom DEF Enqueue
  <1>2. /\ Calls[l] = Queue!NoCall
        /\ Calls' = [Calls EXCEPT ![l] = [kind |-> "enqueue", item |-> item,
                                          effected |-> FALSE, result |-> NULL]]
        /\ UNCHANGED <<marker, Contents, \E i \in DOMAIN q : q[i] = SIGNAL>>
    BY <1>1, NewCall
  <1>3. Queue!Enqueue(l, item)
    <2>1. Called("enqueue", item) =
            [kind |-> "enqueue", item |-> item, effected |-> FALSE, result |-> NULL]
      BY CalledFacts
    <2>2. Called("enqueue", item) = [Queue!NoCall EXCEPT !.kind = "enqueue", !.item = item]
      BY Zenon DEF Called
    <2> QED
      BY <1>2, <2>1, <2>2, Zenon DEF Queue!Enqueue, Calls
  <1> QED
    BY <1>1, <1>3 DEF Queue!Next

LEMMA DequeueStep ==
  ASSUME AtomInv, NEW l \in Level, Dequeue(l)
  PROVE  AtomInv' /\ Queue!Next
  <1>1. /\ AtomInv' /\ UNCHANGED <<marker, Contents>> /\ (Signalled' <=> Signalled)
        /\ \A m \in Level : m # l => des'[m] = des[m] /\ (Taken(des[m])' <=> Taken(des[m]))
        /\ des[l] = Descriptor("none", NULL) /\ des'[l] = Descriptor("dequeue", NULL)
    BY StartAtom, QueueAssumption DEF Dequeue
  <1>2. /\ Calls[l] = Queue!NoCall
        /\ Calls' = [Calls EXCEPT ![l] = [kind |-> "dequeue", item |-> NULL,
                                          effected |-> FALSE, result |-> NULL]]
        /\ UNCHANGED <<marker, Contents, \E i \in DOMAIN q : q[i] = SIGNAL>>
    BY <1>1, NewCall
  <1>3. Queue!Dequeue(l)
    <2>1. Called("dequeue", NULL) =
            [kind |-> "dequeue", item |-> NULL, effected |-> FALSE, result |-> NULL]
      BY CalledFacts
    <2>2. Called("dequeue", NULL) = [Queue!NoCall EXCEPT !.kind = "dequeue"]
      BY DEF Called
    <2> QED
      BY <1>2, <2>1, <2>2, Zenon DEF Queue!Dequeue, Calls
  <1> QED
    BY <1>1, <1>3 DEF Queue!Next

(* Its operation has had its effect.                                       *)
LEMMA ReturnedStep ==
  ASSUME AtomInv, NEW l \in Level, Return(l)
  PROVE  AtomInv' /\ Queue!Next
  <1>1. /\ AtomInv' /\ UNCHANGED <<marker, Contents>> /\ (Signalled' <=> Signalled)
        /\ \A m \in Level : m # l => des'[m] = des[m] /\ (Taken(des[m])' <=> Taken(des[m]))
        /\ Taken(des[l]) /\ des'[l] = Descriptor("none", NULL)
    BY ReturnAtom
  <1>2. Calls' = [Calls EXCEPT ![l] = AbstractCall(l)']
    BY <1>1, OtherCalls
  <1>3. AbstractCall(l)' = Queue!NoCall
    BY <1>1, UndoneThen DEF Queue!NoCall
  <1>4. Calls[l].effected
    <2>1. effected(l)
      BY <1>1, EffectedIsTaken
    <2> QED
      BY <2>1 DEF Calls, AbstractCall
  <1>5. UNCHANGED <<marker, Contents, \E i \in DOMAIN q : q[i] = SIGNAL>>
    BY <1>1, Zenon DEF Signalled
  <1>6. Queue!Return(l)
    BY <1>2, <1>3, <1>4, <1>5, Zenon DEF Queue!Return, Calls
  <1> QED
    BY <1>1, <1>6 DEF Queue!Next

(* Every step of the FIFO is a step of the abstract queue, or none.        *)
LEMMA AtomStep ==
  ASSUME AtomInv, [Next]_vars
  PROVE  AtomInv' /\ [Queue!Next]_(Queue!vars)
  <1>1. ASSUME NEW l \in Level, Step(l)
        PROVE  AtomInv' /\ (Queue!Next \/ Stutter \/ UNCHANGED Queue!vars)
    <2>1. CASE ReadPending(l) \/ Post(l) \/ TestField(l) \/ LoadField(l) \/ OpenLoop(l)
      BY <2>1, ReadPendingAtom, PostAtom, TestFieldAtom, LoadFieldAtom, OpenLoopAtom
    <2>2. CASE LoadLinked(l) \/ CheckDone(l) \/ LinkIndex(l) \/ MarkDone(l) \/ Withdraw(l)
      BY <2>2, LoadLinkedAtom, CheckDoneAtom, LinkIndexAtom, MarkDoneAtom, WithdrawAtom
    <2>3. CASE StoreField(l)
      BY <2>3, FieldStep
    <2>4. CASE Act(l)
      BY <2>4, ActNoStore, StoreStep
    <2>5. CASE MoveIndex(l)
      BY <2>5, MoveIndexFails, MoveIndexMoves
    <2>6. CASE Return(l)
      BY <2>6, ReturnedStep
    <2> QED
      BY <1>1, <2>1, <2>2, <2>3, <2>4, <2>5, <2>6 DEF Step
  <1>2. ASSUME NEW l \in Level, NEW item \in Items, Enqueue(l, item)
        PROVE  AtomInv' /\ Queue!Next
    BY <1>2, EnqueueStep
  <1>3. ASSUME NEW l \in Level, Dequeue(l)
        PROVE  AtomInv' /\ Queue!Next
    BY <1>3, DequeueStep
  <1>4. CASE Interrupt \/ UNCHANGED vars
    <2>1. FIFOInv' /\ calls \in 0 .. MaxCalls
      BY FIFOStep, Types DEF AtomInv, FIFOInv
    <2>2. UNCHANGED <<marker, q, head, tail, pending, des, frame>> /\ (reserved' => reserved)
      BY <1>4 DEF Interrupt, queue, vars
    <2>3. calls' \in Nat /\ calls' >= calls
      BY <1>4, <2>1, Sizes DEF Interrupt, vars
    <2> QED
      BY <2>1, <2>2, <2>3, IdleAtom, StutterStep
  <1> QED
    BY <1>1, <1>2, <1>3, <1>4, StutterStep DEF Next

LEMMA InitStep == Init => Queue!Init
  <1> SUFFICES ASSUME Init
               PROVE  Queue!Init
    OBVIOUS
  <1>1. AtomInv
    BY AtomInit
  <1>2. Contents \in [1 .. Length -> Items] /\ Length \in 0 .. QueueLength
        /\ (Contents = <<>> <=> Length = 0)
    BY <1>1, ContentsFacts
  <1>3. Calls = [l \in Level |-> Queue!NoCall]
    <2>1. ASSUME NEW l \in Level
          PROVE  AbstractCall(l) = Queue!NoCall
      <3>1. des[l] = Descriptor("none", NULL)
        BY DEF Init
      <3> QED
        BY <3>1, Undone DEF Queue!NoCall
    <2> QED
      BY <2>1 DEF Calls
  <1>4. Signalled => marker = SIGNAL /\ Contents = <<>>
    <2>1. DOMAIN q = 0 .. QueueLength - 1
      BY <1>1, Types DEF AtomInv, FIFOInv
    <2> QED
      BY <1>1, <1>2, <2>1 DEF Signalled, AtomInv, Shape
  <1>5. (\E i \in DOMAIN q : q[i] = SIGNAL) \in BOOLEAN
    OBVIOUS
  <1>6. Contents \in UNION {[1 .. n -> Items] : n \in 0 .. QueueLength}
    BY <1>2
  <1>7. marker \in {SIGNAL, NULL}
    BY DEF Init
  <1> QED
    BY <1>3, <1>4, <1>5, <1>6, <1>7, Zenon DEF Queue!Init, Calls, Signalled

(* In every execution, for any nesting of any number of operations on a    *)
(* queue of any length: FIFOEnqueue and FIFODequeue take effect once, at   *)
(* one instant between their call and their return, whoever completes      *)
(* them, on a queue that keeps its items in their order or one signal; and *)
(* their answer is that instant's.                                         *)
THEOREM Atomic == Spec => AtomicQueue
  BY InitStep, AtomInit, AtomStep, PTL DEF Spec, AtomicQueue, Queue!Spec

(* The places of the array, from Head on.                                  *)
LEMMA PlaceFrom ==
  ASSUME NEW n \in Nat \ {0}, NEW a \in Nat, NEW i \in 0 .. n - 1
  PROVE  LET k == ((i + n) - (a % n)) % n
         IN  k \in 0 .. n - 1 /\ (a + k) % n = i /\ (k = 0 <=> i = a % n)
  <1> DEFINE r == a % n
             k == ((i + n) - r) % n
  <1>1. r \in 0 .. n - 1
    BY Division
  <1>2. \A j \in 0 .. n : (a + j) % n = IF r + j < n THEN r + j ELSE (r + j) - n
    BY Offset
  <1> HIDE DEF r
  <1>3. CASE i >= r
    <2> DEFINE d0 == i - r
    <2>1. d0 \in 0 .. n - 1 /\ (i + n) - r = n * 1 + d0
      BY <1>1, <1>3
    <2>2. (n * 1 + d0) % n = d0
      <3> HIDE DEF d0
      <3> QED
        BY <2>1, Remainder
    <2>3. k = d0
      BY <2>1, <2>2
    <2>4. d0 \in 0 .. n /\ r + d0 = i /\ i < n /\ (d0 = 0 <=> i = r)
      BY <1>1, <1>3
    <2> HIDE DEF k
    <2>5. (a + d0) % n = i
      BY <1>2, <2>4
    <2> QED
      BY <2>1, <2>3, <2>4, <2>5 DEF k, r
  <1>4. CASE ~(i >= r)
    <2> DEFINE d0 == (i + n) - r
    <2>1. d0 \in 0 .. n - 1 /\ d0 = n * 0 + d0
      BY <1>1, <1>4
    <2>2. (n * 0 + d0) % n = d0
      <3> HIDE DEF d0
      <3> QED
        BY <2>1, Remainder
    <2>3. k = d0
      BY <2>1, <2>2
    <2>4. d0 \in 0 .. n /\ r + d0 = i + n /\ (r + d0) - n = i /\ ~(r + d0 < n) /\ d0 # 0
          /\ i # r
      BY <1>1, <1>4
    <2> HIDE DEF k
    <2>5. (a + d0) % n = i
      BY <1>2, <2>4
    <2> QED
      BY <2>1, <2>3, <2>4, <2>5 DEF k, r
  <1> QED
    BY <1>3, <1>4

Quiet == \A l \in Level : ~Active(l)

LEMMA QuietRests == AtomInv /\ Quiet => pending = NULL /\ AtRest
  <1> SUFFICES ASSUME AtomInv, Quiet
               PROVE  pending = NULL /\ AtRest
    OBVIOUS
  <1>1. pending = NULL
    <2> SUFFICES ASSUME pending # NULL
                 PROVE  FALSE
      OBVIOUS
    <2>1. pending \in Level
      BY Types DEF AtomInv, FIFOInv, TypeOK
    <2>2. frame[pending].pc \in Prologue \cup Loop \cup {"withdraw"}
      BY DEF AtomInv, FIFOInv, Posted
    <2>3. frame[pending].pc = "idle"
      BY <2>1 DEF Quiet, Active
    <2> QED
      BY <2>2, <2>3 DEF Prologue, Loop
  <1>2. NextOut = head /\ NextIn = tail
    BY <1>1 DEF NextOut, NextIn, Lags
  <1>3. /\ head \in Nat /\ DOMAIN q = 0 .. QueueLength - 1
        /\ Length \in 0 .. QueueLength /\ Length \in Nat /\ QueueLength \in Nat \ {0}
        /\ q \in [0 .. QueueLength - 1 -> Slots]
    BY Types, FilledFacts, Sizes DEF AtomInv, FIFOInv, Index
  <1>4. /\ tail = (head + Length) % MaxIndex
        /\ \A i \in 0 .. QueueLength - 1 :
             q[(head + i) % QueueLength] \in Items <=> i < Length
        /\ \A i \in 0 .. QueueLength - 1 :
             q[i] = SIGNAL => marker = SIGNAL /\ Length = 0 /\ i = head % QueueLength
    BY <1>2 DEF AtomInv, Shape
  <1> DEFINE held == [k \in 1 .. Length |-> q[(head + (k - 1)) % QueueLength]]
             signalled == \E i \in 0 .. QueueLength - 1 : q[i] = SIGNAL
  <1>5. \A k \in 1 .. Length : k - 1 \in 0 .. QueueLength - 1 /\ k - 1 < Length
                                /\ (head + (k - 1)) % QueueLength \in 0 .. QueueLength - 1
    <2>1. \A k \in 1 .. Length : k - 1 \in 0 .. QueueLength - 1 /\ k - 1 < Length
                                  /\ head + (k - 1) \in Nat
      BY <1>3
    <2> QED
      BY <2>1, IndexFacts
  <1>6. held \in [1 .. Length -> Items]
    BY <1>4, <1>5
  <1>7. IsInjective(held)
    <2> SUFFICES ASSUME NEW a \in 1 .. Length, NEW b \in 1 .. Length, held[a] = held[b]
                 PROVE  a = b
      BY DEF IsInjective
    <2>1. (head + (a - 1)) % QueueLength = (head + (b - 1)) % QueueLength
      BY <1>4, <1>5 DEF AtomInv, Unique
    <2>2. a - 1 = b - 1
      BY <1>3, <1>5, <2>1, Distinct
    <2> QED
      BY <2>2
  <1>8. Len(held) = Length
    BY <1>3, <1>6
  <1>9. signalled => marker = SIGNAL /\ held = <<>>
    <2> SUFFICES ASSUME signalled
                 PROVE  marker = SIGNAL /\ held = <<>>
      OBVIOUS
    <2>1. marker = SIGNAL /\ Length = 0
      BY <1>4
    <2> QED
      BY <1>6, <2>1
  <1>10. ASSUME NEW i \in 0 .. QueueLength - 1
         PROVE  q[i] =
                  LET place == 1 + (((i + QueueLength) - (head % QueueLength)) % QueueLength)
                  IN IF place <= Len(held) THEN held[place]
                     ELSE IF signalled /\ place = 1 THEN SIGNAL ELSE NULL
    <2> DEFINE k == ((i + QueueLength) - (head % QueueLength)) % QueueLength
    <2>1. k \in 0 .. QueueLength - 1 /\ (head + k) % QueueLength = i
          /\ (k = 0 <=> i = head % QueueLength)
      BY <1>3, PlaceFrom
    <2> HIDE DEF k
    <2>2. q[i] \in Items <=> k < Length
      BY <1>4, <2>1
    <2>3. (1 + k <= Length <=> k < Length) /\ (1 + k) - 1 = k /\ (1 + k = 1 <=> k = 0)
          /\ (k < Length => 1 + k \in 1 .. Length)
      BY <1>3, <2>1
    <2>4. CASE k < Length
      <3>1. held[1 + k] = q[i]
        BY <2>1, <2>3, <2>4
      <3> QED
        BY <1>8, <2>3, <2>4, <3>1 DEF k
    <2>5. CASE ~(k < Length)
      <3>1. q[i] = SIGNAL \/ q[i] = NULL
        BY <1>3, <2>2, <2>5 DEF Slots
      <3>2. q[i] = SIGNAL <=> signalled /\ k = 0
        <4>1. q[i] = SIGNAL => signalled /\ k = 0
          BY <1>4, <2>1
        <4>2. ASSUME signalled, k = 0
              PROVE  q[i] = SIGNAL
          <5>1. PICK j \in 0 .. QueueLength - 1 : q[j] = SIGNAL
            BY <4>2
          <5>2. j = i
            BY <1>4, <2>1, <4>2, <5>1
          <5> QED
            BY <5>1, <5>2
        <4> QED
          BY <4>1, <4>2
      <3> HIDE DEF held, signalled
      <3>3. q[i] = IF signalled /\ k = 0 THEN SIGNAL ELSE NULL
        BY <3>1, <3>2
      <3> QED
        BY <1>8, <2>3, <2>5, <3>3 DEF k
    <2> QED
      BY <2>4, <2>5
  <1>11. held \in {s \in UNION {[1 .. n -> Items] : n \in 0 .. QueueLength} : IsInjective(s)}
         /\ signalled \in BOOLEAN
    BY <1>3, <1>6, <1>7
  <1>12. tail = (head + Len(held)) % MaxIndex
    BY <1>4, <1>8
  <1> HIDE DEF held, signalled
  <1>13. q = [i \in 0 .. QueueLength - 1 |->
                LET place == 1 + (((i + QueueLength) - (head % QueueLength)) % QueueLength)
                IN IF place <= Len(held) THEN held[place]
                   ELSE IF signalled /\ place = 1 THEN SIGNAL ELSE NULL]
    BY <1>3, <1>10
  <1> QED
    BY <1>1, <1>9, <1>11, <1>12, <1>13 DEF AtRest

(* Whenever no operation is under way, however the operations before were  *)
(* nested and helped, the array is as an initial state has it: the items   *)
(* from Head up to Tail and nothing else, or a signal in the slot of an    *)
(* empty queue, and nothing is posted.  The bound on the operations of a   *)
(* run is one on those between two such states.                            *)
THEOREM Rests == Spec => [](Quiet => pending = NULL /\ AtRest)
  <1>1. AtomInv => (Quiet => pending = NULL /\ AtRest)
    BY QuietRests
  <1>2. Spec => []AtomInv
    BY AtomInit, AtomStep, PTL DEF Spec
  <1> QED
    BY <1>1, <1>2, PTL
=============================================================================

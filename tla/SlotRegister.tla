---------------------------- MODULE SlotRegister ----------------------------
(***************************************************************************)
(* What a slot buffer promises to its one writer and its one reader: an    *)
(* atomic register "read according to a LIFO policy".  Values are told by  *)
(* their number, the Sequence the writer gives them.  A write is between   *)
(* Issue and Complete; a read is between Start and Take, and may take any  *)
(* number that was the latest at some moment in between, provided it does  *)
(* not go back behind an earlier read.  With a single reader this is the   *)
(* same as being atomic.                                                   *)
(***************************************************************************)
EXTENDS Naturals

VARIABLES
  issued,     \* number of the last write begun
  completed,  \* number of the last write ended
  floor,      \* number of the last write ended when the current read began
  given,      \* number of the last value a read took
  reading     \* whether a read is in progress

vars == <<issued, completed, floor, given, reading>>

Init ==
  /\ issued = 0 /\ completed = 0
  /\ floor = 0 /\ given = 0
  /\ reading = FALSE

Issue ==
  /\ issued = completed
  /\ issued' = issued + 1
  /\ UNCHANGED <<completed, floor, given, reading>>

Complete ==
  /\ completed < issued
  /\ completed' = issued
  /\ UNCHANGED <<issued, floor, given, reading>>

Start ==
  /\ ~reading
  /\ reading' = TRUE
  /\ floor' = completed
  /\ UNCHANGED <<issued, completed, given>>

Take ==
  /\ reading
  /\ reading' = FALSE
  /\ given' \in {n \in floor .. issued : n >= given}
  /\ UNCHANGED <<issued, completed, floor>>

Next == Issue \/ Complete \/ Start \/ Take

Spec == Init /\ [][Next]_vars
=============================================================================

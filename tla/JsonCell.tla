------------------------------ MODULE JsonCell ------------------------------
(***************************************************************************)
(* What a replaceable JSON file promises: one cell a save replaces as a    *)
(* whole.  A load finds the value kept last or the value of a save that    *)
(* was not confirmed; never a mixture, and never nothing once a save was   *)
(* confirmed.  SafeJsonStore implements it.                                *)
(***************************************************************************)
CONSTANTS Values, None

VARIABLES cell,     \* what a load would find, or None
          target,   \* the value being saved, or None
          kept      \* the value of the last confirmed save, or None

cellVars == <<cell, target, kept>>

CellInit == cell = None /\ target = None /\ kept = None

Begin ==
  /\ target = None
  /\ target' \in Values
  /\ cell' \in {cell, kept}
  /\ UNCHANGED kept

\* The new value becomes visible, all of it at once.
Replace ==
  /\ target # None /\ cell' = target
  /\ UNCHANGED <<target, kept>>

\* The caller learns that the save succeeded.
Confirm ==
  /\ target # None /\ cell = target
  /\ kept' = target /\ target' = None
  /\ UNCHANGED cell

\* An error or a crash; the new value may be visible already.
Abandon ==
  /\ target # None /\ target' = None
  /\ UNCHANGED <<cell, kept>>

CellNext == Begin \/ Replace \/ Confirm \/ Abandon

CellSpec == CellInit /\ [][CellNext]_cellVars
=============================================================================

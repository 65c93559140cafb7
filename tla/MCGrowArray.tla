----------------------------- MODULE MCGrowArray -----------------------------
(* Values for the model checker.                                           *)
EXTENDS GrowArray

AllKinds   == [eager : BOOLEAN, wide : BOOLEAN]
ShortJoins == {0, 1, 3}    (* lengths of the programs concatenated          *)
=============================================================================

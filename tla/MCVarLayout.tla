---------------------------- MODULE MCVarLayout ----------------------------
(* Values for the model checker.                                           *)
EXTENDS VarLayout

CONSTANTS x, y, z

ThreeNames == {x, y, z}
AllTypes   == {"u8", "u16", "void"}
=============================================================================

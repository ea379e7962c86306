------------------------------ MODULE MCTimeEx ------------------------------
(* Instances of TimeEx for TLC: the constants come from the .cfg files. *)
EXTENDS TimeEx
=============================================================================

------------------------------ MODULE MCWebrev ------------------------------
(* Instances of Webrev for TLC: none of the directories is made by hand, or  *)
(* the second one.                                                           *)
EXTENDS Webrev

ZeroToTwo == 0 .. 2
NoneOrTwo == {{}, {2}}
None == {{}}
=============================================================================

------------------------------ MODULE MCCaches ------------------------------
(* Instances of Caches for TLC.                                             *)
EXTENDS Caches, TLC

CONSTANTS jdk, zz, people, p1, p2

MCSymmetry == Permutations(Proc)
=============================================================================

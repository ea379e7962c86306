------------------------------ MODULE MCDacapo ------------------------------
(* Instances of Dacapo for TLC: one benchmark, measured on two days for     *)
(* other events.                                                            *)
EXTENDS Dacapo

MCJvms == <<[benchmark |-> 1, events |-> <<2, 5>>], [benchmark |-> 1, events |-> <<5>>]>>
=============================================================================

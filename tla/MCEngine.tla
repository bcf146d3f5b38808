------------------------------ MODULE MCEngine ------------------------------
(* Instances of Engine for TLC. *)
EXTENDS Engine
CONSTANTS r1, r2, r3

MCRunners == {r1, r2, r3}
=============================================================================

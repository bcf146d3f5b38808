----------------------------- MODULE MCStateDB -----------------------------
(***************************************************************************)
(* StateDB on small instances: the values of its constants for TLC.        *)
(***************************************************************************)
EXTENDS StateDB, TLC

CONSTANTS w1, w2, tag1

MCTagOf == [t \in TaskIds |-> IF t = 2 THEN tag1 ELSE NULL]
MCWorkerTags == [w \in Workers |-> IF w = w2 THEN {tag1} ELSE {}]

Symmetry == Permutations(Handlers)
=============================================================================

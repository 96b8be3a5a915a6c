---------------------------- MODULE MCConfigCache ----------------------------
(* Instances of ConfigCache for TLC.                                       *)
EXTENDS ConfigCache, TLC

CONSTANTS b1, r1, a1, a2

AdminSymmetry == Permutations({a1, a2})
=============================================================================

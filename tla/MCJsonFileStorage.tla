-------------------------- MODULE MCJsonFileStorage --------------------------
(***************************************************************************)
(* Instances of JsonFileStorage for TLC: a few tasks, keys and values.     *)
(***************************************************************************)
EXTENDS JsonFileStorage

CONSTANTS c1, c2, k1, k2, v1, v2

=============================================================================

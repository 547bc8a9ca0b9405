------------------------- MODULE MCExpiringStorage -------------------------
(***************************************************************************)
(* Instances of ExpiringStorage for TLC.                                   *)
(***************************************************************************)
EXTENDS ExpiringStorage

CONSTANTS c1, c2, k1
=============================================================================

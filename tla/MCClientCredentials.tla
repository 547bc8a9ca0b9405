------------------------- MODULE MCClientCredentials -------------------------
(***************************************************************************)
(* Instances of ClientCredentials for TLC.                                 *)
(***************************************************************************)
EXTENDS ClientCredentials, TLC

CONSTANTS c1, c2, i1, i2, i3, l1, l2, a1, a2

Symmetry ==
  Permutations(Clients) \cup Permutations(Ids)
    \cup Permutations(Labels) \cup Permutations(Accounts)
=============================================================================

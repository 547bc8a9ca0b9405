-------------------------- MODULE MCIdentityStores --------------------------
(***************************************************************************)
(* Two tasks on each of the identity stores.  Identifiers of different     *)
(* stores never meet, so they share model values: the u's are ids that are *)
(* drawn, the n's what comes in twos.                                      *)
(***************************************************************************)
EXTENDS IdentityStores, TLC

CONSTANTS c1, c2, u1, u2, u3, n1, n2, p1, p2, stranger, a1, value, base

Symmetry ==
  Permutations({c1, c2}) \cup Permutations({u1, u2, u3})
    \cup Permutations({n1, n2})
=============================================================================

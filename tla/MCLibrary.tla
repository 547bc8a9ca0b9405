------------------------------ MODULE MCLibrary ------------------------------
(***************************************************************************)
(* A task on each of two views of a storage, with the empty key and        *)
(* another; every stack of at most two decorators; a host and a name it     *)
(* begins with, a plain name, one that needs percent-encoding and what     *)
(* comes of it, one that continues the plain name with a fragment, and the *)
(* dot segments.  The prefixes are letters no key begins with.             *)
(***************************************************************************)
EXTENDS Library, Integers, Sequences

CONSTANTS
  c1, c2, v1, v2, x, left, right, pl, pr, u1, u2, m1, m2,
  host, start, plain, spaced, encoded, fragment, dot, dotdot

MCKeys == {<<>>, <<x>>}
MCViewOf == [c \in {c1, c2} |-> IF c = c1 THEN left ELSE right]
MCPrefix == [v \in {left, right} |-> IF v = left THEN <<pl>> ELSE <<pr>>]
Layers == {"passthrough", "readonly"}
MCHandles == {<<>>, <<"base">>} \cup {<<l>> : l \in Layers}
               \cup {<<l, m>> : l \in Layers, m \in Layers \cup {"base"}}

MCNames == {host, start, plain, spaced, encoded, fragment, dot, dotdot}

MCEncoded ==
  [n \in MCNames |-> CASE n = spaced   -> encoded
                       [] n = fragment -> plain
                       [] OTHER        -> n]

MCBeginnings ==
  [n \in MCNames |-> {n} \cup CASE n = host     -> {start}
                                [] n = fragment -> {plain}
                                [] n = dotdot   -> {dot}
                                [] OTHER        -> {}]

MCWeights == {-1, 5, 12}
=============================================================================

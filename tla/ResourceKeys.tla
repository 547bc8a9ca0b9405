---------------------------- MODULE ResourceKeys ----------------------------
(***************************************************************************)
(* The keys of the LDP store (server-core/src/store.rs).  A key is a       *)
(* decoded path: a sequence of segment names and a trailing '/' or none.   *)
(* "/a/b/" is [path |-> <<a, b>>, dir |-> TRUE], "/a/b" is the document    *)
(* with the same path, and the two are different keys.  Keys with empty    *)
(* segments ("/a//b") are left out.                                        *)
(***************************************************************************)
EXTENDS Naturals, Sequences

CONSTANTS
  Names,        \* the segments a path may hold
  Unprintable,  \* those with a control character, which no header may hold
  SplitLimit    \* the limit of splitn in ensure_ancestors: 100 in the code

ASSUME SplitLimitAssumption == SplitLimit \in Nat /\ SplitLimit >= 2

Container(p) == [path |-> p, dir |-> TRUE]
Document(p)  == [path |-> p, dir |-> FALSE]

\* resolve_path turns the empty path into "/", so the root is a container.
Root == Container(<<>>)

Key == {k \in [path: Seq(Names), dir: BOOLEAN] : k.path = <<>> => k.dir}

Depth(k) == Len(k.path)

\* HeaderValue accepts the text of the key.
FitsHeader(k) == \A n \in 1..Depth(k) : k.path[n] \notin Unprintable

\* The container made of the first n segments of k.
Prefix(k, n) == Container(SubSeq(k.path, 1, n))

\* Every container above k.
Ancestors(k) == {Prefix(k, n) : n \in {m \in 0..Depth(k) : m < Depth(k)}}

(***************************************************************************)
(* The containers ensure_ancestors visits.  splitn yields at most          *)
(* SplitLimit parts, the last of which is dropped: containers of depth     *)
(* SplitLimit - 1 and deeper are never visited.  The root is not dropped   *)
(* when it is the only part, so "/" counts among its own ancestors.        *)
(***************************************************************************)
EnsuredDepths_PopsTwice(k) ==   \* faulty: the parent is dropped as well
  {n \in 0..Depth(k) : n = 0 \/ (n + 1 < Depth(k) /\ n < SplitLimit - 1)}
EnsuredDepths_NoPop(k) ==       \* faulty: the last part is kept
  {n \in 0..Depth(k) : n < SplitLimit - 1}

EnsuredDepths(k) ==
  {n \in 0..Depth(k) : n = 0 \/ (n < Depth(k) /\ n < SplitLimit - 1)}

EnsuredAncestors(k) == {Prefix(k, n) : n \in EnsuredDepths(k)}

ChildKey_NoSlug(k, slug) == Document(k.path)   \* faulty

\* The key handle_post gives the new resource: the target without trailing
\* '/', then the slug.  The target may itself be a document.
ChildKey(k, slug) == Document(Append(k.path, slug))
=============================================================================

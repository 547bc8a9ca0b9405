----------------------------- MODULE MCLdpServer -----------------------------
(***************************************************************************)
(* Instances of LdpServer for TLC: a tree of one container "/a/", a        *)
(* document in it, and a document "/a" beside the container.  "b" stands   *)
(* for a name with a control character: it can be written encoded only.    *)
(***************************************************************************)
EXTENDS LdpServer, TLC

CONSTANTS r1, r2, r3, anonymous

MCNames == {"a", "b", r1, r2, r3}
MCTargets == {Root, Container(<<"a">>), Document(<<"a">>), Document(<<"a", "b">>)}
OneContainer == {Container(<<"a">>)}
MCSplitLimit == 100

Json == [type |-> "application", subtype |-> "json"]
TextRange == [type |-> "text", subtype |-> "*"]
MCContentTypes == {Turtle, Json}
MCAccepts == {{}, {TextRange}}
NoAccept == {{}}
OneType == {Turtle}

\* PassThroughAuthorizer lets every request through: "any".  Under "closed",
\* nobody may write, and read only what is spelled in one of two ways.
Allowed(p, spelling, mode) ==
  p = "any" \/ (mode = "Read" /\ spelling = "encoded")
MCGrants ==
  [p \in Policies |-> {g \in Agents \X Key \X Spellings \X {"Read", "Write"} :
                         Allowed(p, g[3], g[4])}]

Symmetry == Permutations(Requests)
=============================================================================

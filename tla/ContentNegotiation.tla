------------------------- MODULE ContentNegotiation -------------------------
(***************************************************************************)
(* Media types and the Accept header as ldp_handlers.rs matches them.  A   *)
(* media type is a pair of type and subtype; its parameters (";charset=",  *)
(* ";q=") are stripped by the code before it compares anything.            *)
(***************************************************************************)

\* What LdpStore gives a container it creates by itself.
Turtle == [type |-> "text", subtype |-> "turtle"]

\* The token "*/*".  An empty token counts as this one.
AnyRange == [type |-> "*", subtype |-> "*"]

TokenMatches_AnySubtype(token, ctype) ==   \* faulty: "x/*" taken for "*/*"
  token.subtype = "*" \/ token = ctype

\* One token of the header admits the stored type.
TokenMatches(token, ctype) ==
  \/ token = AnyRange
  \/ token.subtype = "*" /\ token.type = ctype.type
  \/ token = ctype

\* accept is the set of tokens of the header, {} when there is no header.
accept_satisfied(accept, ctype) ==
  accept = {} \/ \E token \in accept : TokenMatches(token, ctype)
=============================================================================

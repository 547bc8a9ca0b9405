------------------------------- MODULE Library -------------------------------
(***************************************************************************)
(* The building blocks that the server's crates offer to their users, side *)
(* by side: identifiers and Accept headers (HttpTypes), views of a         *)
(* key-value storage (PassthroughStorage) and decorated resource stores    *)
(* (ResourceStores).  They share no state; focus names the one that moves. *)
(***************************************************************************)
CONSTANTS
  Clients, Keys, Values, Views, Mine, ViewOf, Prefix,
  Callers, Handles, Urls, Scheme, BlankPart, Names, Hosts, Dot, DotDot, Encoded,
  Cut, Beginnings, MaxParts, MediaTypes, Weights, NoWeight, Unparsable, NaN,
  SmallSort, MaxRanges, None

VARIABLES
  focus, id, header, ranges, data, task, ret, resources, call, answer

Http == INSTANCE HttpTypes
KeyValue == INSTANCE PassthroughStorage
Resource == INSTANCE ResourceStores WITH
  Clients <- Callers, Bodies <- Values, data <- resources, ret <- answer

ASSUME LibraryAssumption ==
  Http!Distinct /\ KeyValue!Separate /\ Resource!Stacked

http_vars     == <<id, header, ranges>>
storage_vars  == <<data, task, ret>>
resource_vars == <<resources, call, answer>>
vars == <<focus, http_vars, storage_vars, resource_vars>>

Init ==
  /\ focus \in {"identifiers", "headers", "storage", "resources"}
  /\ Http!Init /\ KeyValue!Init /\ Resource!Init

Next ==
  /\ UNCHANGED focus
  /\ \/ /\ focus = "identifiers" /\ Http!Derive
        /\ UNCHANGED <<storage_vars, resource_vars>>
     \/ /\ focus = "headers" /\ Http!Read
        /\ UNCHANGED <<storage_vars, resource_vars>>
     \/ /\ focus = "storage" /\ KeyValue!Next
        /\ UNCHANGED <<http_vars, resource_vars>>
     \/ /\ focus = "resources" /\ Resource!Next
        /\ UNCHANGED <<http_vars, storage_vars>>

Spec == Init /\ [][Next]_vars

-----------------------------------------------------------------------------
\* parent and join are inverse; where path_only cuts a URL.
IdentifiersRelate == Http!IdentifiersRelate
\* An Accept header is ranked by q, and by its own order among equals.
PreferencesRanked == Http!PreferencesRanked
\* A view is a linearizable storage of its own.
ViewIsStorage == KeyValue!ViewIsStorage
\* Nothing changes through a read-only handle.
ReadOnlyHandlesOnlyRead == Resource!ReadOnlyHandlesOnlyRead
=============================================================================

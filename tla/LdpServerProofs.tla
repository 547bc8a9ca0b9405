--------------------------- MODULE LdpServerProofs ---------------------------
(***************************************************************************)
(* Theorems about LdpServer, for every value of its constants.             *)
(***************************************************************************)
EXTENDS LdpServer, FiniteSetTheorems, TLAPS

-----------------------------------------------------------------------------
\* Keys.

\* A prefix of a sequence of names is one.
LEMMA PrefixOfSeq ==
  ASSUME NEW s \in Seq(Names), NEW n \in 0..Len(s)
  PROVE  /\ SubSeq(s, 1, n) \in Seq(Names)
         /\ Len(SubSeq(s, 1, n)) = n
         /\ \A i \in 1..n : SubSeq(s, 1, n)[i] = s[i]
  OBVIOUS

\* A prefix of a prefix is a prefix.
LEMMA PrefixOfPrefix ==
  ASSUME NEW s \in Seq(Names), NEW n \in 0..Len(s), NEW m \in 0..n
  PROVE  SubSeq(SubSeq(s, 1, n), 1, m) = SubSeq(s, 1, m)
  OBVIOUS

\* ensure_ancestors visits keys, and containers only.
LEMMA EnsuredAreKeys ==
  ASSUME NEW k \in Key
  PROVE  EnsuredAncestors(k) \subseteq Key
<1>1. k.path \in Seq(Names)
  BY DEF Key
<1>2. ASSUME NEW n \in 0..Len(k.path)
      PROVE  Prefix(k, n) \in Key
  BY <1>1, <1>2, PrefixOfSeq DEF Prefix, Container, Key
<1>3. QED
  BY <1>2 DEF EnsuredAncestors, EnsuredDepths, Depth

\* What it visits for an ancestor of k, it visits for k.
LEMMA EnsuredIsTransitive ==
  ASSUME NEW k \in Key, NEW a \in EnsuredAncestors(k)
  PROVE  EnsuredAncestors(a) \subseteq EnsuredAncestors(k)
<1>1. k.path \in Seq(Names)
  BY DEF Key
<1>2. PICK n \in EnsuredDepths(k) : a = Prefix(k, n)
  BY DEF EnsuredAncestors
<1>3. n \in 0..Len(k.path)
  BY DEF EnsuredDepths, Depth
<1>4. a.path = SubSeq(k.path, 1, n) /\ Len(a.path) = n
  BY <1>1, <1>2, <1>3, PrefixOfSeq DEF Prefix, Container
<1>5. SUFFICES ASSUME NEW m \in EnsuredDepths(a)
               PROVE  Prefix(a, m) \in EnsuredAncestors(k)
  BY DEF EnsuredAncestors
<1>6. m \in 0..n
  BY <1>4 DEF EnsuredDepths, Depth
<1>7. Prefix(a, m) = Prefix(k, m)
  BY <1>1, <1>3, <1>4, <1>6, PrefixOfPrefix DEF Prefix
<1>8. m \in EnsuredDepths(k)
  BY <1>1, <1>3, <1>4, <1>6 DEF EnsuredDepths, Depth
<1>9. QED
  BY <1>7, <1>8 DEF EnsuredAncestors

\* The key of a POST child is a key.
LEMMA ChildIsKey ==
  ASSUME NEW k \in Key, NEW r \in Requests
  PROVE  ChildKey(k, r) \in Key
<1>1. k.path \in Seq(Names) /\ r \in Names
  BY SlugAssumption DEF Key
<1>2. Append(k.path, r) \in Seq(Names) /\ Append(k.path, r) # <<>>
  BY <1>1
<1>3. QED
  BY <1>2 DEF ChildKey, Document, Key

-----------------------------------------------------------------------------
\* Types.

TypeInv == TypeOK /\ Phases

LEMMA TypeInit == Init => TypeInv
<1> SUFFICES ASSUME Init PROVE TypeInv
  OBVIOUS
<1>1. Root \in Key
  BY DEF Root, Container, Key
<1>2. EmptyContainer \in Entry
  BY ContentTypeAssumption DEF EmptyContainer, Entry
<1>3. QED
  BY <1>1, <1>2 DEF Init, TypeInv, TypeOK, Phases

\* The steps of a request, and what its request line and key are good for.
LEMMA TypeStep == TypeInv /\ [Next]_vars => TypeInv'
<1> SUFFICES ASSUME TypeInv, [Next]_vars PROVE TypeInv'
  OBVIOUS
<1> USE DEF TypeInv, TypeOK, Phases, Reply, Goto, Plain, Answer, Handles,
            Reaches, authority
<1> DEFINE Plains == {Plain(s) : s \in {400, 401, 404, 405, 406, 415, 500, 204}}
<1>p. Plains \subseteq Response
  BY DEF Response
<1>1. ASSUME NEW r \in Requests, Receive(r) PROVE TypeInv'
  <2>1. PICK q \in [agent: Agents, method: Methods, key: Targets \cup Locations,
                    spelling: Spellings, ctype: ContentTypes, accept: Accepts] :
                      Arrive(r, q)
    BY <1>1 DEF Receive
  <2>2. Locations \subseteq Key
    BY DEF Locations
  <2>3. q \in Request
    BY <2>1, <2>2, SlugAssumption DEF Request
  <2>4. QED
    BY <2>1, <2>3 DEF Arrive
<1>2. ASSUME NEW r \in Requests, Authorization(r) \/ path_rejected(r)
      PROVE  TypeInv'
  BY <1>2, <1>p DEF Authorization, PermissionReaderFails, Deny, Admit,
                    path_rejected
<1>3. ASSUME NEW r \in Requests, not_found(r) \/ not_acceptable(r)
      PROVE  TypeInv'
  BY <1>3, <1>p DEF not_found, not_acceptable
<1>4. ASSUME NEW r \in Requests, handle_get(r) PROVE TypeInv'
  <2>1. Answer(200, LinkOf(store[req[r].key]), store[req[r].key]) \in Response
    BY <1>4 DEF handle_get, LinkOf, Response
  <2>2. QED
    BY <1>4, <2>1 DEF handle_get
<1>5. ASSUME NEW r \in Requests, handle_head(r) PROVE TypeInv'
  <2> DEFINE e == store[req[r].key]
             a == Answer(200, IF e.dir THEN "container" ELSE "none",
                         [e EXCEPT !.body = Empty])
  <2>1. a \in Response
    BY <1>5 DEF handle_head, Response, Entry
  <2>2. QED
    BY <1>5, <2>1 DEF handle_head
<1>6. ASSUME NEW r \in Requests, ReadBody(r) PROVE TypeInv'
  <2>1. req[r].key \in Key
    BY <1>6 DEF ReadBody, Request
  <2>2. ChildKey(req[r].key, r) \in Key
    BY <2>1, ChildIsKey
  <2>3. QED
    BY <1>6, <2>1, <2>2 DEF ReadBody
<1>7. ASSUME NEW r \in Requests, BodyFails(r) \/ Disconnect(r) PROVE TypeInv'
  BY <1>7, <1>p DEF BodyFails, Disconnect
<1>8. ASSUME NEW r \in Requests, ensure_ancestors(r) PROVE TypeInv'
  <2>1. EnsuredAncestors(target[r]) \subseteq Key
    BY <1>8, EnsuredAreKeys DEF ensure_ancestors
  <2>2. EmptyContainer \in Entry
    BY ContentTypeAssumption DEF EmptyContainer, Entry
  <2>3. QED
    BY <1>8, <2>1, <2>2 DEF ensure_ancestors, OrInsert
<1>9. ASSUME NEW r \in Requests, put(r) PROVE TypeInv'
  <2>1. target[r] \in Key /\ req[r] \in Request
    BY <1>9 DEF put
  <2>2. [body |-> r, ctype |-> req[r].ctype, dir |-> target[r].dir] \in Entry
    BY <2>1 DEF Entry, Request, Key
  <2> DEFINE a == Answer(PutStatus(r, target[r] \notin DOMAIN store),
                         PutLink(r), None)
  <2>3. a \in Response
    BY DEF PutStatus, PutLink, Response
  <2>4. pc' = [pc EXCEPT ![r] = "done"] /\ resp' = [resp EXCEPT ![r] = a]
    BY <1>9 DEF put
  <2>5. store' \in [DOMAIN store' -> Entry] /\ DOMAIN store' \subseteq Key
    BY <1>9, <2>1, <2>2 DEF put, Insert
  <2> HIDE DEF a
  <2>6. QED
    BY <1>9, <2>1, <2>3, <2>4, <2>5 DEF put
<1>10. ASSUME NEW r \in Requests, handle_delete(r) PROVE TypeInv'
  BY <1>10, <1>p DEF handle_delete, Remove
<1>11. ASSUME NEW r \in Requests,
              handle_options(r) \/ handle_patch(r) \/ MethodNotAllowed(r)
       PROVE TypeInv'
  BY <1>11, <1>p DEF handle_options, handle_patch, MethodNotAllowed
<1>12. CASE ChangePolicy \/ UNCHANGED vars
  BY <1>12 DEF ChangePolicy, vars
<1>13. QED
  BY <1>1, <1>2, <1>3, <1>4, <1>5, <1>6, <1>7, <1>8, <1>9, <1>10, <1>11, <1>12
  DEF Next, Client, Serve, Read, Quiescent

(***************************************************************************)
(* Whatever the requests and their interleaving, the store maps keys to    *)
(* entries, and every request has a proper target and a proper response.   *)
(***************************************************************************)
THEOREM TypeCorrect == Spec => []TypeOK
<1>1. Spec => []TypeInv
  BY TypeInit, TypeStep, PTL DEF Spec
<1>2. TypeInv => TypeOK
  BY DEF TypeInv
<1>3. QED
  BY <1>1, <1>2, PTL

-----------------------------------------------------------------------------
\* History.

\* What a request asked and was answered does not change any more.
LEMMA AnswersStand ==
  ASSUME TypeInv, [Next]_vars, NEW r \in Requests, resp[r] # None
  PROVE  /\ resp'[r] = resp[r]
         /\ req'[r] = req[r]
         /\ target'[r] = target[r]
<1>1. pc[r] = "done"
  BY DEF TypeInv, Phases
<1>2. ASSUME NEW q \in Requests, Client(q) \/ Serve(q)
      PROVE  q # r
  BY <1>1, <1>2
  DEF Client, Serve, Authorization, Read, Receive, Arrive, ReadBody, BodyFails,
      Disconnect, PermissionReaderFails, Deny, Admit, path_rejected, not_found,
      not_acceptable, handle_get, handle_head, ensure_ancestors, put,
      handle_delete, handle_options, handle_patch, MethodNotAllowed, Handles,
      Reaches
<1>3. ASSUME NEW q \in Requests, q # r, Client(q) \/ Serve(q)
      PROVE  /\ resp'[r] = resp[r] /\ req'[r] = req[r]
             /\ target'[r] = target[r]
  <2> USE DEF TypeInv, TypeOK, Reply
  <2>1. CASE Client(q)
    BY <1>3, <2>1 DEF Client, Receive, Arrive, ReadBody, BodyFails, Disconnect
  <2>2. CASE Authorization(q) \/ path_rejected(q) \/ Read(q)
    BY <1>3, <2>2
    DEF Authorization, PermissionReaderFails, Deny, Admit, path_rejected, Read,
        not_found, not_acceptable, handle_get, handle_head
  <2>3. CASE ensure_ancestors(q) \/ put(q)
    BY <1>3, <2>3 DEF ensure_ancestors, put
  <2>4. CASE \/ handle_delete(q) \/ handle_options(q) \/ handle_patch(q)
             \/ MethodNotAllowed(q)
    BY <1>3, <2>4
    DEF handle_delete, handle_options, handle_patch, MethodNotAllowed
  <2>5. QED
    BY <1>3, <2>1, <2>2, <2>3, <2>4 DEF Serve
<1>4. CASE ChangePolicy \/ UNCHANGED vars
  BY <1>4 DEF ChangePolicy, vars
<1>5. QED
  BY <1>2, <1>3, <1>4 DEF Next, Quiescent

\* A removal once answered stays on record.
LEMMA DeletionsGrow ==
  ASSUME TypeInv, [Next]_vars, NEW a
  PROVE  Deletions(a) \subseteq Deletions(a)'
BY AnswersStand DEF Deletions, Answered

\* No request comes between the critical sections of put in this step.
InsertsStay ==
  \A r \in Requests :
    pc'[r] = "insert" => pc[r] = "insert" /\ target'[r] = target[r]

\* Which steps touch the store.
LEMMA StoreSteps ==
  ASSUME TypeInv, [Next]_vars
  PROVE  \/ UNCHANGED store /\ InsertsStay
         \/ \E r \in Requests : ensure_ancestors(r) \/ put(r) \/ handle_delete(r)
<1> USE DEF TypeInv, TypeOK, Reply, Goto, InsertsStay
<1>1. ASSUME NEW r \in Requests, Client(r)
      PROVE  UNCHANGED store /\ InsertsStay
  BY <1>1 DEF Client, Receive, Arrive, ReadBody, BodyFails, Disconnect
<1>2. ASSUME NEW r \in Requests, Authorization(r) \/ path_rejected(r) \/ Read(r)
      PROVE  UNCHANGED store /\ InsertsStay
  BY <1>2
  DEF Authorization, PermissionReaderFails, Deny, Admit, path_rejected, Read,
      not_found, not_acceptable, handle_get, handle_head
<1>3. ASSUME NEW r \in Requests,
             handle_options(r) \/ handle_patch(r) \/ MethodNotAllowed(r)
      PROVE  UNCHANGED store /\ InsertsStay
  BY <1>3 DEF handle_options, handle_patch, MethodNotAllowed
<1>4. CASE ChangePolicy \/ UNCHANGED vars
  BY <1>4 DEF ChangePolicy, vars
<1>5. QED
  BY <1>1, <1>2, <1>3, <1>4 DEF Next, Serve, Quiescent

-----------------------------------------------------------------------------
\* The hierarchy.

Held(a) == a \in DOMAIN store \/ Deletions(a) # {}

\* AncestorsAccounted is not inductive: between its two critical sections, a
\* put relies on the ancestors it has seen to.
EnsuredAccounted ==
  \A k \in DOMAIN store : \A a \in EnsuredAncestors(k) : Held(a)

HierarchyInv ==
  /\ EnsuredAccounted
  /\ \A r \in Requests :
       pc[r] = "insert" => \A a \in EnsuredAncestors(target[r]) : Held(a)

\* A container leaves the store only by a DELETE that answers for it.
LEMMA HeldStays ==
  ASSUME TypeInv, [Next]_vars, NEW a, Held(a)
  PROVE  Held(a)'
<1>1. CASE Deletions(a) # {}
  BY <1>1, DeletionsGrow DEF Held
<1>2. CASE a \in DOMAIN store /\ UNCHANGED store
  BY <1>2 DEF Held
<1>3. ASSUME a \in DOMAIN store, NEW r \in Requests,
             ensure_ancestors(r) \/ put(r)
      PROVE  Held(a)'
  BY <1>3 DEF ensure_ancestors, OrInsert, put, Insert, Held
<1>4. ASSUME a \in DOMAIN store, NEW r \in Requests, handle_delete(r)
      PROVE  Held(a)'
  <2>1. CASE req[r].key = a
    <3>1. resp' = [resp EXCEPT ![r] = Plain(204)] /\ req' = req
      BY <1>4, <2>1 DEF handle_delete, Reply
    <3>2. resp'[r] = Plain(204) /\ Plain(204) # None
      BY <3>1, SentinelAssumption
      DEF TypeInv, TypeOK, Plain, Answer, Response
    <3>3. r \in Deletions(a)'
      BY <1>4, <2>1, <3>1, <3>2
      DEF Deletions, Answered, Plain, Answer, handle_delete, Handles, Reaches
    <3>4. QED
      BY <3>3 DEF Held
  <2>2. CASE req[r].key # a
    BY <1>4, <2>2 DEF handle_delete, Remove, Held
  <2>3. QED
    BY <2>1, <2>2
<1>5. QED
  BY <1>1, <1>2, <1>3, <1>4, StoreSteps DEF Held

LEMMA HierarchyInit == Init => HierarchyInv
<1> SUFFICES ASSUME Init PROVE HierarchyInv
  OBVIOUS
<1>1. EnsuredAncestors(Root) = {Root}
  <2>1. EnsuredDepths(Root) = {0}
    BY DEF EnsuredDepths, Depth, Root, Container
  <2>2. Prefix(Root, 0) = Root
    <3>1. <<>> \in Seq(Names) /\ Len(<<>>) = 0
      OBVIOUS
    <3>2. SubSeq(<<>>, 1, 0) = <<>>
      BY <3>1, PrefixOfSeq
    <3>3. QED
      BY <3>2 DEF Prefix, Root, Container
  <2>3. QED
    BY <2>1, <2>2 DEF EnsuredAncestors
<1>2. QED
  BY <1>1 DEF Init, HierarchyInv, EnsuredAccounted, Held

LEMMA HierarchyStep == TypeInv /\ HierarchyInv /\ [Next]_vars => HierarchyInv'
<1> SUFFICES ASSUME TypeInv, HierarchyInv, [Next]_vars PROVE HierarchyInv'
  OBVIOUS
<1>1. \A a : Held(a) => Held(a)'
  BY HeldStays
<1>2. \A k \in DOMAIN store : \A a \in EnsuredAncestors(k) : Held(a)'
  BY <1>1 DEF HierarchyInv, EnsuredAccounted, Held
<1>3. \A r \in Requests :
        pc[r] = "insert" => \A a \in EnsuredAncestors(target[r]) : Held(a)'
  BY <1>1 DEF HierarchyInv
<1>4. CASE UNCHANGED store /\ InsertsStay
  BY <1>2, <1>3, <1>4 DEF HierarchyInv, EnsuredAccounted, InsertsStay, Held
<1>5. ASSUME NEW r \in Requests, ensure_ancestors(r) PROVE HierarchyInv'
  <2> DEFINE ks == EnsuredAncestors(target[r])
  <2>1. target[r] \in Key /\ UNCHANGED target /\ pc' = [pc EXCEPT ![r] = "insert"]
    BY <1>5 DEF ensure_ancestors, Goto, TypeInv, Phases
  <2>2. DOMAIN store' = DOMAIN store \cup ks
    BY <1>5 DEF ensure_ancestors, OrInsert
  <2>3. \A k \in ks : EnsuredAncestors(k) \subseteq ks
    BY <2>1, EnsuredIsTransitive
  <2>4. \A a \in ks : Held(a)'
    BY <2>2 DEF Held
  <2>5. EnsuredAccounted'
    BY <1>2, <2>2, <2>3, <2>4 DEF EnsuredAccounted, Held
  <2>6. QED
    BY <1>3, <2>1, <2>4, <2>5 DEF HierarchyInv, TypeInv, TypeOK
<1>6. ASSUME NEW r \in Requests, put(r) PROVE HierarchyInv'
  <2>1. pc[r] = "insert" /\ UNCHANGED target /\ pc' = [pc EXCEPT ![r] = "done"]
    BY <1>6 DEF put, Reply
  <2>2. DOMAIN store' = DOMAIN store \cup {target[r]}
    BY <1>6 DEF put, Insert
  <2>3. EnsuredAccounted'
    BY <1>2, <1>3, <2>1, <2>2 DEF EnsuredAccounted, Held
  <2>4. QED
    BY <1>3, <2>1, <2>3 DEF HierarchyInv, TypeInv, TypeOK
<1>7. ASSUME NEW r \in Requests, handle_delete(r) PROVE HierarchyInv'
  <2>1. UNCHANGED target /\ pc' = [pc EXCEPT ![r] = "done"]
    BY <1>7 DEF handle_delete, Reply
  <2>2. DOMAIN store' \subseteq DOMAIN store
    BY <1>7 DEF handle_delete, Remove
  <2>3. EnsuredAccounted'
    BY <1>2, <2>2 DEF EnsuredAccounted, Held
  <2>4. QED
    BY <1>3, <2>1, <2>3 DEF HierarchyInv, TypeInv, TypeOK
<1>8. QED
  BY <1>4, <1>5, <1>6, <1>7, StoreSteps

(***************************************************************************)
(* LdpStore::put leaves no orphan of its own making: a missing container   *)
(* above a stored resource has been removed by a DELETE.                   *)
(***************************************************************************)
THEOREM HierarchyKept == Spec => []AncestorsAccounted
<1>1. Spec => [](TypeInv /\ HierarchyInv)
  BY TypeInit, TypeStep, HierarchyInit, HierarchyStep, PTL DEF Spec
<1>2. TypeInv /\ HierarchyInv => AncestorsAccounted
  <2> SUFFICES ASSUME TypeInv, EnsuredAccounted,
                      NEW k \in DOMAIN store, NEW a \in Ancestors(k),
                      Depth(a) < SplitLimit - 1
               PROVE  Held(a)
    BY DEF HierarchyInv, AncestorsAccounted, Held
  <2>1. PICK n \in {m \in 0..Depth(k) : m < Depth(k)} : a = Prefix(k, n)
    BY DEF Ancestors
  <2>2. k.path \in Seq(Names)
    BY DEF TypeInv, TypeOK, Key
  <2>3. Depth(a) = n
    BY <2>1, <2>2, PrefixOfSeq DEF Depth, Prefix, Container
  <2>4. n \in EnsuredDepths(k)
    BY <2>1, <2>3 DEF EnsuredDepths
  <2>5. QED
    BY <2>1, <2>4 DEF EnsuredAccounted, EnsuredAncestors
<1>3. QED
  BY <1>1, <1>2, PTL

-----------------------------------------------------------------------------
\* Authorization.

\* EffectsAuthorized is not inductive: a request has been granted its mode
\* before it has any effect, under a policy it has met, and its request line
\* does not change on the way.
Passed(r) ==
  \/ pc[r] \in {"handler", "ensure", "insert"}
  \/ Answered(r, {200, 201, 204, 404, 406})
  \/ target[r] # None

Granting(r) ==
  {p \in seen[r] : Claim(req[r], AccessModeOf(req[r].method)) \in Grants[p]}

AuthorizedRequest(r) ==
  /\ pc[r] = "authz" => policy \in seen[r]
  /\ Passed(r) => Granting(r) # {}
  /\ Answered(r, {401}) => seen[r] \ Granting(r) # {}
  /\ pc[r] \in {"ensure", "insert"} => req[r].method \in Writes
  /\ target[r] # None => pc[r] \in {"ensure", "insert", "done"}
  /\ auto[r] # {} => pc[r] \in {"insert", "done"}

AuthorizedInv == \A r \in Requests : AuthorizedRequest(r)

LEMMA AuthorizedInit == Init => AuthorizedInv
BY DEF Init, AuthorizedInv, AuthorizedRequest, Passed, Answered

\* A request that takes no step keeps everything it has.
LEMMA OthersStand ==
  ASSUME TypeInv, NEW q \in Requests, Client(q) \/ Serve(q),
         NEW r \in Requests, r # q
  PROVE  /\ pc'[r] = pc[r] /\ req'[r] = req[r] /\ target'[r] = target[r]
         /\ resp'[r] = resp[r] /\ auto'[r] = auto[r]
         /\ policy' = policy /\ seen'[r] = seen[r]
<1> USE DEF TypeInv, TypeOK, Reply, Goto, authority
<1>1. CASE Client(q)
  BY <1>1 DEF Client, Receive, Arrive, ReadBody, BodyFails, Disconnect
<1>2. CASE Authorization(q) \/ path_rejected(q) \/ Read(q)
  BY <1>2
  DEF Authorization, PermissionReaderFails, Deny, Admit, path_rejected, Read,
      not_found, not_acceptable, handle_get, handle_head
<1>3. CASE ensure_ancestors(q) \/ put(q)
  BY <1>3 DEF ensure_ancestors, put
<1>4. CASE \/ handle_delete(q) \/ handle_options(q) \/ handle_patch(q)
           \/ MethodNotAllowed(q)
  BY <1>4 DEF handle_delete, handle_options, handle_patch, MethodNotAllowed
<1>5. QED
  BY <1>1, <1>2, <1>3, <1>4 DEF Serve

LEMMA AuthorizedStep ==
  TypeInv /\ AuthorizedInv /\ [Next]_vars => AuthorizedInv'
<1> SUFFICES ASSUME TypeInv, AuthorizedInv, [Next]_vars PROVE AuthorizedInv'
  OBVIOUS
<1>1. \A r \in Requests : AuthorizedRequest(r)
  BY DEF AuthorizedInv
<1>2. ASSUME NEW q \in Requests, Client(q) \/ Serve(q)
      PROVE  AuthorizedRequest(q)'
  <2> USE DEF TypeInv, TypeOK, Phases, Reply, Goto, Plain, Answer, Handles,
              Reaches, authority, AuthorizedRequest, Passed, Answered
  <2>1. AuthorizedRequest(q)
    BY <1>1
  <2>2. CASE Receive(q)
    BY <2>1, <2>2 DEF Receive, Arrive
  <2>3. CASE PermissionReaderFails(q)
    BY <2>1, <2>3 DEF PermissionReaderFails
  <2>4. CASE Deny(q)
    <3>1. /\ pc[q] = "authz" /\ policy \in seen[q]
          /\ UNCHANGED <<req, seen, policy, target, auto>>
      BY <2>1, <2>4 DEF Deny
    <3>2. policy \in (seen[q] \ Granting(q))'
      BY <2>4, <3>1 DEF Deny, Granted, Granting, Claim
    <3>3. ~Passed(q)' /\ pc'[q] = "done"
      BY <2>1, <2>4, <3>1, SentinelAssumption DEF Deny, Response
    <3>4. QED
      BY <2>1, <3>1, <3>2, <3>3
  <2>5. CASE Admit(q)
    <3>1. /\ pc[q] = "authz" /\ policy \in seen[q]
          /\ UNCHANGED <<req, seen, policy, target, auto, resp>>
      BY <2>1, <2>5 DEF Admit
    <3>2. policy \in Granting(q)'
      BY <2>5, <3>1 DEF Admit, Granted, Granting, Claim
    <3>3. pc'[q] = "handler" /\ resp'[q] = None
      BY <2>5, <3>1 DEF Admit
    <3>4. QED
      BY <2>1, <3>1, <3>2, <3>3
  <2>6. CASE \/ path_rejected(q) \/ Read(q) \/ ReadBody(q) \/ BodyFails(q)
             \/ Disconnect(q) \/ ensure_ancestors(q) \/ put(q)
             \/ handle_delete(q) \/ handle_options(q) \/ handle_patch(q)
             \/ MethodNotAllowed(q)
    <3>1. CASE Disconnect(q)
      BY <2>1, <3>1 DEF Disconnect, Granting
    <3>2. CASE ~Disconnect(q)
      <4>1. /\ pc[q] \in {"handler", "ensure", "insert"}
            /\ UNCHANGED <<req, seen, policy>>
        BY <2>6, <3>2
        DEF path_rejected, Read, not_found, not_acceptable, handle_get,
            handle_head, ReadBody, BodyFails, ensure_ancestors, put,
            handle_delete, handle_options, handle_patch, MethodNotAllowed
      <4>2. Granting(q)' # {}
        BY <2>1, <4>1 DEF Granting
      <4>3. CASE path_rejected(q) \/ Read(q)
        BY <2>1, <4>1, <4>2, <4>3
        DEF path_rejected, Read, not_found, not_acceptable, handle_get,
            handle_head
      <4>4. CASE ReadBody(q) \/ BodyFails(q)
        BY <2>1, <4>1, <4>2, <4>4 DEF ReadBody, BodyFails
      <4>5. CASE ensure_ancestors(q)
        BY <2>1, <4>1, <4>2, <4>5 DEF ensure_ancestors
      <4>6. CASE put(q)
        BY <2>1, <4>1, <4>2, <4>6 DEF put, PutStatus
      <4>7. CASE \/ handle_delete(q) \/ handle_options(q) \/ handle_patch(q)
                 \/ MethodNotAllowed(q)
        BY <2>1, <4>1, <4>2, <4>7
        DEF handle_delete, handle_options, handle_patch, MethodNotAllowed
      <4>8. QED
        BY <2>6, <3>2, <4>3, <4>4, <4>5, <4>6, <4>7
    <3>3. QED
      BY <3>1, <3>2
  <2>7. QED
    BY <1>2, <2>2, <2>3, <2>4, <2>5, <2>6 DEF Client, Serve, Authorization
<1>3. ASSUME NEW q \in Requests, Client(q) \/ Serve(q),
             NEW r \in Requests, r # q
      PROVE  AuthorizedRequest(r)'
  BY <1>1, <1>3, OthersStand
  DEF AuthorizedRequest, Passed, Answered, Granting
<1>4. CASE UNCHANGED vars
  BY <1>1, <1>4
  DEF vars, authority, AuthorizedInv, AuthorizedRequest, Passed, Answered,
      Granting
<1>5. CASE ChangePolicy
  <2> SUFFICES ASSUME NEW r \in Requests PROVE AuthorizedRequest(r)'
    BY DEF AuthorizedInv
  <2>1. UNCHANGED <<pc, req, target, resp, auto>>
    BY <1>5 DEF ChangePolicy
  <2>2. seen[r] \subseteq seen'[r]
    BY <1>5 DEF ChangePolicy, TypeInv, TypeOK
  <2>3. pc[r] = "authz" => policy' \in seen'[r]
    BY <1>5 DEF ChangePolicy, TypeInv, TypeOK
  <2>4. /\ Granting(r) \subseteq Granting(r)'
        /\ seen[r] \ Granting(r) \subseteq (seen[r] \ Granting(r))'
    BY <2>1, <2>2 DEF Granting
  <2>5. QED
    BY <1>1, <2>1, <2>3, <2>4 DEF AuthorizedRequest, Passed, Answered
<1>6. ASSUME NEW q \in Requests, Client(q) \/ Serve(q)
      PROVE  AuthorizedInv'
  BY <1>2, <1>3, <1>6 DEF AuthorizedInv
<1>7. QED
  BY <1>4, <1>5, <1>6 DEF Next, Quiescent

(***************************************************************************)
(* authz_middleware is not to be got around: whoever has changed the store *)
(* or learnt what is in it had the right to, for the path as it was        *)
(* written, under a policy in force before the request was admitted; and   *)
(* nobody is refused whom every policy of that time lets through.          *)
(***************************************************************************)
THEOREM OnlyTheGrantedAct == Spec => []EffectsAuthorized
<1>1. Spec => [](TypeInv /\ AuthorizedInv)
  BY TypeInit, TypeStep, AuthorizedInit, AuthorizedStep, PTL DEF Spec
<1>2. AuthorizedInv => EffectsAuthorized
  <2> SUFFICES ASSUME AuthorizedInv, NEW r \in Requests
               PROVE  /\ \/ Answered(r, {200, 201, 204, 404, 406})
                         \/ target[r] # None
                        => Granting(r) # {}
                      /\ Answered(r, {401}) => seen[r] \ Granting(r) # {}
    BY DEF EffectsAuthorized, Granting, AccessModeOf
  <2>1. QED
    BY DEF AuthorizedInv, AuthorizedRequest, Passed
<1>3. QED
  BY <1>1, <1>2, PTL

-----------------------------------------------------------------------------
\* Content.

\* Who wrote an entry stays on record.
LEMMA WriterStays ==
  ASSUME TypeInv, [Next]_vars, NEW k, NEW e, WrittenBy(k, e)
  PROVE  WrittenBy(k, e)'
<1>1. CASE e = EmptyContainer /\ k.dir
  BY <1>1 DEF WrittenBy
<1>2. CASE /\ e.body \in Requests
           /\ Answered(e.body, {201, 204}) \/ Unlocated(e.body)
  <2>1. /\ resp'[e.body] = resp[e.body]
        /\ req'[e.body] = req[e.body]
        /\ target'[e.body] = target[e.body]
    BY <1>2, AnswersStand DEF Answered, Unlocated
  <2>2. CASE e = EmptyContainer /\ k.dir
    BY <2>2 DEF WrittenBy
  <2>3. CASE ~(e = EmptyContainer /\ k.dir)
    BY <1>2, <2>1, <2>3 DEF WrittenBy, Answered, Unlocated
  <2>4. QED
    BY <2>2, <2>3
<1>3. QED
  BY <1>1, <1>2 DEF WrittenBy

LEMMA StoredInit == Init => StoredWasWritten
BY DEF Init, StoredWasWritten, WrittenBy, Root, Container

LEMMA StoredStep ==
  TypeInv /\ AuthorizedInv /\ StoredWasWritten /\ [Next]_vars
    => StoredWasWritten'
<1> SUFFICES ASSUME TypeInv, AuthorizedInv, StoredWasWritten, [Next]_vars
             PROVE  StoredWasWritten'
  OBVIOUS
<1>1. \A k, e : WrittenBy(k, e) => WrittenBy(k, e)'
  BY WriterStays
<1>2. SUFFICES ASSUME NEW k \in DOMAIN store', NEW e, e = store'[k]
               PROVE  WrittenBy(k, e)'
  BY DEF StoredWasWritten, WrittenBy, Answered, Unlocated
<1>3. CASE k \in DOMAIN store /\ store[k] = e
  BY <1>1, <1>3 DEF StoredWasWritten
<1>4. CASE UNCHANGED store
  BY <1>2, <1>3, <1>4
<1>5. ASSUME NEW r \in Requests, ensure_ancestors(r) PROVE WrittenBy(k, e)'
  <2>1. CASE k \in DOMAIN store
    BY <1>2, <1>3, <1>5, <2>1 DEF ensure_ancestors, OrInsert
  <2>2. CASE k \notin DOMAIN store
    <3>1. e = EmptyContainer /\ k \in EnsuredAncestors(target[r])
      BY <1>2, <1>5, <2>2 DEF ensure_ancestors, OrInsert
    <3>2. k.dir
      BY <3>1 DEF EnsuredAncestors, Prefix, Container
    <3>3. QED
      BY <3>1, <3>2 DEF WrittenBy
  <2>3. QED
    BY <2>1, <2>2
<1>6. ASSUME NEW r \in Requests, put(r) PROVE WrittenBy(k, e)'
  <2>1. CASE k # target[r]
    BY <1>2, <1>3, <1>6, <2>1 DEF put, Insert
  <2>2. CASE k = target[r]
    <3>1. e = [body |-> r, ctype |-> req[r].ctype, dir |-> k.dir]
      BY <1>2, <1>6, <2>2 DEF put, Insert
    <3>s. PICK st : st = PutStatus(r, target[r] \notin DOMAIN store)
      OBVIOUS
    <3>2. /\ resp' = [resp EXCEPT ![r] = Answer(st, PutLink(r), None)]
          /\ st \in {201, 204, 500}
          /\ st = 500 => req[r].method # "PUT" /\ ~FitsHeader(target[r])
      BY <1>6, <3>s DEF put, PutStatus, Reply
    <3>3. Answer(st, PutLink(r), None) # None
      BY <3>2, SentinelAssumption DEF Answer, PutLink, Response
    <3>4. UNCHANGED <<target, req>> /\ resp'[r] = Answer(st, PutLink(r), None)
      BY <1>6, <3>2 DEF put, TypeInv, TypeOK
    <3>5. target[r] # None /\ req[r].method \in Writes
      BY <1>6, SentinelAssumption
      DEF put, TypeInv, Phases, AuthorizedInv, AuthorizedRequest
    <3>6. Answered(r, {201, 204})' \/ Unlocated(r)'
      BY <3>2, <3>3, <3>4, <3>5 DEF Answered, Answer, Unlocated, Writes
    <3>7. QED
      BY <2>2, <3>1, <3>4, <3>6 DEF WrittenBy
  <2>3. QED
    BY <2>1, <2>2
<1>7. ASSUME NEW r \in Requests, handle_delete(r) PROVE WrittenBy(k, e)'
  BY <1>2, <1>3, <1>7 DEF handle_delete, Remove
<1>8. QED
  BY <1>4, <1>5, <1>6, <1>7, StoreSteps

(***************************************************************************)
(* The store holds nothing but empty containers and what writes put at     *)
(* their own keys that were accepted, or answered 500 for want of a header *)
(* that holds the new key: any other request that was refused, failed or   *)
(* lost leaves no content.                                                 *)
(***************************************************************************)
THEOREM ContentAccounted == Spec => []StoredWasWritten
<1>1. QED
  BY TypeInit, TypeStep, AuthorizedInit, AuthorizedStep, StoredInit,
     StoredStep, PTL DEF Spec

-----------------------------------------------------------------------------
\* What is served.

\* What accept_satisfied admits, by the parts of the two media types.
LEMMA AdmittedByParts ==
  ASSUME NEW accept, NEW ctype, accept_satisfied(accept, ctype)
  PROVE  accept = {} \/ \E t \in accept :
           {t.type, t.subtype} \subseteq {"*", ctype.type, ctype.subtype}
BY DEF accept_satisfied, TokenMatches, AnyRange

\* Only the two reading handlers answer 200.
LEMMA WhoAnswers200 ==
  ASSUME TypeInv, [Next]_vars, NEW r \in Requests,
         ~Answered(r, {200}), Answered(r, {200})'
  PROVE  handle_get(r) \/ handle_head(r)
<1> USE DEF TypeInv, TypeOK, Phases, Reply, Goto, Plain, Answer, Answered
<1>1. PICK q \in Requests : Client(q) \/ Serve(q)
  BY DEF Next, Quiescent, ChangePolicy, vars
<1>2. q = r
  BY <1>1, OthersStand
<1>3. CASE Client(r)
  BY <1>3 DEF Client, Receive, Arrive, ReadBody, BodyFails, Disconnect
<1>4. CASE \/ Authorization(r) \/ path_rejected(r) \/ not_found(r)
           \/ not_acceptable(r)
  BY <1>4
  DEF Authorization, PermissionReaderFails, Deny, Admit, path_rejected,
      not_found, not_acceptable
<1>5. CASE ensure_ancestors(r) \/ put(r)
  BY <1>5 DEF ensure_ancestors, put, PutStatus
<1>6. CASE \/ handle_delete(r) \/ handle_options(r) \/ handle_patch(r)
           \/ MethodNotAllowed(r)
  BY <1>6 DEF handle_delete, handle_options, handle_patch, MethodNotAllowed
<1>7. QED
  BY <1>1, <1>2, <1>3, <1>4, <1>5, <1>6 DEF Serve, Read

ServedRequest(r) ==
  Answered(r, {200}) =>
    LET e == resp[r].entry IN
      /\ e.dir = req[r].key.dir
      /\ resp[r].link = "container" <=> e.dir
      /\ req[r].accept = {} \/ \E t \in req[r].accept :
           {t.type, t.subtype} \subseteq {"*", e.ctype.type, e.ctype.subtype}
      /\ req[r].method = "GET" => WrittenBy(req[r].key, e)
      /\ req[r].method = "HEAD" => e.body = Empty

LEMMA ServedInit == Init => ServedWasWritten
BY DEF Init, ServedWasWritten, Answered

LEMMA ServedStep ==
  TypeInv /\ StoredWasWritten /\ ServedWasWritten /\ [Next]_vars
    => ServedWasWritten'
<1> SUFFICES ASSUME TypeInv, StoredWasWritten, ServedWasWritten, [Next]_vars,
                    NEW r \in Requests
             PROVE  ServedRequest(r)'
  BY DEF ServedWasWritten, ServedRequest
<1>1. ServedRequest(r)
  BY DEF ServedWasWritten, ServedRequest
<1>2. CASE Answered(r, {200})
  <2>1. resp'[r] = resp[r] /\ req'[r] = req[r]
    BY <1>2, AnswersStand DEF Answered
  <2>2. \A k, e : WrittenBy(k, e) => WrittenBy(k, e)'
    BY WriterStays
  <2>3. QED
    BY <1>1, <1>2, <2>1, <2>2 DEF ServedRequest
<1>k. PICK k : k = req[r].key
  OBVIOUS
<1>e. PICK e : e = store[k]
  OBVIOUS
<1>3. ASSUME handle_get(r) \/ handle_head(r)
      PROVE  /\ k \in DOMAIN store /\ k \in Key /\ e \in Entry
             /\ WrittenBy(k, e)' /\ e.dir = k.dir
             /\ req'[r] = req[r]
             /\ req[r].accept = {} \/ \E t \in req[r].accept :
                  {t.type, t.subtype} \subseteq {"*", e.ctype.type, e.ctype.subtype}
  <2>1. k \in DOMAIN store /\ accept_satisfied(req[r].accept, e.ctype)
        /\ req' = req
    BY <1>3, <1>k, <1>e DEF handle_get, handle_head
  <2>2. WrittenBy(k, e)
    BY <2>1, <1>e DEF StoredWasWritten
  <2>3. WrittenBy(k, e)'
    BY <2>2, WriterStays
  <2>4. e.dir = k.dir
    <3>1. k \in Key
      BY <2>1 DEF TypeInv, TypeOK
    <3>2. k.dir \in BOOLEAN
      BY <3>1 DEF Key
    <3>3. CASE e = EmptyContainer /\ k.dir
      BY <3>2, <3>3 DEF EmptyContainer
    <3>4. QED
      BY <2>2, <3>2, <3>3 DEF WrittenBy
  <2>5. req[r].accept = {} \/ \E t \in req[r].accept :
          {t.type, t.subtype} \subseteq {"*", e.ctype.type, e.ctype.subtype}
    BY <2>1, AdmittedByParts
  <2>6. QED
    BY <2>1, <2>3, <2>4, <2>5, <1>e DEF TypeInv, TypeOK
<1>4. CASE handle_get(r)
  <2>1. resp'[r] = Answer(200, LinkOf(e), e)
    BY <1>4, <1>k, <1>e DEF handle_get, Reply, TypeInv, TypeOK
  <2>2. req[r].method = "GET"
    BY <1>4 DEF handle_get, Handles, Reaches
  <2>3. QED
    BY <1>3, <1>4, <1>k, <2>1, <2>2 DEF ServedRequest, Answer, LinkOf
<1>5. CASE handle_head(r)
  <2>1. resp'[r] = Answer(200, IF e.dir THEN "container" ELSE "none",
                          [e EXCEPT !.body = Empty])
    BY <1>5, <1>k, <1>e DEF handle_head, Reply, TypeInv, TypeOK
  <2>2. req[r].method = "HEAD"
    BY <1>5 DEF handle_head, Handles, Reaches
  <2>3. QED
    BY <1>3, <1>5, <1>k, <2>1, <2>2 DEF ServedRequest, Answer, Entry
<1>6. QED
  BY <1>2, <1>4, <1>5, WhoAnswers200 DEF ServedRequest

(***************************************************************************)
(* No handler ever serves a torn, foreign or unacceptable entry: what a    *)
(* GET or HEAD shows was written as one piece by one accepted request.     *)
(***************************************************************************)
THEOREM ServedAccounted == Spec => []ServedWasWritten
<1>1. QED
  BY TypeInit, TypeStep, AuthorizedInit, AuthorizedStep, StoredInit,
     StoredStep, ServedInit, ServedStep, PTL DEF Spec

-----------------------------------------------------------------------------
\* Slugs.

\* ensure_ancestors visits the root and containers above the key.
LEMMA EnsuredAreAbove ==
  ASSUME NEW k \in Key
  PROVE  EnsuredAncestors(k) \subseteq {Root} \cup Ancestors(k)
<1> SUFFICES ASSUME NEW n \in EnsuredDepths(k)
             PROVE  Prefix(k, n) \in {Root} \cup Ancestors(k)
  BY DEF EnsuredAncestors
<1>1. k.path \in Seq(Names)
  BY DEF Key
<1>2. CASE n = 0
  <2>1. SubSeq(k.path, 1, 0) = <<>>
    BY <1>1
  <2>2. QED
    BY <1>2, <2>1 DEF Prefix, Root, Container
<1>3. CASE n < Depth(k)
  BY <1>3 DEF EnsuredDepths, Ancestors
<1>4. QED
  BY <1>2, <1>3 DEF EnsuredDepths

\* Above the new resource of a POST are its target and what is above that.
LEMMA AboveChild ==
  ASSUME NEW k \in Key, NEW r \in Requests
  PROVE  Ancestors(ChildKey(k, r)) \subseteq {Container(k.path)} \cup Ancestors(k)
<1> DEFINE c == ChildKey(k, r)
<1>1. k.path \in Seq(Names) /\ r \in Names
  BY SlugAssumption DEF Key
<1>2. c.path = Append(k.path, r)
  BY DEF ChildKey, Document
<1>3. Len(c.path) = Len(k.path) + 1 /\ Len(k.path) \in Nat
  BY <1>1, <1>2
<1>4. SUFFICES ASSUME NEW n \in 0..Len(k.path)
               PROVE  Prefix(c, n) \in {Container(k.path)} \cup Ancestors(k)
  BY <1>3 DEF Ancestors, Depth
<1>5. SubSeq(c.path, 1, n) = SubSeq(k.path, 1, n)
  BY <1>1, <1>2
<1>6. CASE n = Len(k.path)
  <2>1. SubSeq(k.path, 1, n) = k.path
    BY <1>1, <1>6
  <2>2. QED
    BY <1>5, <2>1 DEF Prefix
<1>7. CASE n < Len(k.path)
  BY <1>5, <1>7 DEF Prefix, Ancestors, Depth
<1>8. QED
  BY <1>3, <1>6, <1>7

\* A key mentions a slug when a segment of its path is that slug.
Mentions(k, r) == \E n \in 1..Len(k.path) : k.path[n] = r

LEMMA AboveMentionsLess ==
  ASSUME NEW k \in Key, NEW r, ~Mentions(k, r)
  PROVE  /\ ~Mentions(Root, r)
         /\ ~Mentions(Container(k.path), r)
         /\ \A a \in Ancestors(k) : ~Mentions(a, r)
<1>1. k.path \in Seq(Names)
  BY DEF Key
<1>2. ~Mentions(Root, r) /\ ~Mentions(Container(k.path), r)
  BY DEF Mentions, Root, Container
<1>3. ASSUME NEW n \in 0..Len(k.path) PROVE ~Mentions(Prefix(k, n), r)
  BY <1>1, PrefixOfSeq DEF Mentions, Prefix, Container
<1>4. QED
  BY <1>2, <1>3 DEF Ancestors, Depth

LEMMA ChildMentions ==
  ASSUME NEW k \in Key, NEW q \in Requests
  PROVE  /\ Mentions(ChildKey(k, q), q)
         /\ \A r : r # q /\ ~Mentions(k, r) => ~Mentions(ChildKey(k, q), r)
<1>1. k.path \in Seq(Names) /\ q \in Names
  BY SlugAssumption DEF Key
<1>2. ChildKey(k, q).path = Append(k.path, q)
  BY DEF ChildKey, Document
<1>3. QED
  BY <1>1, <1>2 DEF Mentions

\* The key handle_put or handle_post hands to LdpStore::put.
Place(r) == IF req[r].method = "PUT" THEN req[r].key ELSE ChildKey(req[r].key, r)

\* Nobody knows the slug of a request before that request is over: no entry,
\* no request line and no other request's target mentions it.
Unnamed(r) ==
  /\ \A k \in DOMAIN store : ~Mentions(k, r)
  /\ \A q \in Requests : req[q] # None => ~Mentions(req[q].key, r)
  /\ \A q \in Requests : q # r /\ target[q] # None => ~Mentions(target[q], r)

SlugInv ==
  /\ \A r \in Requests : pc[r] # "done" => Unnamed(r)
  /\ \A r \in Requests : pc[r] \in {"ensure", "insert"} => target[r] = Place(r)
  /\ \A r \in Requests : pc[r] = "new" => req[r] = None

LEMMA SlugInit == Init => SlugInv
BY DEF Init, SlugInv, Unnamed, Mentions, Root, Container

LEMMA NotMentioned ==
  ASSUME TypeInv, SlugInv, NEW q \in Requests, pc[q] = "ensure",
         NEW r \in Requests, pc[r] # "done"
  PROVE  \A a \in EnsuredAncestors(target[q]) : ~Mentions(a, r)
<1>1. req[q].key \in Key /\ req[q] # None
  BY SentinelAssumption DEF TypeInv, Phases, Request
<1>2. ~Mentions(req[q].key, r)
  BY <1>1 DEF SlugInv, Unnamed
<1>3. target[q] \in Key /\ target[q] = Place(q)
  BY DEF SlugInv, TypeInv, Phases
<1>4. EnsuredAncestors(target[q]) \subseteq {Root} \cup Ancestors(target[q])
  BY <1>3, EnsuredAreAbove
<1>5. Ancestors(target[q]) \subseteq
        {Container(req[q].key.path)} \cup Ancestors(req[q].key)
  BY <1>1, <1>3, AboveChild DEF Place
<1>6. QED
  BY <1>1, <1>2, <1>4, <1>5, AboveMentionsLess

LEMMA SlugStep == TypeInv /\ SlugInv /\ [Next]_vars => SlugInv'
<1> SUFFICES ASSUME TypeInv, SlugInv, [Next]_vars PROVE SlugInv'
  OBVIOUS
<1>1. CASE ChangePolicy \/ UNCHANGED vars
  BY <1>1 DEF ChangePolicy, vars, SlugInv, Unnamed, Place
<1>2. ASSUME NEW q \in Requests, Client(q) \/ Serve(q) PROVE SlugInv'
  <2> USE DEF TypeInv, TypeOK, Phases, Reply, Goto, Handles, Reaches
  <2>1. \A r \in Requests : r # q =>
          /\ pc'[r] = pc[r] /\ req'[r] = req[r] /\ target'[r] = target[r]
    BY <1>2, OthersStand
  <2>2. pc[q] # "done"
    BY <1>2
    DEF Client, Serve, Authorization, Read, Receive, Arrive, ReadBody,
        BodyFails, Disconnect, PermissionReaderFails, Deny, Admit,
        path_rejected, not_found, not_acceptable, handle_get, handle_head,
        ensure_ancestors, put, handle_delete, handle_options, handle_patch,
        MethodNotAllowed
  <2>3. CASE Receive(q)
    <3>1. PICK p \in [agent: Agents, method: Methods,
                      key: Targets \cup Locations,
                      spelling: Spellings, ctype: ContentTypes,
                      accept: Accepts] : Arrive(q, p)
      BY <2>3 DEF Receive
    <3>2. ASSUME NEW r \in Requests, pc[r] # "done"
          PROVE  ~Mentions(p.key, r)
      <4>1. CASE p.key \in Targets
        BY <4>1, SlugAssumption DEF Mentions
      <4>2. CASE p.key \in Locations
        <5>1. PICK x \in Requests : resp[x] # None /\ resp[x].status = 201
                                    /\ p.key = target[x]
          BY <4>2 DEF Locations
        <5>2. pc[x] = "done" /\ target[x] # None
          BY <5>1, SentinelAssumption
        <5>3. QED
          BY <3>2, <5>1, <5>2 DEF SlugInv, Unnamed
      <4>3. QED
        BY <4>1, <4>2
    <3>3. pc' = [pc EXCEPT ![q] = "authz"] /\ req' = [req EXCEPT ![q] = p]
          /\ UNCHANGED <<store, target>>
      BY <3>1 DEF Arrive
    <3>4. QED
      BY <3>2, <3>3, <2>2 DEF SlugInv, Unnamed, Place
  <2>4. CASE ReadBody(q)
    <3>1. req[q].key \in Key /\ req[q] # None
      BY <2>4, SentinelAssumption DEF ReadBody, Request
    <3>2. /\ pc[q] = "handler" /\ UNCHANGED <<store, req>>
          /\ target' = [target EXCEPT ![q] = Place(q)]
          /\ pc' = [pc EXCEPT ![q] = "ensure"]
      BY <2>4 DEF ReadBody, Place
    <3>3. ASSUME NEW r \in Requests, pc[r] # "done", r # q
          PROVE  ~Mentions(Place(q), r)
      BY <3>1, <3>3, ChildMentions DEF SlugInv, Unnamed, Place
    <3>4. QED
      BY <3>2, <3>3 DEF SlugInv, Unnamed, Place
  <2>5. CASE ensure_ancestors(q)
    <3>1. /\ pc[q] = "ensure" /\ UNCHANGED <<req, target>>
          /\ DOMAIN store' = DOMAIN store \cup EnsuredAncestors(target[q])
          /\ pc' = [pc EXCEPT ![q] = "insert"]
      BY <2>5 DEF ensure_ancestors, OrInsert
    <3>2. ASSUME NEW r \in Requests, pc[r] # "done"
          PROVE  \A a \in EnsuredAncestors(target[q]) : ~Mentions(a, r)
      BY <3>1, <3>2, NotMentioned
    <3>3. QED
      BY <3>1, <3>2 DEF SlugInv, Unnamed, Place
  <2>6. CASE put(q)
    <3>1. /\ pc[q] = "insert" /\ UNCHANGED <<req, target>>
          /\ DOMAIN store' = DOMAIN store \cup {target[q]}
          /\ pc' = [pc EXCEPT ![q] = "done"]
      BY <2>6 DEF put, Insert
    <3>2. target[q] # None
      BY <3>1, SentinelAssumption
    <3>3. QED
      BY <3>1, <3>2 DEF SlugInv, Unnamed, Place
  <2>7. CASE handle_delete(q)
    <3>1. /\ pc[q] = "handler" /\ UNCHANGED <<req, target>>
          /\ DOMAIN store' \subseteq DOMAIN store
          /\ pc' = [pc EXCEPT ![q] = "done"]
      BY <2>7 DEF handle_delete, Remove
    <3>2. QED
      BY <3>1 DEF SlugInv, Unnamed, Place
  <2>8. ASSUME \/ BodyFails(q) \/ Disconnect(q) \/ Authorization(q)
               \/ path_rejected(q) \/ Read(q)
               \/ handle_options(q) \/ handle_patch(q) \/ MethodNotAllowed(q)
        PROVE  SlugInv'
    <3>1. /\ UNCHANGED <<store, req, target>> /\ pc[q] \in {"authz", "handler"}
          /\ \E l \in {"handler", "done", "lost"} : pc' = [pc EXCEPT ![q] = l]
      BY <2>8
      DEF BodyFails, Disconnect, Authorization, PermissionReaderFails, Deny,
          Admit, path_rejected, Read, not_found, not_acceptable, handle_get,
          handle_head, handle_options, handle_patch, MethodNotAllowed
    <3>2. QED
      BY <3>1 DEF SlugInv, Unnamed, Place
  <2>9. QED
    BY <1>2, <2>3, <2>4, <2>5, <2>6, <2>7, <2>8 DEF Client, Serve
<1>3. QED
  BY <1>1, <1>2 DEF Next, Quiescent

\* The resource of a POST is new.
LEMMA PostIsFresh ==
  ASSUME TypeInv, SlugInv, NEW r \in Requests, pc[r] = "insert",
         req[r].method # "PUT"
  PROVE  target[r] \notin DOMAIN store
<1>1. req[r].key \in Key
  BY DEF TypeInv, Phases, Request
<1>2. Mentions(target[r], r)
  BY <1>1, ChildMentions DEF SlugInv, Place
<1>3. QED
  BY <1>2 DEF SlugInv, Unnamed

(***************************************************************************)
(* No client loses content behind its back: the slug of a POST hits no     *)
(* resource, ensure_ancestors overwrites none, and whoever replaces or     *)
(* removes one has asked for that very key and is told.                    *)
(***************************************************************************)
THEOREM ContentNeverLost == Spec => ReplacedOnlyByRequest
<1> DEFINE Told(k) ==
      \/ k \in DOMAIN store' /\ store'[k] = store[k]
      \/ \E r \in Requests :
           /\ resp[r] = None
           /\ resp'[r] # None /\ resp'[r].status \in {201, 204}
           /\ req[r].method \in {"PUT", "DELETE"}
           /\ req[r].key = k
<1>1. Spec => [](TypeInv /\ AuthorizedInv /\ SlugInv)
  BY TypeInit, TypeStep, AuthorizedInit, AuthorizedStep, SlugInit, SlugStep, PTL
  DEF Spec
<1>2. TypeInv /\ AuthorizedInv /\ SlugInv /\ [Next]_vars
        => [\A k \in DOMAIN store : Told(k)]_vars
  <2> SUFFICES ASSUME TypeInv, AuthorizedInv, SlugInv, [Next]_vars,
                      NEW k \in DOMAIN store
               PROVE  Told(k)
    OBVIOUS
  <2>1. CASE UNCHANGED store
    BY <2>1
  <2>2. ASSUME NEW r \in Requests, ensure_ancestors(r) PROVE Told(k)
    BY <2>2 DEF ensure_ancestors, OrInsert
  <2>3. ASSUME NEW r \in Requests, put(r) PROVE Told(k)
    <3>1. CASE k # target[r]
      BY <2>3, <3>1 DEF put, Insert
    <3>2. CASE k = target[r]
      <4>1. pc[r] = "insert" /\ resp[r] = None
        BY <2>3 DEF put, TypeInv, Phases
      <4>2. req[r].method = "PUT"
        BY <3>2, <4>1, PostIsFresh
      <4>3. req[r].key = k
        BY <3>2, <4>1, <4>2 DEF SlugInv, Place
      <4>4. resp' = [resp EXCEPT ![r] = Answer(204, PutLink(r), None)]
        BY <2>3, <3>2, <4>2 DEF put, Reply, PutStatus
      <4>5. Answer(204, PutLink(r), None) # None
        BY SentinelAssumption DEF Answer, PutLink, Response
      <4>6. QED
        BY <4>1, <4>2, <4>3, <4>4, <4>5 DEF Answer, TypeInv, TypeOK
    <3>3. QED
      BY <3>1, <3>2
  <2>4. ASSUME NEW r \in Requests, handle_delete(r) PROVE Told(k)
    <3>1. CASE k # req[r].key
      BY <2>4, <3>1 DEF handle_delete, Remove
    <3>2. CASE k = req[r].key
      <4>1. resp[r] = None /\ req[r].method = "DELETE"
        BY <2>4 DEF handle_delete, Handles, Reaches, TypeInv, Phases
      <4>2. resp' = [resp EXCEPT ![r] = Plain(204)]
        BY <2>4, <3>2 DEF handle_delete, Reply
      <4>3. Plain(204) # None
        BY SentinelAssumption DEF Plain, Answer, Response
      <4>4. QED
        BY <3>2, <4>1, <4>2, <4>3 DEF Plain, Answer, TypeInv, TypeOK
    <3>3. QED
      BY <3>1, <3>2
  <2>5. QED
    BY <2>1, <2>2, <2>3, <2>4, StoreSteps
<1>3. QED
  BY <1>1, <1>2, PTL DEF Spec, ReplacedOnlyByRequest

-----------------------------------------------------------------------------
\* The ancestors of a new resource.

LEMMA NobodyDeletes ==
  ASSUME TypeInv, "DELETE" \notin Methods, NEW a
  PROVE  Deletions(a) = {}
<1>1. ASSUME NEW r \in Requests, resp[r] # None
      PROVE  req[r].method # "DELETE"
  BY <1>1 DEF TypeInv, Phases, Request
<1>2. QED
  BY <1>1 DEF Deletions, Answered

\* Only the second critical section of put ends there.
LEMMA InsertIsPut ==
  ASSUME TypeInv, [Next]_vars, NEW r \in Requests,
         pc[r] = "insert", pc'[r] = "done"
  PROVE  put(r)
<1>1. PICK q \in Requests : Client(q) \/ Serve(q)
  BY DEF Next, Quiescent, ChangePolicy, vars
<1>2. q = r
  BY <1>1, OthersStand
<1>3. QED
  BY <1>1, <1>2
  DEF Client, Serve, Authorization, Read, Receive, Arrive, ReadBody, BodyFails,
      Disconnect, PermissionReaderFails, Deny, Admit, path_rejected, Handles,
      Reaches, not_found, not_acceptable, handle_get, handle_head,
      ensure_ancestors, handle_delete, handle_options, handle_patch,
      MethodNotAllowed

LEMMA AncestorsThere ==
  ASSUME TypeInv, HierarchyInv, [Next]_vars, "DELETE" \notin Methods,
         NEW r \in Requests, pc[r] = "insert", pc'[r] = "done",
         Depth(target[r]) < SplitLimit
  PROVE  Ancestors(target[r]) \subseteq DOMAIN store'
<1>1. target[r] \in Key
  BY DEF TypeInv, Phases
<1>2. Len(target[r].path) \in Nat
  BY <1>1 DEF Key
<1>3. Ancestors(target[r]) \subseteq EnsuredAncestors(target[r])
  BY <1>2, SplitLimitAssumption
  DEF Ancestors, EnsuredAncestors, EnsuredDepths, Depth
<1>4. EnsuredAncestors(target[r]) \subseteq DOMAIN store
  BY NobodyDeletes DEF HierarchyInv, Held
<1>5. DOMAIN store \subseteq DOMAIN store'
  BY InsertIsPut DEF put, Insert
<1>6. QED
  BY <1>3, <1>4, <1>5

(***************************************************************************)
(* Where nobody deletes, LdpStore::put leaves every ancestor of a resource *)
(* that splitn(SplitLimit) takes apart, whatever runs between its two      *)
(* critical sections.                                                      *)
(***************************************************************************)
THEOREM ShallowAncestorsLeft ==
  ASSUME "DELETE" \notin Methods
  PROVE  Spec => [][\A r \in Requests :
                      pc[r] = "insert" /\ pc'[r] = "done"
                          /\ Depth(target[r]) < SplitLimit
                        => Ancestors(target[r]) \subseteq DOMAIN store']_vars
<1>1. TypeInv /\ HierarchyInv /\ [Next]_vars
        => [\A r \in Requests :
              pc[r] = "insert" /\ pc'[r] = "done"
                  /\ Depth(target[r]) < SplitLimit
                => Ancestors(target[r]) \subseteq DOMAIN store']_vars
  BY AncestorsThere
<1>2. QED
  BY <1>1, TypeInit, TypeStep, HierarchyInit, HierarchyStep, PTL DEF Spec

\* A key is no deeper than the targets clients know, but for the slugs.
Slugs(k) == {r \in Requests : Mentions(k, r)}
Shallow(k) == Depth(k) + Cardinality(Requests) < SplitLimit + Cardinality(Slugs(k))

DepthInv ==
  \A q \in Requests :
    /\ req[q] # None => Shallow(req[q].key)
    /\ target[q] # None => Shallow(target[q])

LEMMA SlugsFinite ==
  ASSUME IsFiniteSet(Requests), NEW k
  PROVE  /\ IsFiniteSet(Slugs(k)) /\ Cardinality(Slugs(k)) \in Nat
         /\ Cardinality(Requests) \in Nat
         /\ Cardinality(Slugs(k)) <= Cardinality(Requests)
<1>1. Slugs(k) \in SUBSET Requests
  BY DEF Slugs
<1>2. QED
  BY <1>1, FS_Subset, FS_CardinalityType

\* A slug that is not in a key yet makes the key of the child deeper by one.
LEMMA ChildIsShallow ==
  ASSUME IsFiniteSet(Requests), NEW k \in Key, NEW q \in Requests,
         ~Mentions(k, q), Shallow(k)
  PROVE  Shallow(ChildKey(k, q))
<1> DEFINE c == ChildKey(k, q)
<1>1. k.path \in Seq(Names) /\ q \in Names /\ c.path = Append(k.path, q)
  BY SlugAssumption DEF Key, ChildKey, Document
<1>2. PICK l \in Nat : l = Depth(k) /\ Depth(c) = l + 1
  BY <1>1 DEF Depth
<1>3. Slugs(c) = Slugs(k) \cup {q} /\ q \notin Slugs(k)
  BY <1>1 DEF Slugs, Mentions
<1>4. PICK m \in Nat, n \in Nat : m = Cardinality(Slugs(k)) /\ n = Cardinality(Requests)
  BY SlugsFinite
<1>5. Cardinality(Slugs(c)) = m + 1
  BY <1>3, <1>4, SlugsFinite, FS_AddElement
<1>6. l + n < SplitLimit + m
  BY <1>2, <1>4 DEF Shallow
<1>7. l + 1 + n < SplitLimit + (m + 1)
  BY <1>6, SplitLimitAssumption
<1>8. QED
  BY <1>2, <1>4, <1>5, <1>7 DEF Shallow

LEMMA DepthStep ==
  ASSUME IsFiniteSet(Requests),
         \A k \in Targets : Depth(k) + Cardinality(Requests) < SplitLimit,
         TypeInv, SlugInv, DepthInv, [Next]_vars
  PROVE  DepthInv'
<1>1. CASE UNCHANGED <<req, target>>
  BY <1>1 DEF DepthInv
<1>2. ASSUME NEW q \in Requests, Receive(q) PROVE DepthInv'
  <2>1. PICK p \in [agent: Agents, method: Methods, key: Targets \cup Locations,
                    spelling: Spellings, ctype: ContentTypes, accept: Accepts] :
                      Arrive(q, p)
    BY <1>2 DEF Receive
  <2>2. CASE p.key \in Targets
    <3>1. Depth(p.key) \in Nat
      BY <2>2, SlugAssumption DEF Key, Depth
    <3>2. PICK d \in Nat, m \in Nat, n \in Nat :
            /\ d = Depth(p.key) /\ m = Cardinality(Slugs(p.key))
            /\ n = Cardinality(Requests)
      BY <3>1, SlugsFinite
    <3>3. d + n < SplitLimit + m
      BY <2>2, <3>2, SplitLimitAssumption
    <3>4. Shallow(p.key)
      BY <3>2, <3>3 DEF Shallow
    <3>5. QED
      BY <2>1, <3>4 DEF Arrive, DepthInv, TypeInv, TypeOK
  <2>3. CASE p.key \in Locations
    <3>1. PICK x \in Requests :
            resp[x] # None /\ resp[x].status = 201 /\ p.key = target[x]
      BY <2>3 DEF Locations
    <3>2. target[x] # None
      BY <3>1, SentinelAssumption DEF TypeInv, Phases
    <3>3. Shallow(p.key)
      BY <3>1, <3>2 DEF DepthInv
    <3>4. QED
      BY <2>1, <3>3 DEF Arrive, DepthInv, TypeInv, TypeOK
  <2>4. QED
    BY <2>2, <2>3
<1>3. ASSUME NEW q \in Requests, ReadBody(q) PROVE DepthInv'
  <2>1. /\ pc[q] = "handler" /\ UNCHANGED req
        /\ target' = [target EXCEPT ![q] = Place(q)]
    BY <1>3 DEF ReadBody, Handles, Reaches, Place
  <2>2. req[q].key \in Key /\ req[q] # None
    BY <2>1, SentinelAssumption DEF TypeInv, Phases, Request
  <2>3. Shallow(req[q].key) /\ ~Mentions(req[q].key, q)
    BY <2>1, <2>2 DEF DepthInv, SlugInv, Unnamed
  <2>4. Shallow(Place(q))
    BY <2>2, <2>3, ChildIsShallow DEF Place
  <2>5. QED
    BY <2>1, <2>4 DEF DepthInv, TypeInv, TypeOK
<1>4. QED
  BY <1>1, <1>2, <1>3
  DEF Next, Client, Serve, Authorization, Read, BodyFails, Disconnect,
      PermissionReaderFails, Deny, Admit, path_rejected, not_found,
      not_acceptable, handle_get, handle_head, ensure_ancestors, put,
      handle_delete, handle_options, handle_patch, MethodNotAllowed, Quiescent,
      ChangePolicy, vars

(***************************************************************************)
(* Where nobody deletes, and the targets leave room below the limit of     *)
(* splitn for a slug of every request, LdpStore::put does what it says: it *)
(* leaves every ancestor of the resource in the store.                     *)
(***************************************************************************)
THEOREM EveryAncestorLeft ==
  ASSUME "DELETE" \notin Methods, IsFiniteSet(Requests),
         \A k \in Targets : Depth(k) + Cardinality(Requests) < SplitLimit
  PROVE  Spec => PutLeavesEveryAncestor
<1>1. Init => DepthInv
  BY DEF Init, DepthInv
<1>2. TypeInv /\ SlugInv /\ DepthInv /\ [Next]_vars => DepthInv'
  BY DepthStep
<1>3. ASSUME TypeInv, DepthInv, NEW r \in Requests, pc[r] = "insert"
      PROVE  Depth(target[r]) < SplitLimit
  <2>1. target[r] \in Key /\ target[r] # None
    BY <1>3, SentinelAssumption DEF TypeInv, Phases
  <2>2. Depth(target[r]) \in Nat
    BY <2>1 DEF Key, Depth
  <2>3. PICK d \in Nat, m \in Nat, n \in Nat :
          /\ d = Depth(target[r]) /\ m = Cardinality(Slugs(target[r]))
          /\ n = Cardinality(Requests) /\ m <= n
    BY <2>2, SlugsFinite
  <2>4. d + n < SplitLimit + m
    BY <1>3, <2>1, <2>3 DEF DepthInv, Shallow
  <2>5. d < SplitLimit
    BY <2>3, <2>4, SplitLimitAssumption
  <2>6. QED
    BY <2>3, <2>5
<1>4. TypeInv /\ HierarchyInv /\ DepthInv /\ [Next]_vars
        => [\A r \in Requests :
              pc[r] = "insert" /\ pc'[r] = "done"
                => Ancestors(target[r]) \subseteq DOMAIN store']_vars
  BY <1>3, AncestorsThere
<1>5. QED
  BY <1>1, <1>2, <1>4, TypeInit, TypeStep, SlugInit, SlugStep, HierarchyInit,
     HierarchyStep, PTL
  DEF Spec, PutLeavesEveryAncestor

-----------------------------------------------------------------------------
\* The server implements ResourceMap.

\* ResourceMap's state, as LdpServer keeps it.
OpenRequests == {r \in Requests : pc[r] \notin {"new", "done", "lost"}}

AnswerOf(a) == IF a = None THEN None
               ELSE [status |-> a.status, entry |-> a.entry]

Answers == [r \in Requests |-> AnswerOf(resp[r])]

\* Both modules see the same keys.
LEMMA SameKeys ==
  /\ Abstract!Root = Root
  /\ \A k : Abstract!Ancestors(k) = Ancestors(k)
  /\ \A p : Abstract!Container(p) = Container(p)
  /\ \A p : Abstract!Document(p) = Document(p)
  /\ \A k : Abstract!FitsHeader(k) = FitsHeader(k)
BY DEF Abstract!FitsHeader, FitsHeader, Abstract!Root, Root,
       Abstract!Container, Container, Abstract!Document, Document,
       Abstract!Ancestors, Ancestors, Abstract!Depth, Depth, Abstract!Prefix,
       Prefix

\* A reply closes the abstract request, with its status and its entry.
LEMMA Closing ==
  ASSUME TypeInv, NEW r \in Requests, NEW a \in Response,
         Reply(r, a), UNCHANGED req
  PROVE  Abstract!Close(r, a.status, a.entry)
<1>1. OpenRequests' = OpenRequests \ {r}
  BY DEF OpenRequests, Reply, TypeInv, TypeOK
<1>2. AnswerOf(a) = [status |-> a.status, entry |-> a.entry]
  BY SentinelAssumption DEF AnswerOf
<1>3. Answers' = [Answers EXCEPT ![r] = AnswerOf(a)]
  BY DEF Answers, Reply, TypeInv, TypeOK
<1>4. QED
  BY <1>1, <1>2, <1>3
  DEF Abstract!Close, OpenRequests, Answers, AnswerOf

\* A step that answers nobody and leaves the store alone is no step.
LEMMA Stuttering ==
  ASSUME UNCHANGED <<store, req, resp>>, OpenRequests' = OpenRequests
  PROVE  UNCHANGED Abstract!vars
BY DEF Abstract!vars, OpenRequests

LEMMA ArriveArrives ==
  ASSUME TypeInv, SlugInv, NEW r \in Requests, Receive(r)
  PROVE  Abstract!Arrive(r)
<1>1. PICK q \in [agent: Agents, method: Methods, key: Targets \cup Locations,
                  spelling: Spellings, ctype: ContentTypes, accept: Accepts] :
                    Arrive(r, q)
  BY DEF Receive
<1>2. Locations \subseteq Key
  BY DEF Locations, TypeInv, Phases
<1>3. q \in Request
  BY <1>2, SlugAssumption DEF Request
<1>4. /\ pc[r] = "new" /\ UNCHANGED <<store, resp>>
      /\ req' = [req EXCEPT ![r] = q] /\ pc' = [pc EXCEPT ![r] = "authz"]
  BY <1>1 DEF Arrive, Goto
<1>5. req[r] = None
  BY <1>4 DEF SlugInv
<1>6. req'[r] = q
  BY <1>4 DEF TypeInv, TypeOK
<1>7. OpenRequests' = OpenRequests \cup {r}
  BY <1>4 DEF OpenRequests, TypeInv, TypeOK
<1>8. QED
  BY <1>3, <1>4, <1>5, <1>6, <1>7 DEF Abstract!Arrive, OpenRequests

LEMMA RefusalsRefuse ==
  ASSUME TypeInv, NEW r \in Requests,
         \/ PermissionReaderFails(r) \/ Deny(r) \/ path_rejected(r)
         \/ BodyFails(r) \/ handle_options(r) \/ handle_patch(r)
         \/ MethodNotAllowed(r)
  PROVE  Abstract!Refuse(r)
<1>1. r \in OpenRequests /\ UNCHANGED <<store, req>>
  BY DEF OpenRequests, PermissionReaderFails, Deny, path_rejected, BodyFails,
         handle_options, handle_patch, MethodNotAllowed, Handles, Reaches
<1>2. PICK st \in {400, 401, 405, 415, 500, 204} :
        /\ Reply(r, Plain(st))
        /\ st = 204 => req[r].method = "OPTIONS"
  BY DEF PermissionReaderFails, Deny, path_rejected, BodyFails, handle_options,
         handle_patch, MethodNotAllowed, Handles, Reaches
<1>3. Plain(st) \in Response /\ Plain(st).status = st /\ Plain(st).entry = None
  BY DEF Plain, Answer, Response
<1>4. Abstract!Close(r, st, None)
  <2>1. Abstract!Close(r, Plain(st).status, Plain(st).entry)
    BY <1>1, <1>2, <1>3, Closing
  <2>2. QED
    BY <1>3, <2>1
<1>5. QED
  BY <1>1, <1>2, <1>4 DEF Abstract!Refuse, OpenRequests

LEMMA DisconnectVanishes ==
  ASSUME TypeInv, NEW r \in Requests, Disconnect(r)
  PROVE  Abstract!Vanish(r)
<1>1. /\ pc[r] \in {"authz", "handler"} /\ UNCHANGED <<store, req, resp>>
      /\ pc' = [pc EXCEPT ![r] = "lost"]
  BY DEF Disconnect, Handles, Reaches, Goto
<1>2. OpenRequests' = OpenRequests \ {r} /\ r \in OpenRequests
  BY <1>1 DEF OpenRequests, TypeInv, TypeOK
<1>3. QED
  BY <1>1, <1>2 DEF Abstract!Vanish, OpenRequests

LEMMA ReadsLook ==
  ASSUME TypeInv, NEW r \in Requests, Read(r)
  PROVE  Abstract!Look(r)
<1> DEFINE k == req[r].key
<1>1. /\ pc[r] = "handler" /\ req[r].method \in {"GET", "HEAD"}
      /\ UNCHANGED <<store, req>>
  BY DEF Read, not_found, not_acceptable, handle_get, handle_head, Handles,
         Reaches, Reads
<1>2. Abstract!UnderWay(r, {"GET", "HEAD"})
  BY <1>1 DEF Abstract!UnderWay
<1>3. \A st \in {404, 406} :
        /\ Plain(st) \in Response
        /\ Plain(st).status = st /\ Plain(st).entry = None
  BY DEF Plain, Answer, Response
<1>4. CASE not_found(r)
  <2>1. k \notin DOMAIN store /\ Reply(r, Plain(404))
    BY <1>4 DEF not_found
  <2>2. Abstract!Close(r, Plain(404).status, Plain(404).entry)
    BY <1>1, <1>3, <2>1, Closing
  <2>3. QED
    BY <1>1, <1>2, <1>3, <2>1, <2>2 DEF Abstract!Look
<1>5. CASE not_acceptable(r)
  <2>1. k \in DOMAIN store /\ Reply(r, Plain(406))
    BY <1>5 DEF not_acceptable
  <2>2. Abstract!Close(r, Plain(406).status, Plain(406).entry)
    BY <1>1, <1>3, <2>1, Closing
  <2>3. QED
    BY <1>1, <1>2, <1>3, <2>1, <2>2 DEF Abstract!Look
<1>6. CASE handle_get(r)
  <2>e. PICK e : e = store[k]
    OBVIOUS
  <2>a. PICK a : a = Answer(200, LinkOf(e), e)
    OBVIOUS
  <2>1. k \in DOMAIN store /\ Reply(r, a) /\ req[r].method = "GET"
    BY <1>6, <2>e, <2>a DEF handle_get, Handles, Reaches
  <2>2. a \in Response /\ a.status = 200 /\ a.entry = e
    BY <2>1, <2>e, <2>a DEF Answer, Response, LinkOf, TypeInv, TypeOK
  <2>3. Abstract!Close(r, a.status, a.entry)
    BY <1>1, <2>1, <2>2, Closing
  <2>4. Abstract!Close(r, 200, e)
    BY <2>2, <2>3
  <2>5. QED
    BY <1>1, <1>2, <2>1, <2>4, <2>e DEF Abstract!Look, Abstract!Close
<1>7. CASE handle_head(r)
  <2>s. PICK shown : shown = [store[k] EXCEPT !.body = Empty]
    OBVIOUS
  <2>a. PICK a : a = Answer(200, IF store[k].dir THEN "container" ELSE "none",
                            shown)
    OBVIOUS
  <2>1. k \in DOMAIN store /\ Reply(r, a) /\ req[r].method = "HEAD"
    BY <1>7, <2>s, <2>a DEF handle_head, Handles, Reaches
  <2>2. a \in Response /\ a.status = 200 /\ a.entry = shown
    <3>1. store[k] \in Entry
      BY <2>1 DEF TypeInv, TypeOK
    <3>2. shown \in Entry
      BY <2>s, <3>1 DEF Entry
    <3>3. QED
      BY <2>a, <3>2 DEF Answer, Response
  <2>3. Abstract!Close(r, a.status, a.entry)
    BY <1>1, <2>1, <2>2, Closing
  <2>4. Abstract!Close(r, 200, shown)
    BY <2>2, <2>3
  <2>5. QED
    BY <1>1, <1>2, <2>1, <2>4, <2>s DEF Abstract!Look, Abstract!Close
<1>8. QED
  BY <1>4, <1>5, <1>6, <1>7 DEF Read

LEMMA EnsuredAppear ==
  ASSUME TypeInv, AuthorizedInv, SlugInv, NEW r \in Requests,
         ensure_ancestors(r)
  PROVE  Abstract!Appear(r)
<1> DEFINE ks == EnsuredAncestors(target[r]) \ DOMAIN store
<1>1. /\ pc[r] = "ensure" /\ UNCHANGED <<req, resp>>
      /\ store' = OrInsert(store, EnsuredAncestors(target[r]))
      /\ pc' = [pc EXCEPT ![r] = "insert"]
  BY DEF ensure_ancestors, Goto
<1>2. req[r].key \in Key /\ target[r] \in Key /\ target[r] = Place(r)
  BY <1>1 DEF TypeInv, Phases, SlugInv, Request
<1>3. req[r].method \in {"PUT", "POST"}
  BY <1>1 DEF AuthorizedInv, AuthorizedRequest, Writes
<1>4. EnsuredAncestors(target[r]) \subseteq {Root} \cup Ancestors(target[r])
  BY <1>2, EnsuredAreAbove
<1>5. EnsuredAncestors(target[r]) \subseteq
        {Root} \cup Abstract!Above(req[r])
  <2>1. CASE req[r].method = "PUT"
    BY <1>2, <1>4, <2>1, SameKeys DEF Place, Abstract!Above
  <2>2. CASE req[r].method # "PUT"
    <3>1. Ancestors(target[r]) \subseteq
            {Container(req[r].key.path)} \cup Ancestors(req[r].key)
      BY <1>2, <2>2, AboveChild DEF Place
    <3>2. QED
      BY <1>4, <2>2, <3>1, SameKeys DEF Abstract!Above
  <2>3. QED
    BY <2>1, <2>2
<1>6. Root \in Abstract!Above(req[r])
  <2>1. CASE req[r].method = "PUT"
    BY <2>1, SameKeys DEF Abstract!Above
  <2>2. CASE req[r].method # "PUT"
    <3>1. CASE Depth(req[r].key) = 0
      <4>1. req[r].key.path = <<>>
        BY <1>2, <3>1 DEF Depth, Key
      <4>2. QED
        BY <2>2, <4>1, SameKeys DEF Abstract!Above, Root
    <3>2. CASE Depth(req[r].key) # 0
      <4>1. 0 \in {m \in 0..Depth(req[r].key) : m < Depth(req[r].key)}
        BY <1>2, <3>2 DEF Depth, Key
      <4>2. Prefix(req[r].key, 0) = Root
        <5>1. req[r].key.path \in Seq(Names)
          BY <1>2 DEF Key
        <5>2. SubSeq(req[r].key.path, 1, 0) = <<>>
          BY <5>1
        <5>3. QED
          BY <5>2 DEF Prefix, Root, Container
      <4>3. Root \in Ancestors(req[r].key)
        BY <4>1, <4>2 DEF Ancestors
      <4>4. QED
        BY <2>2, <4>3, SameKeys DEF Abstract!Above
    <3>3. QED
      BY <3>1, <3>2
  <2>3. QED
    BY <2>1, <2>2
<1>7. ks \in SUBSET (Abstract!Above(req[r]) \ DOMAIN store)
  BY <1>5, <1>6
<1>8. store' = [x \in DOMAIN store \cup ks |->
                  IF x \in ks THEN EmptyContainer ELSE store[x]]
  BY <1>1 DEF OrInsert
<1>9. OpenRequests' = OpenRequests /\ r \in OpenRequests
  BY <1>1 DEF OpenRequests, TypeInv, TypeOK
<1>10. Abstract!UnderWay(r, {"PUT", "POST"})
  BY <1>3, <1>9 DEF Abstract!UnderWay, OpenRequests
<1> HIDE DEF ks
<1>11. QED
  BY <1>1, <1>7, <1>8, <1>9, <1>10 DEF Abstract!Appear, OpenRequests

LEMMA PutWrites ==
  ASSUME TypeInv, AuthorizedInv, SlugInv, NEW r \in Requests, put(r)
  PROVE  Abstract!Write(r)
<1> DEFINE k == target[r]
<1>s. PICK st : st = Abstract!WriteStatus(req[r], k)
  OBVIOUS
<1>a. PICK a : a = Answer(PutStatus(r, k \notin DOMAIN store), PutLink(r), None)
  OBVIOUS
<1>1. /\ pc[r] = "insert" /\ UNCHANGED req /\ Reply(r, a)
      /\ store' = Insert(store, k, [body |-> r, ctype |-> req[r].ctype,
                                    dir |-> k.dir])
  BY <1>a DEF put
<1>2. req[r].key \in Key /\ k = Place(r)
  BY <1>1 DEF TypeInv, Phases, SlugInv, Request
<1>3. req[r].method \in {"PUT", "POST"}
  BY <1>1 DEF AuthorizedInv, AuthorizedRequest, Writes
<1>4. a \in Response /\ a.entry = None /\ a.status = st
  <2>1. req[r].method = "POST" => k \notin DOMAIN store
    BY <1>1, PostIsFresh
  <2>2. QED
    BY <1>3, <1>s, <1>a, <2>1, SameKeys
    DEF Answer, PutStatus, PutLink, Response, Abstract!WriteStatus
<1>5. Abstract!Close(r, st, None)
  <2>1. Abstract!Close(r, a.status, a.entry)
    BY <1>1, <1>4, Closing
  <2>2. QED
    BY <1>4, <2>1
<1>6. k \in Abstract!Places(req[r])
  <2>1. CASE req[r].method = "PUT"
    BY <1>2, <2>1 DEF Place, Abstract!Places
  <2>2. CASE req[r].method # "PUT"
    <3>1. k = Document(Append(req[r].key.path, r)) /\ r \in Names
      BY <1>2, <2>2, SlugAssumption DEF Place, ChildKey
    <3>2. k \notin DOMAIN store
      BY <1>1, <2>2, PostIsFresh
    <3>3. QED
      BY <2>2, <3>1, <3>2, SameKeys DEF Abstract!Places
  <2>3. QED
    BY <2>1, <2>2
<1>7. Abstract!UnderWay(r, {"PUT", "POST"})
  BY <1>1, <1>3 DEF Abstract!UnderWay
<1> HIDE DEF k
<1>8. QED
  BY <1>1, <1>s, <1>5, <1>6, <1>7 DEF Abstract!Write, Abstract!Close, Insert

LEMMA DeleteDeletes ==
  ASSUME TypeInv, NEW r \in Requests, handle_delete(r)
  PROVE  Abstract!Delete(r)
<1>s. PICK st : st = IF req[r].key \in DOMAIN store THEN 204 ELSE 404
  OBVIOUS
<1>1. /\ pc[r] = "handler" /\ req[r].method = "DELETE" /\ UNCHANGED req
      /\ Reply(r, Plain(st)) /\ store' = Remove(store, req[r].key)
  BY <1>s DEF handle_delete, Handles, Reaches
<1>2. Plain(st) \in Response /\ Plain(st).status = st /\ Plain(st).entry = None
  BY <1>s DEF Plain, Answer, Response
<1>3. Abstract!Close(r, st, None)
  <2>1. Abstract!Close(r, Plain(st).status, Plain(st).entry)
    BY <1>1, <1>2, Closing
  <2>2. QED
    BY <1>2, <2>1
<1>4. Abstract!UnderWay(r, {"DELETE"})
  BY <1>1 DEF Abstract!UnderWay
<1>5. QED
  BY <1>1, <1>s, <1>3, <1>4 DEF Abstract!Delete, Abstract!Close, Remove

LEMMA AbstractStep ==
  TypeInv /\ AuthorizedInv /\ SlugInv /\ [Next]_vars
    => [Abstract!Next]_(Abstract!vars)
<1> SUFFICES ASSUME TypeInv, AuthorizedInv, SlugInv, [Next]_vars
             PROVE  Abstract!Next \/ UNCHANGED Abstract!vars
  OBVIOUS
<1>1. ASSUME NEW r \in Requests, Client(r) \/ Serve(r)
      PROVE  Abstract!Next \/ UNCHANGED Abstract!vars
  <2>1. CASE Receive(r)
    BY <2>1, ArriveArrives DEF Abstract!Next
  <2>2. CASE \/ PermissionReaderFails(r) \/ Deny(r) \/ BodyFails(r)
             \/ path_rejected(r)
             \/ handle_options(r) \/ handle_patch(r) \/ MethodNotAllowed(r)
    BY <2>2, RefusalsRefuse DEF Abstract!Next
  <2>3. CASE Disconnect(r)
    BY <2>3, DisconnectVanishes DEF Abstract!Next
  <2>4. CASE Read(r)
    BY <2>4, ReadsLook DEF Abstract!Next
  <2>5. CASE ensure_ancestors(r)
    BY <2>5, EnsuredAppear DEF Abstract!Next
  <2>6. CASE put(r)
    BY <2>6, PutWrites DEF Abstract!Next
  <2>7. CASE handle_delete(r)
    BY <2>7, DeleteDeletes DEF Abstract!Next
  <2>8. CASE Admit(r) \/ ReadBody(r)
    <3>1. UNCHANGED <<store, req, resp>> /\ OpenRequests' = OpenRequests
      BY <2>8 DEF Admit, ReadBody, Handles, Reaches, Goto, OpenRequests,
                  TypeInv, TypeOK
    <3>2. QED
      BY <3>1, Stuttering
  <2>9. QED
    BY <1>1, <2>1, <2>2, <2>3, <2>4, <2>5, <2>6, <2>7, <2>8
    DEF Client, Serve, Authorization
<1>2. CASE ChangePolicy \/ UNCHANGED vars
  BY <1>2, Stuttering DEF ChangePolicy, vars, OpenRequests
<1>3. QED
  BY <1>1, <1>2 DEF Next, Quiescent

LEMMA AbstractInit == Init => Abstract!Init
<1> SUFFICES ASSUME Init PROVE Abstract!Init
  OBVIOUS
<1>1. OpenRequests = {}
  BY DEF Init, OpenRequests
<1>2. Answers = [r \in Requests |-> None]
  BY DEF Init, Answers, AnswerOf
<1>3. QED
  BY <1>1, <1>2, SameKeys
  DEF Init, Abstract!Init, OpenRequests, Answers, AnswerOf

(***************************************************************************)
(* LdpStore::put takes its lock twice and nobody notices: every request    *)
(* takes effect at one instant, for any number of clients, keys and types. *)
(***************************************************************************)
THEOREM ServerIsResourceMap == Spec => ImplementsResourceMap
<1>1. Spec => [](TypeInv /\ AuthorizedInv /\ SlugInv)
  BY TypeInit, TypeStep, AuthorizedInit, AuthorizedStep, SlugInit, SlugStep, PTL
  DEF Spec
<1>2. QED
  BY <1>1, AbstractInit, AbstractStep, PTL
  DEF Spec, ImplementsResourceMap, Abstract!Spec

-----------------------------------------------------------------------------
\* Existence.

\* Only finitely many requests have arrived, so what they did can be counted.
Started == {r \in Requests : pc[r] # "new"}

StartedInv == IsFiniteSet(Started)

LEMMA StartedInit == Init => StartedInv
<1> SUFFICES ASSUME Init PROVE StartedInv
  OBVIOUS
<1>1. Started = {}
  BY DEF Init, Started
<1>2. QED
  BY <1>1, FS_EmptySet DEF StartedInv

LEMMA StartedStep ==
  TypeInv /\ StartedInv /\ [Next]_vars => StartedInv'
<1> SUFFICES ASSUME TypeInv, StartedInv, [Next]_vars
             PROVE  StartedInv'
  OBVIOUS
<1>1. ASSUME NEW q \in Requests, Client(q) \/ Serve(q)
      PROVE  Started' \subseteq Started \cup {q}
  BY <1>1, OthersStand DEF Started
<1>2. CASE ChangePolicy \/ UNCHANGED vars
  BY <1>2 DEF ChangePolicy, vars, Started, StartedInv
<1>3. ASSUME NEW q \in Requests, Client(q) \/ Serve(q)
      PROVE  StartedInv'
  BY <1>1, <1>3, FS_AddElement, FS_Subset DEF StartedInv
<1>4. QED
  BY <1>2, <1>3 DEF Next, Quiescent

\* What ExistenceAccounted says of one key, touched or not.
Balanced(k) ==
  Cardinality(Creations(k)) + Cardinality(AutoCreations(k))
      + (IF k = Root THEN 1 ELSE 0) - Cardinality(Deletions(k))
    = (IF k \in DOMAIN store THEN 1 ELSE 0)

ExistenceInv == \A k : Balanced(k)

LEMMA Countable ==
  ASSUME TypeInv, AuthorizedInv, StartedInv, NEW k
  PROVE  /\ IsFiniteSet(Creations(k)) /\ Cardinality(Creations(k)) \in Nat
         /\ IsFiniteSet(AutoCreations(k)) /\ Cardinality(AutoCreations(k)) \in Nat
         /\ IsFiniteSet(Deletions(k)) /\ Cardinality(Deletions(k)) \in Nat
<1>1. Creations(k) \subseteq Started /\ Deletions(k) \subseteq Started
  BY DEF Creations, Deletions, Answered, Unlocated, Started, TypeInv, Phases
<1>2. AutoCreations(k) \subseteq Started
  BY DEF AutoCreations, Started, AuthorizedInv, AuthorizedRequest
<1>3. QED
  BY <1>1, <1>2, FS_Subset, FS_CardinalityType DEF StartedInv

\* The records of everybody but q stand.
LEMMA RecordsOfOthers ==
  ASSUME TypeInv, NEW q \in Requests, Client(q) \/ Serve(q), NEW k
  PROVE  /\ Creations(k)' \ {q} = Creations(k) \ {q}
         /\ AutoCreations(k)' \ {q} = AutoCreations(k) \ {q}
         /\ Deletions(k)' \ {q} = Deletions(k) \ {q}
BY OthersStand DEF Creations, AutoCreations, Deletions, Answered, Unlocated

\* A request without an answer is in no record but perhaps that of auto.
LEMMA NoRecordYet ==
  ASSUME TypeInv, AuthorizedInv, NEW q \in Requests, pc[q] # "done", NEW k
  PROVE  /\ q \notin Creations(k) /\ q \notin Deletions(k)
         /\ pc[q] # "insert" => q \notin AutoCreations(k)
BY DEF Creations, Deletions, AutoCreations, Answered, Unlocated, TypeInv,
       Phases, AuthorizedInv, AuthorizedRequest

\* Whoever takes a step is not done.
LEMMA NotDone ==
  ASSUME NEW q \in Requests, Client(q) \/ Serve(q)
  PROVE  pc[q] # "done"
BY DEF Client, Serve, Authorization, Read, Receive, Arrive, ReadBody,
       BodyFails, Disconnect, PermissionReaderFails, Deny, Admit,
       path_rejected, not_found, not_acceptable, handle_get, handle_head,
       ensure_ancestors, put, handle_delete, handle_options, handle_patch,
       MethodNotAllowed, Handles, Reaches

\* Steps that neither create nor remove leave no record.
LEMMA OthersLeaveNoRecord ==
  ASSUME TypeInv, AuthorizedInv, NEW q \in Requests, Client(q) \/ Serve(q),
         ~ensure_ancestors(q), ~put(q), ~handle_delete(q), NEW k
  PROVE  /\ UNCHANGED store
         /\ q \notin Creations(k)' /\ q \notin Deletions(k)'
         /\ auto'[q] = auto[q]
<1> USE DEF TypeInv, TypeOK, Phases, Reply, Goto, Plain, Answer, Handles,
            Reaches, Creations, Deletions, Answered, Unlocated, AuthorizedInv,
            AuthorizedRequest
<1>1. CASE Client(q)
  BY <1>1 DEF Client, Receive, Arrive, ReadBody, BodyFails, Disconnect
<1>2. CASE Authorization(q) \/ path_rejected(q)
  BY <1>2 DEF Authorization, PermissionReaderFails, Deny, Admit, path_rejected
<1>3. CASE Read(q)
  BY <1>3 DEF Read, not_found, not_acceptable, handle_get, handle_head
<1>4. CASE handle_options(q) \/ handle_patch(q) \/ MethodNotAllowed(q)
  BY <1>4 DEF handle_options, handle_patch, MethodNotAllowed
<1>5. QED
  BY <1>1, <1>2, <1>3, <1>4 DEF Serve

LEMMA ExistenceInit == Init => ExistenceInv
<1> SUFFICES ASSUME Init, NEW k PROVE Balanced(k)
  BY DEF ExistenceInv
<1>1. Creations(k) = {} /\ AutoCreations(k) = {} /\ Deletions(k) = {}
  BY DEF Init, Creations, AutoCreations, Deletions, Answered, Unlocated
<1>2. k \in DOMAIN store <=> k = Root
  BY DEF Init
<1>3. Cardinality({}) = 0
  BY FS_EmptySet
<1>4. QED
  BY <1>1, <1>2, <1>3 DEF Balanced

LEMMA ExistenceStep ==
  TypeInv /\ AuthorizedInv /\ SlugInv /\ StartedInv
    /\ ExistenceInv /\ [Next]_vars => ExistenceInv'
<1> SUFFICES ASSUME TypeInv, AuthorizedInv, SlugInv, StartedInv,
                    ExistenceInv, [Next]_vars
             PROVE  ExistenceInv'
  OBVIOUS
<1> SUFFICES ASSUME NEW k PROVE Balanced(k)'
  BY DEF ExistenceInv
<1> DEFINE C == Creations(k)
           A == AutoCreations(k)
           D == Deletions(k)
<1>1. Balanced(k)
  BY DEF ExistenceInv
<1>2. /\ IsFiniteSet(C) /\ Cardinality(C) \in Nat
      /\ IsFiniteSet(A) /\ Cardinality(A) \in Nat
      /\ IsFiniteSet(D) /\ Cardinality(D) \in Nat
  BY Countable
<1>3. ASSUME NEW S, IsFiniteSet(S), NEW x, x \notin S
      PROVE  Cardinality(S \cup {x}) = Cardinality(S) + 1
  BY <1>3, FS_AddElement
<1>4. CASE ChangePolicy \/ UNCHANGED vars
  <2>1. C' = C /\ A' = A /\ D' = D /\ store' = store
    BY <1>4
    DEF ChangePolicy, vars, Creations, AutoCreations, Deletions, Answered,
        Unlocated
  <2>2. QED
    BY <1>1, <2>1 DEF Balanced
<1>5. ASSUME NEW q \in Requests, Client(q) \/ Serve(q) PROVE Balanced(k)'
  <2>1. /\ q \notin C /\ q \notin D
        /\ pc[q] # "insert" => q \notin A
    BY <1>5, NotDone, NoRecordYet
  <2>2. C' \ {q} = C \ {q} /\ A' \ {q} = A \ {q} /\ D' \ {q} = D \ {q}
    BY <1>5, RecordsOfOthers
  <2>3. CASE ensure_ancestors(q)
    <3>1. /\ pc[q] = "ensure" /\ UNCHANGED <<req, target, resp>>
          /\ DOMAIN store' = DOMAIN store \cup EnsuredAncestors(target[q])
          /\ auto' = [auto EXCEPT ![q] =
                        EnsuredAncestors(target[q]) \ DOMAIN store]
      BY <2>3 DEF ensure_ancestors, OrInsert
    <3>2. C' = C /\ D' = D
      BY <3>1 DEF Creations, Deletions, Answered, Unlocated
    <3>3. q \in A' <=> k \in EnsuredAncestors(target[q]) \ DOMAIN store
      BY <3>1 DEF AutoCreations, TypeInv, TypeOK
    <3>4. CASE k \in EnsuredAncestors(target[q]) \ DOMAIN store
      <4>1. A' = A \cup {q} /\ q \notin A
        BY <2>1, <2>2, <3>1, <3>3, <3>4
      <4>2. Cardinality(A') = Cardinality(A) + 1
        BY <1>2, <1>3, <4>1
      <4>3. k \notin DOMAIN store /\ k \in DOMAIN store'
        BY <3>1, <3>4
      <4>4. QED
        BY <1>1, <1>2, <3>2, <4>2, <4>3 DEF Balanced
    <3>5. CASE k \notin EnsuredAncestors(target[q]) \ DOMAIN store
      <4>1. A' = A
        BY <2>1, <2>2, <3>1, <3>3, <3>5
      <4>2. k \in DOMAIN store <=> k \in DOMAIN store'
        BY <3>1, <3>5
      <4>3. QED
        BY <1>1, <3>2, <4>1, <4>2 DEF Balanced
    <3>6. QED
      BY <3>4, <3>5
  <2>4. CASE put(q)
    <3>1. /\ pc[q] = "insert" /\ UNCHANGED <<req, target, auto>>
          /\ DOMAIN store' = DOMAIN store \cup {target[q]}
      BY <2>4 DEF put, Insert
    <3>2. req[q].method # "DELETE"
      BY <3>1 DEF AuthorizedInv, AuthorizedRequest, Writes
    <3>3. A' = A
      BY <3>1 DEF AutoCreations
    <3>4. D' = D
      BY <2>1, <2>2, <3>1, <3>2 DEF Deletions
    <3>s. PICK st : st = PutStatus(q, target[q] \notin DOMAIN store)
      OBVIOUS
    <3>5. /\ resp' = [resp EXCEPT ![q] = Answer(st, PutLink(q), None)]
          /\ st \in {201, 204, 500}
      BY <2>4, <3>s DEF put, Reply, PutStatus
    <3>6. Answer(st, PutLink(q), None) # None
      BY <3>5, SentinelAssumption DEF Answer, PutLink, Response
    <3>7. \/ st = 201
          \/ st = 500 /\ req[q].method = "POST" /\ ~FitsHeader(target[q])
          <=> target[q] \notin DOMAIN store
      BY <3>1, <3>s, PostIsFresh DEF PutStatus, AuthorizedInv,
         AuthorizedRequest, Writes
    <3>t. target[q] # None
      BY <3>1, SentinelAssumption DEF TypeInv, Phases
    <3>8. q \in C' <=> target[q] \notin DOMAIN store /\ k = target[q]
      BY <3>1, <3>5, <3>6, <3>7, <3>t
      DEF Creations, Answered, Unlocated, Answer, TypeInv, TypeOK
    <3>9. CASE target[q] \notin DOMAIN store /\ k = target[q]
      <4>1. C' = C \cup {q}
        BY <2>1, <2>2, <3>8, <3>9
      <4>2. Cardinality(C') = Cardinality(C) + 1
        BY <1>2, <1>3, <2>1, <4>1
      <4>3. k \notin DOMAIN store /\ k \in DOMAIN store'
        BY <3>1, <3>9
      <4>4. QED
        BY <1>1, <1>2, <3>3, <3>4, <4>2, <4>3 DEF Balanced
    <3>10. CASE ~(target[q] \notin DOMAIN store /\ k = target[q])
      <4>1. C' = C
        BY <2>1, <2>2, <3>8, <3>10
      <4>2. k \in DOMAIN store <=> k \in DOMAIN store'
        BY <3>1, <3>10
      <4>3. QED
        BY <1>1, <3>3, <3>4, <4>1, <4>2 DEF Balanced
    <3>11. QED
      BY <3>9, <3>10
  <2>5. CASE handle_delete(q)
    <3>1. /\ pc[q] = "handler" /\ req[q].method = "DELETE"
          /\ UNCHANGED <<req, target, auto>>
          /\ DOMAIN store' = DOMAIN store \ {req[q].key}
          /\ resp' = [resp EXCEPT ![q] =
                        Plain(IF req[q].key \in DOMAIN store THEN 204 ELSE 404)]
      BY <2>5 DEF handle_delete, Remove, Handles, Reaches, Reply
    <3>2. A' = A
      BY <3>1 DEF AutoCreations
    <3>3. Plain(204) # None /\ Plain(404) # None
      BY SentinelAssumption DEF Plain, Answer, Response
    <3>4. q \notin C'
      BY <3>1, <3>3
      DEF Creations, Answered, Unlocated, Plain, Answer, TypeInv, TypeOK
    <3>5. C' = C
      BY <2>1, <2>2, <3>4
    <3>6. q \in D' <=> k = req[q].key /\ k \in DOMAIN store
      BY <3>1, <3>3 DEF Deletions, Answered, Plain, Answer, TypeInv, TypeOK
    <3>7. CASE k = req[q].key /\ k \in DOMAIN store
      <4>1. D' = D \cup {q}
        BY <2>1, <2>2, <3>6, <3>7
      <4>2. Cardinality(D') = Cardinality(D) + 1
        BY <1>2, <1>3, <2>1, <4>1
      <4>3. k \in DOMAIN store /\ k \notin DOMAIN store'
        BY <3>1, <3>7
      <4>4. QED
        BY <1>1, <1>2, <3>2, <3>5, <4>2, <4>3 DEF Balanced
    <3>8. CASE ~(k = req[q].key /\ k \in DOMAIN store)
      <4>1. D' = D
        BY <2>1, <2>2, <3>6, <3>8
      <4>2. k \in DOMAIN store <=> k \in DOMAIN store'
        BY <3>1, <3>8
      <4>3. QED
        BY <1>1, <3>2, <3>5, <4>1, <4>2 DEF Balanced
    <3>9. QED
      BY <3>7, <3>8
  <2>6. CASE ~ensure_ancestors(q) /\ ~put(q) /\ ~handle_delete(q)
    <3>1. /\ UNCHANGED store /\ q \notin C' /\ q \notin D'
          /\ auto'[q] = auto[q]
      BY <1>5, <2>6, OthersLeaveNoRecord
    <3>2. C' = C /\ D' = D
      BY <2>1, <2>2, <3>1
    <3>3. q \in A' <=> q \in A
      BY <3>1 DEF AutoCreations
    <3>4. A' = A
      BY <2>2, <3>3
    <3>5. QED
      BY <1>1, <3>1, <3>2, <3>4 DEF Balanced
  <2>7. QED
    BY <2>3, <2>4, <2>5, <2>6
<1>6. QED
  BY <1>4, <1>5 DEF Next, Quiescent

(***************************************************************************)
(* However many clients create and delete, the statuses they are told add  *)
(* up: of two that raced to create or to remove a resource, one was first. *)
(***************************************************************************)
THEOREM AnswersAddUp == Spec => []ExistenceAccounted
<1>1. Spec => [](TypeInv /\ AuthorizedInv /\ SlugInv /\ StartedInv
                   /\ ExistenceInv)
  BY TypeInit, TypeStep, AuthorizedInit, AuthorizedStep, SlugInit, SlugStep,
     StartedInit, StartedStep, ExistenceInit, ExistenceStep, PTL DEF Spec
<1>2. ExistenceInv => ExistenceAccounted
  BY DEF ExistenceInv, Balanced, ExistenceAccounted
<1>3. QED
  BY <1>1, <1>2, PTL
=============================================================================

------------------------------ MODULE LdpServer ------------------------------
(***************************************************************************)
(* The request pipeline of server-core: the authorization middleware, the  *)
(* LDP handlers and the shared in-memory LdpStore, under concurrent        *)
(* requests.  Each request is a task of the runtime.  It runs without      *)
(* interruption except where the code awaits (authorization, the body of a *)
(* PUT or POST) and between two acquisitions of the store's lock:          *)
(* LdpStore::put takes the write lock twice, once to create the missing    *)
(* ancestors and once to insert, and any other request may run in between. *)
(* A request line may write one key in several ways ("/a", "/%61", "//a"): *)
(* the middleware sees the path as it was written, the handlers the key it *)
(* decodes to.                                                             *)
(***************************************************************************)
EXTENDS ResourceKeys, ContentNegotiation, FiniteSets

CONSTANTS
  Requests,       \* the requests the server ever receives; also their bodies
  Agents,         \* the credentials a request may carry
  Methods,        \* the HTTP methods clients use
  Targets,        \* the keys clients know without being told
  ContentTypes,   \* the media types of PUT and POST bodies
  Accepts,        \* the Accept headers of GET and HEAD, as sets of tokens
  Spellings,      \* the ways clients write a key: "verbatim", encoded, ...
                  \* and "malformed", with bytes that do not decode
  Policies,       \* what the Authorizer may go by
  Grants,         \* the <<agent, key, spelling, mode>> each lets through
  ReaderMayFail,  \* whether the PermissionReader can return an error
  Empty,          \* the empty body
  None            \* no request, no key, no entry

\* Uuid::new_v4 gives each POST a segment no client can guess: the slug of a
\* POST is the request itself, and no target mentions it.
ASSUME SlugAssumption ==
  /\ Requests \subseteq Names \ Unprintable
  /\ Targets \subseteq Key
  /\ \A k \in Targets : \A n \in 1..Len(k.path) : k.path[n] \notin Requests

ASSUME ContentTypeAssumption == Turtle \in ContentTypes

VARIABLES
  store,    \* LdpStore::inner: the entry of each key present
  pc,       \* where each request stands
  req,      \* the request line and headers
  target,   \* the key a PUT or POST hands to LdpStore::put
  resp,     \* the response
  auto,     \* the containers ensure_ancestors created on behalf of a request
  policy,   \* what the Authorizer goes by now
  seen      \* history: what it has gone by while a request was before it

authority == <<policy, seen>>
vars == <<store, pc, req, target, resp, auto, authority>>

-----------------------------------------------------------------------------
Reads  == {"GET", "HEAD"}
Writes == {"PUT", "POST"}
Handled == Reads \cup Writes \cup {"DELETE", "OPTIONS", "PATCH"}

Entry == [body: Requests \cup {Empty}, ctype: ContentTypes, dir: BOOLEAN]

Request == [agent: Agents, method: Methods, key: Key, spelling: Spellings,
            ctype: ContentTypes, accept: Accepts]

Response == [status: {200, 201, 204, 400, 401, 404, 405, 406, 415, 500},
             link: {"none", "container", "resource"},
             entry: {None} \cup Entry]

ASSUME SentinelAssumption ==
  /\ Empty \notin Requests
  /\ None \notin Request \cup Response \cup Key \cup Entry

\* The entry LdpStore::new and ensure_ancestors insert.
EmptyContainer == [body |-> Empty, ctype |-> Turtle, dir |-> TRUE]

OrInsert_Overwrites(s, ks) ==   \* faulty: insert in place of or_insert_with
  [k \in DOMAIN s \cup ks |-> IF k \in ks THEN EmptyContainer ELSE s[k]]

\* entry(k).or_insert_with(EmptyContainer) for every k in ks.
OrInsert(s, ks) ==
  [k \in DOMAIN s \cup ks |-> IF k \in DOMAIN s THEN s[k] ELSE EmptyContainer]

Insert(s, key, e) ==
  [k \in DOMAIN s \cup {key} |-> IF k = key THEN e ELSE s[k]]

Remove(s, key) == [k \in DOMAIN s \ {key} |-> s[k]]

\* The Link header of a GET of an entry.
LinkOf(e) == IF e.dir THEN "container" ELSE "resource"

Answer(status, link, e) == [status |-> status, link |-> link, entry |-> e]
Plain(status) == Answer(status, "none", None)

AccessModeOf_DeleteReads(method) ==   \* faulty: DELETE falls to the default
  IF method \in {"PUT", "POST", "PATCH"} THEN "Write" ELSE "Read"

\* authz_middleware maps the method to one mode.
AccessModeOf(method) ==
  IF method \in {"PUT", "POST", "PATCH", "DELETE"} THEN "Write" ELSE "Read"

Claim(q, mode) == <<q.agent, q.key, q.spelling, mode>>

\* The path is taken from the request line as it was written.
Granted(q) == Claim(q, AccessModeOf(q.method)) \in Grants[policy]

\* The keys POST has told its clients in Location headers.
Locations ==
  {target[r] : r \in {x \in Requests : /\ resp[x] # None
                                       /\ resp[x].status = 201
                                       /\ req[x].method = "POST"}}

-----------------------------------------------------------------------------
Init ==
  /\ store  = [k \in {Root} |-> EmptyContainer]
  /\ pc     = [r \in Requests |-> "new"]
  /\ req    = [r \in Requests |-> None]
  /\ target = [r \in Requests |-> None]
  /\ resp   = [r \in Requests |-> None]
  /\ auto   = [r \in Requests |-> {}]
  /\ policy \in Policies
  /\ seen   = [r \in Requests |-> {}]

Reply(r, a) ==
  /\ pc'   = [pc   EXCEPT ![r] = "done"]
  /\ resp' = [resp EXCEPT ![r] = a]

Goto(r, label) == pc' = [pc EXCEPT ![r] = label]

\* A request arrives; cors_middleware has put its credentials beside it.
Arrive(r, q) ==
  /\ pc[r] = "new"
  /\ req' = [req EXCEPT ![r] = q]
  /\ seen' = [seen EXCEPT ![r] = {policy}]
  /\ Goto(r, "authz")
  /\ UNCHANGED <<store, target, resp, auto, policy>>

\* What a client may send.  A header the handler never looks at is not varied.
Receive(r) ==
  \E q \in [agent: Agents, method: Methods, key: Targets \cup Locations,
            spelling: Spellings, ctype: ContentTypes, accept: Accepts] :
    /\ q.method \in Writes \/ q.ctype = Turtle
    /\ q.method \in Reads \/ q.accept = {}
    /\ Arrive(r, q)

\* The Authorizer changes its mind.
ChangePolicy ==
  /\ policy' \in Policies \ {policy}
  /\ seen' = [r \in Requests |->
                IF pc[r] = "authz" THEN seen[r] \cup {policy'} ELSE seen[r]]
  /\ UNCHANGED <<store, pc, req, target, resp, auto>>

\* authz_middleware: the permission reader fails, 500.
PermissionReaderFails(r) ==
  /\ pc[r] = "authz"
  /\ ReaderMayFail
  /\ Reply(r, Plain(500))
  /\ UNCHANGED <<store, req, target, auto, authority>>

\* authz_middleware: the authorizer refuses, 401.
Deny(r) ==
  /\ pc[r] = "authz"
  /\ ~Granted(req[r])
  /\ Reply(r, Plain(401))
  /\ UNCHANGED <<store, req, target, auto, authority>>

\* authz_middleware calls the handler.
Admit(r) ==
  /\ pc[r] = "authz"
  /\ Granted(req[r])
  /\ Goto(r, "handler")
  /\ UNCHANGED <<store, req, target, resp, auto, authority>>

Reaches(r, ms) == pc[r] = "handler" /\ req[r].method \in ms

\* The path does not decode: axum refuses before the handler is called.
path_rejected(r) ==
  /\ Reaches(r, Handled)
  /\ req[r].spelling = "malformed"
  /\ Reply(r, Plain(400))
  /\ UNCHANGED <<store, req, target, auto, authority>>

Handles(r, ms) == Reaches(r, ms) /\ req[r].spelling # "malformed"

\* GET and HEAD of a key the store does not hold.
not_found(r) ==
  /\ Handles(r, Reads)
  /\ req[r].key \notin DOMAIN store
  /\ Reply(r, Plain(404))
  /\ UNCHANGED <<store, req, target, auto, authority>>

\* GET and HEAD of an entry the Accept header rules out.
not_acceptable(r) ==
  /\ Handles(r, Reads)
  /\ req[r].key \in DOMAIN store
  /\ ~accept_satisfied(req[r].accept, store[req[r].key].ctype)
  /\ Reply(r, Plain(406))
  /\ UNCHANGED <<store, req, target, auto, authority>>

handle_get(r) ==
  /\ Handles(r, {"GET"})
  /\ req[r].key \in DOMAIN store
  /\ LET e == store[req[r].key] IN
       /\ accept_satisfied(req[r].accept, e.ctype)
       /\ Reply(r, Answer(200, LinkOf(e), e))
  /\ UNCHANGED <<store, req, target, auto, authority>>

\* HEAD sends no body, and a Link header only for containers.
handle_head(r) ==
  /\ Handles(r, {"HEAD"})
  /\ req[r].key \in DOMAIN store
  /\ LET e == store[req[r].key] IN
       /\ accept_satisfied(req[r].accept, e.ctype)
       /\ Reply(r, Answer(200, IF e.dir THEN "container" ELSE "none",
                          [e EXCEPT !.body = Empty]))
  /\ UNCHANGED <<store, req, target, auto, authority>>

\* handle_put and handle_post: the body has been read and the key chosen.
ReadBody(r) ==
  /\ Handles(r, Writes)
  /\ target' = [target EXCEPT ![r] =
                  IF req[r].method = "PUT" THEN req[r].key
                                           ELSE ChildKey(req[r].key, r)]
  /\ Goto(r, "ensure")
  /\ UNCHANGED <<store, req, resp, auto, authority>>

BodyFails_KeepsPart(r) ==   \* faulty: what was read is stored all the same
  /\ Handles(r, Writes)
  /\ store' = Insert(store, req[r].key, [body |-> r, ctype |-> req[r].ctype,
                                         dir |-> req[r].key.dir])
  /\ Reply(r, Plain(400))
  /\ UNCHANGED <<req, target, auto, authority>>

\* handle_put and handle_post: reading the body fails, 400.
BodyFails(r) ==
  /\ Handles(r, Writes)
  /\ Reply(r, Plain(400))
  /\ UNCHANGED <<store, req, target, auto, authority>>

ensure_ancestors_LockAcrossAwait(r) ==   \* faulty: uploads hold the lock
  /\ pc[r] = "ensure"
  /\ \A q \in Requests \ {r} : ~Handles(q, Writes)
  /\ store' = OrInsert(store, EnsuredAncestors(target[r]))
  /\ auto'  = [auto EXCEPT ![r] = EnsuredAncestors(target[r]) \ DOMAIN store]
  /\ Goto(r, "insert")
  /\ UNCHANGED <<req, target, resp, authority>>

\* LdpStore::put, first critical section.
ensure_ancestors(r) ==
  /\ pc[r] = "ensure"
  /\ LET ks == EnsuredAncestors(target[r]) IN
       /\ store' = OrInsert(store, ks)
       /\ auto'  = [auto EXCEPT ![r] = ks \ DOMAIN store]
  /\ Goto(r, "insert")
  /\ UNCHANGED <<req, target, resp, authority>>

\* The response of handle_put depends on whether the key was there; that of
\* handle_post does not, and has no Link header, but a Location, the key.  If
\* no header can hold that, the response cannot be built: 500.
PutStatus(r, created) ==
  IF req[r].method = "PUT" THEN IF created THEN 201 ELSE 204
  ELSE IF FitsHeader(target[r]) THEN 201 ELSE 500

PutLink(r) ==
  IF req[r].method = "PUT" /\ target[r].dir THEN "container" ELSE "none"

\* LdpStore::put, second critical section, and the answer of the handler.
put(r) ==
  /\ pc[r] = "insert"
  /\ store' = Insert(store, target[r], [body |-> r, ctype |-> req[r].ctype,
                                        dir |-> target[r].dir])
  /\ LET created == target[r] \notin DOMAIN store IN
       Reply(r, Answer(PutStatus(r, created), PutLink(r), None))
  /\ UNCHANGED <<req, target, auto, authority>>

handle_delete_Always204(r) ==   \* faulty: does not look at what remove returns
  /\ Handles(r, {"DELETE"})
  /\ store' = Remove(store, req[r].key)
  /\ Reply(r, Plain(204))
  /\ UNCHANGED <<req, target, auto, authority>>

handle_delete(r) ==
  /\ Handles(r, {"DELETE"})
  /\ store' = Remove(store, req[r].key)
  /\ Reply(r, Plain(IF req[r].key \in DOMAIN store THEN 204 ELSE 404))
  /\ UNCHANGED <<req, target, auto, authority>>

\* OPTIONS does not look at the store.
handle_options(r) ==
  /\ Handles(r, {"OPTIONS"})
  /\ Reply(r, Plain(204))
  /\ UNCHANGED <<store, req, target, auto, authority>>

handle_patch_NeverAnswers(r) ==   \* faulty: waits for a body it ignores
  /\ Handles(r, {"PATCH"})
  /\ UNCHANGED vars

handle_patch(r) ==
  /\ Handles(r, {"PATCH"})
  /\ Reply(r, Plain(415))
  /\ UNCHANGED <<store, req, target, auto, authority>>

\* The router has no handler for any other method.
MethodNotAllowed(r) ==
  /\ Reaches(r, {"TRACE"})
  /\ Reply(r, Plain(405))
  /\ UNCHANGED <<store, req, target, auto, authority>>

\* The connection closes while the task awaits: the runtime drops the task.
Disconnect(r) ==
  /\ pc[r] = "authz" \/ Handles(r, Writes)
  /\ Goto(r, "lost")
  /\ UNCHANGED <<store, req, target, resp, auto, authority>>

\* Every request is over and the server waits for more.
Quiescent ==
  /\ \A r \in Requests : pc[r] \in {"done", "lost"}
  /\ UNCHANGED vars

Authorization(r) == PermissionReaderFails(r) \/ Deny(r) \/ Admit(r)

Read(r) ==
  not_found(r) \/ not_acceptable(r) \/ handle_get(r) \/ handle_head(r)

\* What a task does without waiting for its client.
Serve(r) ==
  \/ Authorization(r) \/ path_rejected(r) \/ Read(r)
  \/ ensure_ancestors(r) \/ put(r) \/ handle_delete(r)
  \/ handle_options(r) \/ handle_patch(r) \/ MethodNotAllowed(r)

\* What the client and its connection do.
Client(r) == Receive(r) \/ ReadBody(r) \/ BodyFails(r) \/ Disconnect(r)

Next ==
  (\E r \in Requests : Client(r) \/ Serve(r)) \/ ChangePolicy \/ Quiescent

\* The runtime polls every task that is ready.  Nothing obliges a client to
\* send a request or the rest of a body, and the server sets no timeout.
Fairness == \A r \in Requests : WF_vars(Serve(r))

Spec == Init /\ [][Next]_vars /\ Fairness

-----------------------------------------------------------------------------
TypeOK ==
  /\ DOMAIN store \subseteq Key
  /\ store \in [DOMAIN store -> Entry]
  /\ pc \in [Requests -> {"new", "authz", "handler", "ensure", "insert",
                          "done", "lost"}]
  /\ req \in [Requests -> {None} \cup Request]
  /\ target \in [Requests -> {None} \cup Key]
  /\ resp \in [Requests -> {None} \cup Response]
  /\ auto \in [Requests -> SUBSET Key]
  /\ policy \in Policies
  /\ seen \in [Requests -> SUBSET Policies]

\* What a request has settled by the time it gets where it stands.
Phases ==
  \A r \in Requests :
    /\ pc[r] # "new" => req[r] \in Request
    /\ pc[r] \in {"ensure", "insert"} => target[r] \in Key
    /\ pc[r] # "done" => resp[r] = None
    /\ resp[r] # None /\ resp[r].status = 201 => target[r] \in Key

Answered(r, statuses) == resp[r] # None /\ resp[r].status \in statuses

\* A POST that is answered 500 with its resource in the store.
Unlocated(r) ==
  /\ Answered(r, {500})
  /\ req[r].method = "POST" /\ target[r] # None /\ ~FitsHeader(target[r])

\* The requests that created, and those that removed, the resource k.
Creations(k) ==
  {r \in Requests : (Answered(r, {201}) \/ Unlocated(r)) /\ target[r] = k}
AutoCreations(k) == {r \in Requests : k \in auto[r]}
Deletions(k) ==
  {r \in Requests : /\ Answered(r, {204})
                    /\ req[r].method = "DELETE"
                    /\ req[r].key = k}

\* Every key some request has named or created.
Touched == DOMAIN store \cup UNION {auto[r] : r \in Requests}
             \cup {req[r].key : r \in {x \in Requests : req[x] # None}}
             \cup {target[r] : r \in {x \in Requests : target[x] # None}}
             \cup {Root}

(***************************************************************************)
(* A container above a stored resource can only be missing because a       *)
(* DELETE answered 204 removed it: between the two critical sections of    *)
(* put, or later, since delete does not ask whether a container is empty.  *)
(* (Or because it lies deeper than splitn(SplitLimit) lets the code look.) *)
(***************************************************************************)
AncestorsAccounted ==
  \A k \in DOMAIN store : \A a \in Ancestors(k) :
    Depth(a) < SplitLimit - 1 => a \in DOMAIN store \/ Deletions(a) # {}

(***************************************************************************)
(* The answers tell the truth about existence: what the 201s, the 500s of  *)
(* POSTs whose Location no header can hold, and the automatic creations    *)
(* brought, less what the 204s of DELETE took away, is what the store      *)
(* holds.  So no two PUTs of a key are both told they created it, and no   *)
(* two DELETEs that they removed it, unless the other kind came between.   *)
(***************************************************************************)
ExistenceAccounted ==
  \A k \in Touched :
    Cardinality(Creations(k)) + Cardinality(AutoCreations(k))
        + (IF k = Root THEN 1 ELSE 0) - Cardinality(Deletions(k))
      = (IF k \in DOMAIN store THEN 1 ELSE 0)

(***************************************************************************)
(* Every entry is either an empty container or what a PUT or POST sent to  *)
(* that very key, with the container flag the key demands, and that was    *)
(* answered 201 or 204.  A request that was refused, lost, or failed while *)
(* its body was read, or that is not answered yet, has left no content     *)
(* behind.  One failure has: a POST whose Location header cannot be built  *)
(* is answered 500 when its resource is already stored.                    *)
(***************************************************************************)
WrittenBy(k, e) ==
  \/ e = EmptyContainer /\ k.dir
  \/ /\ e.body \in Requests
     /\ Answered(e.body, {201, 204}) \/ Unlocated(e.body)
     /\ target[e.body] = k
     /\ e = [body |-> e.body, ctype |-> req[e.body].ctype, dir |-> k.dir]

StoredWasWritten == \A k \in DOMAIN store : WrittenBy(k, store[k])

(***************************************************************************)
(* A GET answered 200 served, as one piece, an entry some accepted write   *)
(* put at that key, of a type its Accept header admits, with the Link      *)
(* header of its kind; a HEAD served the same without the body.            *)
(***************************************************************************)
ServedWasWritten ==
  \A r \in Requests :
    Answered(r, {200}) =>
      LET e == resp[r].entry IN
        /\ e.dir = req[r].key.dir
        /\ resp[r].link = "container" <=> e.dir
        /\ req[r].accept = {} \/ \E t \in req[r].accept :
             {t.type, t.subtype} \subseteq {"*", e.ctype.type, e.ctype.subtype}
        /\ req[r].method = "GET" => WrittenBy(req[r].key, e)
        /\ req[r].method = "HEAD" => e.body = Empty

(***************************************************************************)
(* The Authorizer is asked once, about the path as the request line writes *)
(* it, and is obeyed: whoever has written, or learns whether a resource is *)
(* there, had the right to (to write, for whatever changes the store; to   *)
(* read, for the rest) under a policy that was in force between the        *)
(* arrival of the request and its admission, and whoever is refused lacked *)
(* it under one.  A policy of before the request decides nothing, nor does *)
(* what another spelling of the key is granted.                            *)
(***************************************************************************)
EffectsAuthorized ==
  \A r \in Requests :
    LET mode == IF req[r].method \in {"PUT", "POST", "DELETE", "PATCH"}
                THEN "Write" ELSE "Read"
        granting == {p \in seen[r] : Claim(req[r], mode) \in Grants[p]} IN
      /\ Answered(r, {200, 201, 204, 404, 406}) \/ target[r] # None
           => granting # {}
      /\ Answered(r, {401}) => seen[r] \ granting # {}

(***************************************************************************)
(* Content is never lost silently: an entry changes or disappears only in  *)
(* the step in which a PUT or DELETE of its key is answered.  Creating the *)
(* ancestors of another resource never overwrites a container.             *)
(***************************************************************************)
ReplacedOnlyByRequest ==
  [][\A k \in DOMAIN store :
       \/ k \in DOMAIN store' /\ store'[k] = store[k]
       \/ \E r \in Requests :
            /\ resp[r] = None
            /\ resp'[r] # None /\ resp'[r].status \in {201, 204}
            /\ req[r].method \in {"PUT", "DELETE"}
            /\ req[r].key = k]_vars

(***************************************************************************)
(* LdpStore::put says that it "auto-creates every ancestor container": when *)
(* it returns, they are there.                                             *)
(***************************************************************************)
PutLeavesEveryAncestor ==
  [][\A r \in Requests :
       pc[r] = "insert" /\ pc'[r] = "done"
         => Ancestors(target[r]) \subseteq DOMAIN store']_vars

(***************************************************************************)
(* The server implements ResourceMap: although put takes the lock twice    *)
(* and other requests run in between, every request takes effect at one    *)
(* instant and is answered accordingly.                                    *)
(***************************************************************************)
Abstract == INSTANCE ResourceMap WITH
  content <- store,
  open    <- {r \in Requests : pc[r] \notin {"new", "done", "lost"}},
  answer  <- [r \in Requests |->
                IF resp[r] = None THEN None
                ELSE [status |-> resp[r].status, entry |-> resp[r].entry]],
  NewEntry <- LAMBDA r, q, k : [body |-> r, ctype |-> q.ctype, dir |-> k.dir],
  Shown   <- LAMBDA q, e :
               IF q.method = "HEAD" THEN [e EXCEPT !.body = Empty] ELSE e

ImplementsResourceMap == Abstract!Spec

(***************************************************************************)
(* A request that needs no body, or whose body has arrived, is answered    *)
(* (or its client gone) in the end, whatever other requests do: stalled    *)
(* uploads hold no lock.                                                   *)
(***************************************************************************)
StalledUploadBlocksNobody ==
  \A r \in Requests :
    /\ pc[r] = "authz" /\ req[r].method \notin Writes
         ~> pc[r] \in {"done", "lost"}
    /\ pc[r] = "ensure" ~> pc[r] = "done"
=============================================================================

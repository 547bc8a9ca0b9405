----------------------------- MODULE ResourceMap -----------------------------
(***************************************************************************)
(* What the LDP server promises its clients: a map from keys to entries on *)
(* which every request takes effect at one instant between its arrival and *)
(* its answer, and whose answers say what the map held at that instant.    *)
(* The one liberty is that empty containers may appear above the key of a  *)
(* PUT or POST that is under way; whether they stay is not promised.  The  *)
(* one answer that tells less than was done is the 500 of a POST whose new *)
(* key fits no header: the resource is there.                              *)
(***************************************************************************)
EXTENDS ResourceKeys

CONSTANTS
  Requests, Request,     \* the requests, and what each may ask
  NewEntry(_, _, _),     \* the entry request r, asking q, writes at key k
  Shown(_, _),           \* what a request asking q is shown of an entry
  EmptyContainer,        \* the entry of a container nobody wrote
  None

VARIABLES
  content,   \* the map
  open,      \* the requests under way
  req,       \* what each request asks, None before it arrives
  answer     \* the status, and the entry served

vars == <<content, open, req, answer>>

Init ==
  /\ content = [k \in {Root} |-> EmptyContainer]
  /\ open = {}
  /\ req = [r \in Requests |-> None]
  /\ answer = [r \in Requests |-> None]

Arrive(r) ==
  /\ req[r] = None
  /\ req'[r] \in Request
  /\ req' = [req EXCEPT ![r] = req'[r]]
  /\ open' = open \cup {r}
  /\ UNCHANGED <<content, answer>>

UnderWay(r, methods) == r \in open /\ req[r].method \in methods

Close(r, status, e) ==
  /\ open' = open \ {r}
  /\ answer' = [answer EXCEPT ![r] = [status |-> status, entry |-> e]]
  /\ UNCHANGED req

\* Refused, failed, or about something that is no resource: no effect.
Refuse(r) ==
  /\ r \in open
  /\ \/ \E s \in {400, 401, 405, 415, 500} : Close(r, s, None)
     \/ req[r].method = "OPTIONS" /\ Close(r, 204, None)
  /\ UNCHANGED content

\* The client goes away; the request will never take effect.
Vanish(r) ==
  /\ r \in open
  /\ open' = open \ {r}
  /\ UNCHANGED <<content, req, answer>>

Look(r) ==
  /\ UnderWay(r, {"GET", "HEAD"})
  /\ LET k == req[r].key IN
       \/ k \notin DOMAIN content /\ Close(r, 404, None)
       \/ k \in DOMAIN content /\ Close(r, 406, None)
       \/ k \in DOMAIN content /\ Close(r, 200, Shown(req[r], content[k]))
  /\ UNCHANGED content

\* The keys a write may put its entry at: that of a PUT is given, a POST
\* takes one below its own that is not in use.
Places(q) ==
  IF q.method = "PUT" THEN {q.key}
  ELSE {Document(Append(q.key.path, n)) : n \in Names} \ DOMAIN content

WriteStatus(q, k) ==
  IF q.method = "POST" /\ ~FitsHeader(k) THEN 500
  ELSE IF k \in DOMAIN content THEN 204 ELSE 201

Write(r) ==
  /\ UnderWay(r, {"PUT", "POST"})
  /\ \E k \in Places(req[r]) :
       /\ content' = [x \in DOMAIN content \cup {k} |->
                        IF x = k THEN NewEntry(r, req[r], k) ELSE content[x]]
       /\ Close(r, WriteStatus(req[r], k), None)

Delete(r) ==
  /\ UnderWay(r, {"DELETE"})
  /\ LET k == req[r].key IN
       /\ content' = [x \in DOMAIN content \ {k} |-> content[x]]
       /\ Close(r, IF k \in DOMAIN content THEN 204 ELSE 404, None)

\* Where containers may appear for a write under way.
Above(q) ==
  IF q.method = "PUT" THEN {Root} \cup Ancestors(q.key)
  ELSE {Container(q.key.path)} \cup Ancestors(q.key)

Appear(r) ==
  /\ UnderWay(r, {"PUT", "POST"})
  /\ \E ks \in SUBSET (Above(req[r]) \ DOMAIN content) :
       content' = [x \in DOMAIN content \cup ks |->
                     IF x \in ks THEN EmptyContainer ELSE content[x]]
  /\ UNCHANGED <<open, req, answer>>

Next ==
  \E r \in Requests :
    \/ Arrive(r) \/ Refuse(r) \/ Vanish(r) \/ Look(r)
    \/ Write(r) \/ Delete(r) \/ Appear(r)

Spec == Init /\ [][Next]_vars
=============================================================================

-------------------------- MODULE IntegrationSuites --------------------------
(***************************************************************************)
(* The integration tests against the server they were written for: each    *)
(* runner (integration-tests/src/runner.rs) runs the cases of the suites   *)
(* its filter selects, one request after the other, and several runners    *)
(* may share the server.  A request of a case times out when the client    *)
(* loses patience; the server may be anywhere in it, and go on with it.    *)
(***************************************************************************)
EXTENDS LdpServer

CONSTANTS
  Runners,
  Selections,    \* the sets of suites a filter may select
  MaxTimeouts    \* bound on the requests of each runner that time out, for
                 \* each choice of what the runners select

VARIABLES
  selected,  \* the suites each runner runs
  at,        \* its case and step
  waiting,   \* whether it waits for an answer
  sent,      \* how many requests it has sent
  failed,    \* the cases reported as "not ok"
  slow       \* history: the cases that timed out, and whether in the cleanup

runner == <<selected, at, waiting, sent, failed, slow>>
allVars == <<vars, runner>>

-----------------------------------------------------------------------------
(***************************************************************************)
(* Steps.  expect is the statuses the case accepts; type, body, rel and    *)
(* header are what else it looks at, body as the number of the step that   *)
(* sent it.  The answer to a cleanup is ignored, whatever it is.           *)
(***************************************************************************)
Plaintext == [type |-> "text", subtype |-> "plain"]
JsonLd    == [type |-> "application", subtype |-> "ld+json"]
Unknown   == [type |-> "application", subtype |-> "x-definitely-not-a-type"]
AnyStatus == {200, 201, 204, 400, 401, 404, 405, 406, 415, 500}
Success   == {200, 201, 204}

request(method, key) ==
  [method |-> method, key |-> key, ctype |-> Turtle, accept |-> {},
   expect |-> AnyStatus, type |-> None, body |-> None, rel |-> FALSE,
   header |-> {}, cleanup |-> FALSE]

\* The methods of SolidClient; put_ is its put.
get(key)           == request("GET", key)
get_accept(key, t) == [request("GET", key) EXCEPT !.accept = {t}]
head(key)          == request("HEAD", key)
put_(key, t)       == [request("PUT", key) EXCEPT !.ctype = t]
post(key, t)       == [request("POST", key) EXCEPT !.ctype = t]
patch(key)         == request("PATCH", key)
delete(key)        == request("DELETE", key)
options(key)       == request("OPTIONS", key)

assert_status(step, statuses)     == [step EXCEPT !.expect = statuses]
assert_content_type(step, t)      == [step EXCEPT !.type = t]
assert_link_rel(step)             == [step EXCEPT !.rel = TRUE]
assert_body_contains(step, n)     == [step EXCEPT !.body = n]
assert_header(step, name)         == [step EXCEPT !.header = {name}]
cleanup_Container(key) ==   \* faulty: the path with a slash
  [delete(Container(key.path)) EXCEPT !.cleanup = TRUE]
cleanup(key)                      == [delete(key) EXCEPT !.cleanup = TRUE]

-----------------------------------------------------------------------------
(***************************************************************************)
(* The suites: sequences of cases, which are sequences of steps.  u[i] is  *)
(* the UUID case i draws; what surrounds it in the paths is left out.      *)
(***************************************************************************)
File == <<"file.txt">>

health(u) == <<
  <<assert_status(get(Root), {200, 401})>>,
  <<assert_status(options(Root), {200, 204})>>,
  <<assert_body_contains(assert_status(head(Root), Success \cup {401}),
                         Empty)>> >>

resource_crud(u) ==
  LET path(i) == Document(<<u[i], File>>)
      creation(i) == put_(path(i), Plaintext) IN <<
  <<assert_status(creation(1), {201}), cleanup(path(1))>>,
  <<creation(2), assert_body_contains(assert_status(get(path(2)), {200}), 1),
    cleanup(path(2))>>,
  <<assert_status(get(path(3)), {404})>>,
  <<creation(4), assert_status(creation(4), {200, 204}),
    assert_body_contains(get(path(4)), 2), cleanup(path(4))>>,
  <<creation(5), assert_status(delete(path(5)), {204}),
    assert_status(get(path(5)), {404})>>,
  <<assert_status(delete(path(6)), {404})>>,
  <<put_(path(7), Turtle),
    assert_content_type(assert_status(get(path(7)), {200}), Turtle),
    cleanup(path(7))>> >>

containers(u) ==
  LET path(i) == Container(<<u[i]>>)
      creation(i) == put_(path(i), Turtle) IN <<
  <<assert_status(get(Root), {200, 401})>>,
  <<assert_status(creation(2), {201}), cleanup(path(2))>>,
  <<creation(3),
    assert_header(assert_status(post(path(3), Plaintext), {201}), "location"),
    cleanup(path(3))>>,
  <<creation(4), assert_link_rel(assert_status(get(path(4)), {200})),
    cleanup(path(4))>>,
  <<creation(5), assert_status(delete(path(5)), {204})>> >>

content_negotiation(u) ==
  LET path(i) == Document(<<u[i]>>) IN <<
  <<put_(path(1), Turtle),
    assert_content_type(assert_status(get_accept(path(1), Turtle), {200}),
                        Turtle),
    cleanup(path(1))>>,
  <<put_(path(2), Turtle),
    assert_content_type(assert_status(get_accept(path(2), JsonLd), {200, 406}),
                        JsonLd),
    cleanup(path(2))>>,
  <<put_(path(3), Plaintext),
    assert_content_type(assert_status(get(path(3)), {200}), Plaintext),
    cleanup(path(3))>>,
  <<put_(path(4), Plaintext),
    assert_status(get_accept(path(4), Unknown), Success \cup {406}),
    cleanup(path(4))>> >>

error_responses(u) ==
  LET path(i) == Document(<<u[i]>>)
      deep == Document(<<u[4], File>>) IN <<
  <<assert_status(get(path(1)), {404})>>,
  <<put_(path(2), Plaintext), assert_status(patch(path(2)), {400, 405, 415}),
    cleanup(path(2))>>,
  <<assert_status(get(path(3)), {404})>>,
  <<assert_status(put_(deep, Plaintext), {201, 404, 409}), cleanup(deep)>> >>

wac(u) ==
  LET path(i) == Document(<<u[i]>>) IN <<
  <<put_(path(1), Plaintext), assert_status(get(path(1)), {200}),
    cleanup(path(1))>>,
  <<put_(path(2), Turtle), assert_status(get(path(2)), {401}),
    cleanup(path(2))>>,
  <<put_(path(3), Turtle), assert_header(get(path(3)), "wac-allow"),
    cleanup(path(3))>> >>

\* The suites in the order in which TestSuite::new registers them.
SuiteNames == <<"health", "resource-crud", "containers", "content-negotiation",
                "error-responses", "wac">>
MaxCases == 7   \* bound on the cases of a suite: those of resource_crud

Uuids(c, name) == [i \in 1..MaxCases |-> <<c, name, i>>]

Suite(c, name) ==
  LET u == Uuids(c, name) IN
  CASE name = "health"              -> health(u)
    [] name = "resource-crud"       -> resource_crud(u)
    [] name = "containers"          -> containers(u)
    [] name = "content-negotiation" -> content_negotiation(u)
    [] name = "error-responses"     -> error_responses(u)
    [] name = "wac"                 -> wac(u)

\* The cases a runner runs, each with the name of its suite and its number.
Filtered(c, names) ==
  LET Chosen(name) ==
        IF name \notin names THEN <<>>
        ELSE [i \in 1..Len(Suite(c, name)) |->
                [id |-> <<name, i>>, steps |-> Suite(c, name)[i]]]
      Nth(n) == Chosen(SuiteNames[n]) IN
  Nth(1) \o Nth(2) \o Nth(3) \o Nth(4) \o Nth(5) \o Nth(6)

Plan == [c \in Runners |-> [names \in Selections |-> Filtered(c, names)]]

\* The keys of a case beside the root.
Keys(u) == {Container(<<u>>), Document(<<u>>), Document(<<u, File>>)}

\* The suites were written for this server with its pass-through authorizer;
\* a request is the n-th of a runner.
ASSUME SuitesAssumption ==
  /\ Requests \subseteq Runners \X (Nat \ {0})
  /\ {"GET", "HEAD", "PUT", "POST", "DELETE", "OPTIONS", "PATCH"} \subseteq Methods
  /\ {Turtle, Plaintext} \subseteq ContentTypes
  /\ {{}, {Turtle}, {JsonLd}, {Unknown}} \subseteq Accepts
  /\ SplitLimit >= 3 /\ ~ReaderMayFail /\ Empty \notin Nat /\ Agents # {}
  /\ "verbatim" \in Spellings
  /\ \A c \in Runners, n \in 1..Len(SuiteNames), i \in 1..MaxCases :
       LET u == <<c, SuiteNames[n], i>> IN
         /\ {u, File} \subseteq Names \ Unprintable
         /\ \A p \in Policies :
              Agents \X ({Root} \cup Keys(u)) \X {"verbatim"} \X {"Read", "Write"}
                \subseteq Grants[p]

-----------------------------------------------------------------------------
Cases(c)    == Plan[c][selected[c]]
Finished(c) == at[c].case > Len(Cases(c))
Case(c)     == Cases(c)[at[c].case]
Step(c)     == Case(c).steps[at[c].step]

\* Its latest request, and the one the n-th step of its case has sent.
Current(c)   == <<c, sent[c]>>
SentBy(c, n) == <<c, sent[c] - at[c].step + n>>

Line_NoHeaders(s) ==   \* faulty: the Content-Type is not sent
  [agent |-> CHOOSE a \in Agents : TRUE, method |-> s.method, key |-> s.key,
   spelling |-> "verbatim", ctype |-> None, accept |-> s.accept]

\* The request line and headers of a step.
Line(s) == [agent |-> CHOOSE a \in Agents : TRUE, method |-> s.method,
            key |-> s.key, spelling |-> "verbatim",
            ctype |-> s.ctype, accept |-> s.accept]

\* The headers among "location" and "wac-allow" that come with an answer:
\* handle_post sends the first, and nothing sends the second.
HeadersOf(r) ==
  IF req[r].method = "POST" /\ resp[r].status = 201 THEN {"location"} ELSE {}

\* What the assertions of a step say of the answer to it.
Satisfied(c) ==
  LET s == Step(c)
      a == resp[Current(c)]
      body == IF s.body = Empty THEN Empty ELSE SentBy(c, s.body) IN
  /\ a.status \in s.expect
  /\ s.type # None /\ a.status = 200 => a.entry.ctype = s.type
  /\ s.rel => a.link = "container"
  /\ s.body # None => a.entry # None /\ a.entry.body = body
  /\ s.header \subseteq HeadersOf(Current(c))

SuitesInit ==
  /\ Init
  /\ selected \in [Runners -> Selections]
  /\ at = [c \in Runners |-> [case |-> 1, step |-> 1]]
  /\ waiting = [c \in Runners |-> FALSE]
  /\ sent = [c \in Runners |-> 0]
  /\ failed = [c \in Runners |-> {}]
  /\ slow = [c \in Runners |-> {}]

Send(c) ==
  /\ ~Finished(c) /\ ~waiting[c]
  /\ <<c, sent[c] + 1>> \in Requests
  /\ Arrive(<<c, sent[c] + 1>>, Line(Step(c)))
  /\ waiting' = [waiting EXCEPT ![c] = TRUE]
  /\ sent' = [sent EXCEPT ![c] = @ + 1]
  /\ UNCHANGED <<selected, at, failed, slow>>

\* On to the next step, or, when the case is over or has failed, to the next
\* case: what fails returns at once, and the runner counts it and goes on.
Advance(c, ok) ==
  /\ at' = [at EXCEPT ![c] =
              IF ok /\ at[c].step < Len(Case(c).steps)
              THEN [case |-> @.case, step |-> @.step + 1]
              ELSE [case |-> @.case + 1, step |-> 1]]
  /\ failed' = [failed EXCEPT ![c] = IF ok THEN @ ELSE @ \cup {Case(c).id}]
  /\ waiting' = [waiting EXCEPT ![c] = FALSE]

Proceed(c) ==
  /\ waiting[c] /\ resp[Current(c)] # None
  /\ Advance(c, Step(c).cleanup \/ Satisfied(c))
  /\ UNCHANGED <<vars, selected, sent, slow>>

\* The answer may be on its way, and the server goes on with the request.
TimeOut(c) ==
  /\ waiting[c]
  /\ Cardinality(slow[c]) < MaxTimeouts[selected][c]
  /\ slow' = [slow EXCEPT ![c] = @ \cup {<<Case(c).id, Step(c).cleanup>>}]
  /\ Advance(c, Step(c).cleanup)
  /\ UNCHANGED <<vars, selected, sent>>

\* The client keeps the connection of the request it waits for, and sends its
\* body; a connection it has given up may break wherever it stands.
Connection(r) ==
  \/ ReadBody(r)
  \/ /\ ~waiting[r[1]] \/ r # Current(r[1])
     /\ BodyFails(r) \/ Disconnect(r)

Over ==
  /\ \A c \in Runners : Finished(c)
  /\ \A r \in Requests : pc[r] \in {"new", "done", "lost"}

SuitesNext ==
  \/ \E c \in Runners : Send(c) \/ Proceed(c) \/ TimeOut(c)
  \/ /\ \E r \in Requests :
          pc[r] \notin {"new", "done", "lost"} /\ (Connection(r) \/ Serve(r))
     /\ UNCHANGED runner
  \/ Over /\ UNCHANGED allVars

\* The runtimes on both sides poll what is ready, and a connection delivers
\* the body or breaks.
SuitesFairness ==
  /\ \A c \in Runners : WF_allVars(Send(c) \/ Proceed(c))
  /\ \A r \in Requests :
       WF_allVars((Serve(r) \/ ReadBody(r)) /\ UNCHANGED runner)

SuitesSpec == SuitesInit /\ [][SuitesNext]_allVars /\ SuitesFairness

-----------------------------------------------------------------------------
CaseIds == {SuiteNames[n] : n \in 1..Len(SuiteNames)} \X (1..MaxCases)

SuitesTypeOK ==
  /\ TypeOK
  /\ selected \in [Runners -> Selections]
  /\ at \in [Runners -> [case: Nat \ {0}, step: 1..4]]
  /\ waiting \in [Runners -> BOOLEAN]
  /\ sent \in [Runners -> Nat]
  /\ failed \in [Runners -> SUBSET CaseIds]
  /\ slow \in [Runners -> SUBSET (CaseIds \X BOOLEAN)]

(***************************************************************************)
(* ldp_handlers.rs says that it covers all cases of the five suites health *)
(* to error-responses, and it does, for several runners at once too: what  *)
(* fails there timed out before its cleanup.  Of the cases of wac, the two *)
(* that expect a 401 for ".acl" and a WAC-Allow header always fail.        *)
(***************************************************************************)
Verdicts ==
  \A c \in Runners : \A n \in 1..at[c].case - 1 :
    LET id == Cases(c)[n].id IN
      id \in failed[c] <=> \/ id \in {<<"wac", 2>>, <<"wac", 3>>}
                           \/ <<id, FALSE>> \in slow[c]

\* What case i of a suite leaves behind when nothing times out.
Residue(u, id) ==
  CASE id[1] = "resource-crud" /\ id[2] \notin {3, 6} -> {Container(<<u>>)}
    [] id = <<"error-responses", 4>> -> {Container(<<u>>)}
    [] id = <<"wac", 2>> \/ id = <<"wac", 3>> -> {Document(<<u>>)}
    [] OTHER -> {}

(***************************************************************************)
(* resource_crud.rs says that every test cleans up after itself.  The      *)
(* documents of what passes are gone, but what is left of runs without     *)
(* timeouts is this and no more: the containers that were created for      *)
(* them, the child that containers POSTs, whose container is deleted, and  *)
(* the documents of the cases of wac that fail before their cleanup.       *)
(***************************************************************************)
LeftBehind ==
  Over /\ (\A c \in Runners : slow[c] = {}) =>
    LET ran == {x \in Runners \X (1..60) : x[2] <= Len(Cases(x[1]))}
        id(x) == Plan[x[1]][selected[x[1]]][x[2]].id
        uuid(x) == <<x[1], id(x)[1], id(x)[2]>>
        children == {x \in ran : id(x) = <<"containers", 3>>} IN
      /\ \A x \in children :
           Cardinality({k \in DOMAIN store : k.path # <<>>
                          /\ k.path[1] = uuid(x) /\ k.path[2] \in Requests}) = 1
      /\ {k \in DOMAIN store :
            ~\E x \in children : k.path # <<>> /\ k.path[1] = uuid(x)}
           = {Root} \cup UNION {Residue(uuid(x), id(x)) : x \in ran}

(***************************************************************************)
(* A document outlives its case only if that case failed or its cleanup    *)
(* timed out, save for the child of the container that is deleted before   *)
(* it.  A request that times out fails its case; carried out late, it      *)
(* touches no other case, of its own runner or of another one.             *)
(***************************************************************************)
DocumentsOfPassedCasesGone ==
  \A c \in Runners : \A n \in 1..at[c].case - 1 :
    LET id == Cases(c)[n].id IN
      \/ id \in failed[c] \/ <<id, TRUE>> \in slow[c]
      \/ id = <<"containers", 3>>
      \/ \A k \in DOMAIN store :
           k.dir \/ k.path[1] # <<c, id[1], id[2]>>

(***************************************************************************)
(* Every run comes to its end, without help from its timeouts.             *)
(***************************************************************************)
RunsEnd == <>Over
=============================================================================

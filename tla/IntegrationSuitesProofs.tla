----------------------- MODULE IntegrationSuitesProofs -----------------------
(***************************************************************************)
(* Theorems about IntegrationSuites: what its runs show of two runners and *)
(* their bounds holds of any runners, filters and timeouts.                *)
(***************************************************************************)
EXTENDS IntegrationSuites, LdpServerProofs, SequenceTheorems

-----------------------------------------------------------------------------
(*                         What the cases are                              *)

\* The cases that fail, and the number of steps that are taken of a case.
Refused == {<<"wac", 2>>, <<"wac", 3>>}
Ending(id, S) == IF id \in Refused THEN 2 ELSE Len(S)

\* A case is about one key.
CaseKey(S) == S[1].key

\* After p steps, what is at that key is what step w has written.
Wrote(S, p, w) ==
  /\ w \in 1..p /\ S[w].method = "PUT"
  /\ \A i \in w + 1..p : S[i].method \notin {"PUT", "DELETE"}

\* Step j finds what the step before it has written.
Finds(S, j) == j > 1 /\ S[j - 1].method = "PUT"

\* The step is a request of the client.
WellFormed(s) ==
  /\ s.method \in {"GET", "HEAD", "PUT", "POST", "DELETE", "OPTIONS", "PATCH"}
  /\ s.ctype \in {Turtle, Plaintext}
  /\ s.accept \in {{}, {Turtle}, {JsonLd}, {Unknown}}

\* No assertion but that on the status.
Undemanding(s) == s.type = None /\ s.body = None /\ ~s.rel /\ s.header = {}

\* The assertions of step j are met by what the server answers.
Modest(S, j) ==
  LET s == S[j] IN
  /\ s.method = "PUT" => /\ (IF Finds(S, j) THEN 204 ELSE 201) \in s.expect
                         /\ Undemanding(s)
  /\ s.method = "DELETE" => /\ (IF Finds(S, j) THEN 204 ELSE 404) \in s.expect
                            /\ Undemanding(s)
  /\ s.method = "OPTIONS" => 204 \in s.expect /\ Undemanding(s)
  /\ s.method = "PATCH" => 415 \in s.expect /\ Undemanding(s)
  /\ s.method = "POST" => /\ 201 \in s.expect
                          /\ s.type = None /\ s.body = None /\ ~s.rel
                          /\ s.header \subseteq {"location"}
  /\ s.method = "HEAD" => /\ 200 \in s.expect
                          /\ s.type = None /\ s.body \in {None, Empty} /\ ~s.rel
                          /\ s.header = {}
  /\ s.method = "GET" => s.header = {}
  /\ s.method = "GET" /\ s.key = Root => 200 \in s.expect /\ Undemanding(s)
  /\ s.method = "GET" /\ s.key # Root /\ ~Finds(S, j) =>
       404 \in s.expect /\ s.body = None /\ ~s.rel
  /\ s.method = "GET" /\ s.key # Root /\ Finds(S, j) =>
       IF accept_satisfied(s.accept, S[j - 1].ctype)
       THEN /\ 200 \in s.expect
            /\ s.type \in {None, S[j - 1].ctype}
            /\ s.body \in {None, j - 1}
            /\ s.rel => s.key.dir
       ELSE 406 \in s.expect /\ s.body = None /\ ~s.rel

\* A step that asks for something, a step that clears up, and assertions.
Asks(s, m, k, t, a) ==
  /\ s.method = m /\ s.key = k /\ s.ctype = t /\ s.accept = a
  /\ ~s.cleanup /\ s.cleanup \in BOOLEAN
Clears(s, k) ==
  /\ s.method = "DELETE" /\ s.key = k /\ s.ctype = Turtle /\ s.accept = {}
  /\ s.cleanup /\ s.cleanup \in BOOLEAN
Asserts(s, e, t, b, r, h) ==
  s.expect = e /\ s.type = t /\ s.body = b /\ (s.rel <=> r) /\ s.header = h
Only(s, e) == Asserts(s, e, None, None, FALSE, {})

\* What step j is, whatever it asserts.
StepFits(S, j, id) ==
  LET s == S[j] IN
  /\ WellFormed(s)
  /\ s.key = CaseKey(S)
  /\ IF s.key = Root THEN s.method \in {"GET", "HEAD", "OPTIONS"} /\ s.accept = {}
                     ELSE s.method \notin {"HEAD", "OPTIONS"}
  /\ s.cleanup \in BOOLEAN
  /\ s.cleanup => j = Len(S) /\ s.method = "DELETE"
  /\ ~s.cleanup => /\ j = 1 \/ S[j - 1].method \in {"PUT", "DELETE"}
                   /\ (id \in Refused /\ j = 2) \/ Modest(S, j)
  /\ s.method = "POST" => j = 2 /\ id = <<"containers", 3>>

\* Where the case works, and what it leaves there.
PlaceFits(S, u, id) ==
  LET k == CaseKey(S) IN
  /\ k \in {Root} \cup Keys(u)
  /\ k = Container(<<u>>) => id[1] = "containers"
  /\ k = Document(<<u, File>>) <=>
       id[1] = "resource-crud" \/ id = <<"error-responses", 4>>
  /\ k = Document(<<u, File>>) =>
       (S[1].method = "PUT" <=> id[1] # "resource-crud" \/ id[2] \notin {3, 6})
  /\ k = Document(<<u, File>>) /\ S[1].method # "PUT" =>
       \A j \in 1..Len(S) : S[j].method # "PUT"
  /\ k # Root /\ id \notin Refused => \A w : ~Wrote(S, Len(S), w)
  /\ id = <<"containers", 3>> =>
       /\ k = Container(<<u>>) /\ Len(S) = 3
       /\ S[1].method = "PUT" /\ S[2].method = "POST" /\ S[3].method = "DELETE"
  /\ id \in Refused =>
       /\ k = Document(<<u>>) /\ Len(S) = 3
       /\ S[1].method = "PUT" /\ S[2].method = "GET" /\ S[2].accept = {}
       /\ ~S[2].cleanup /\ S[2].body = None
       /\ S[2].expect = {401} \/ S[2].header = {"wac-allow"}

CaseFits(S, u, id) ==
  /\ S # <<>> /\ Len(S) \in 1..4
  /\ \A j \in 1..Len(S) : StepFits(S, j, id)
  /\ PlaceFits(S, u, id)

LEMMA HealthFits ==
  ASSUME NEW u, NEW i \in 1..3
  PROVE  CaseFits(health(u)[i], u[i], <<"health", i>>)
<1> DEFINE S == health(u)[i]
           id == <<"health", i>>
<1>1. CASE i = 1
  <2> DEFINE k == Root
  <2>1. S = <<assert_status(get(k), {200, 401})>>
    BY <1>1 DEF health
  <2>2. /\ k = Root /\ k.dir
        /\ k # Container(<<u[i]>>) /\ k # Document(<<u[i]>>) /\ k # Document(<<u[i], File>>)
    BY DEF Document, Container, Root
  <2> HIDE DEF S, k
  <2>3. /\ Len(S) = 1 /\ S # <<>>
        /\ Asks(S[1], "GET", k, Turtle, {}) /\ Only(S[1], {200, 401})
    BY <2>1 DEF get, assert_status, request, Asks, Asserts, Only
  <2>4. StepFits(S, 1, id)
    BY <1>1, <2>2, <2>3 DEF StepFits, WellFormed, CaseKey, Modest, Undemanding,
        Finds, Asks, Asserts, Only
  <2>5. PlaceFits(S, u[i], id)
    BY <1>1, <2>2, <2>3
    DEF PlaceFits, CaseKey, Wrote, Refused, Keys, Asks, Asserts, Only
  <2>6. CaseFits(S, u[i], id)
    BY <2>3, <2>4, <2>5 DEF CaseFits
  <2>7. QED
    BY <2>6 DEF S
<1>2. CASE i = 2
  <2> DEFINE k == Root
  <2>1. S = <<assert_status(options(k), {200, 204})>>
    BY <1>2 DEF health
  <2>2. /\ k = Root /\ k.dir
        /\ k # Container(<<u[i]>>) /\ k # Document(<<u[i]>>) /\ k # Document(<<u[i], File>>)
    BY DEF Document, Container, Root
  <2> HIDE DEF S, k
  <2>3. /\ Len(S) = 1 /\ S # <<>>
        /\ Asks(S[1], "OPTIONS", k, Turtle, {}) /\ Only(S[1], {200, 204})
    BY <2>1 DEF options, assert_status, request, Asks, Asserts, Only
  <2>4. StepFits(S, 1, id)
    BY <1>2, <2>2, <2>3 DEF StepFits, WellFormed, CaseKey, Modest, Undemanding,
        Finds, Asks, Asserts, Only
  <2>5. PlaceFits(S, u[i], id)
    BY <1>2, <2>2, <2>3
    DEF PlaceFits, CaseKey, Wrote, Refused, Keys, Asks, Asserts, Only
  <2>6. CaseFits(S, u[i], id)
    BY <2>3, <2>4, <2>5 DEF CaseFits
  <2>7. QED
    BY <2>6 DEF S
<1>3. CASE i = 3
  <2> DEFINE k == Root
  <2>1. S = <<assert_body_contains(assert_status(head(k), Success \cup {401}), Empty)>>
    BY <1>3 DEF health
  <2>2. /\ k = Root /\ k.dir
        /\ k # Container(<<u[i]>>) /\ k # Document(<<u[i]>>) /\ k # Document(<<u[i], File>>)
    BY DEF Document, Container, Root
  <2> HIDE DEF S, k
  <2>3. /\ Len(S) = 1 /\ S # <<>>
        /\ Asks(S[1], "HEAD", k, Turtle, {})
        /\ Asserts(S[1], Success \cup {401}, None, Empty, FALSE, {})
    BY <2>1 DEF head, assert_status, assert_body_contains, request, Asks,
        Asserts, Only
  <2>4. StepFits(S, 1, id)
    BY <1>3, <2>2, <2>3 DEF StepFits, WellFormed, CaseKey, Modest, Undemanding,
        Finds, Asks, Asserts, Only, Success
  <2>5. PlaceFits(S, u[i], id)
    BY <1>3, <2>2, <2>3
    DEF PlaceFits, CaseKey, Wrote, Refused, Keys, Asks, Asserts, Only
  <2>6. CaseFits(S, u[i], id)
    BY <2>3, <2>4, <2>5 DEF CaseFits
  <2>7. QED
    BY <2>6 DEF S
<1>4. QED
  BY <1>1, <1>2, <1>3

LEMMA CrudFits ==
  ASSUME NEW u, NEW i \in 1..7
  PROVE  CaseFits(resource_crud(u)[i], u[i], <<"resource-crud", i>>)
<1> DEFINE S == resource_crud(u)[i]
           id == <<"resource-crud", i>>
<1>1. CASE i = 1
  <2> DEFINE k == Document(<<u[i], File>>)
  <2>1. S = <<assert_status(put_(k, Plaintext), {201}), cleanup(k)>>
    BY <1>1 DEF resource_crud
  <2>2. /\ k = Document(<<u[i], File>>) /\ ~k.dir
        /\ k # Root /\ k # Container(<<u[i]>>)
    BY DEF Document, Container, Root
  <2> HIDE DEF S, k
  <2>3. /\ Len(S) = 2 /\ S # <<>>
        /\ Asks(S[1], "PUT", k, Plaintext, {}) /\ Only(S[1], {201})
        /\ Clears(S[2], k)
    BY <2>1 DEF put_, assert_status, cleanup, delete, request, Asks, Asserts,
        Only, Clears
  <2>4. StepFits(S, 1, id) /\ StepFits(S, 2, id)
    BY <1>1, <2>2, <2>3 DEF StepFits, WellFormed, CaseKey, Modest, Undemanding,
        Finds, Asks, Asserts, Only, Clears
  <2>5. PlaceFits(S, u[i], id)
    BY <1>1, <2>2, <2>3
    DEF PlaceFits, CaseKey, Wrote, Refused, Keys, Asks, Asserts, Only, Clears
  <2>6. CaseFits(S, u[i], id)
    BY <2>3, <2>4, <2>5 DEF CaseFits
  <2>7. QED
    BY <2>6 DEF S
<1>2. CASE i = 2
  <2> DEFINE k == Document(<<u[i], File>>)
  <2>1. S = <<put_(k, Plaintext),
              assert_body_contains(assert_status(get(k), {200}), 1), cleanup(k)>>
    BY <1>2 DEF resource_crud
  <2>2. /\ k = Document(<<u[i], File>>) /\ ~k.dir
        /\ k # Root /\ k # Container(<<u[i]>>)
    BY DEF Document, Container, Root
  <2> HIDE DEF S, k
  <2>3. /\ Len(S) = 3 /\ S # <<>>
        /\ Asks(S[1], "PUT", k, Plaintext, {}) /\ Only(S[1], AnyStatus)
        /\ Asks(S[2], "GET", k, Turtle, {})
        /\ Asserts(S[2], {200}, None, 1, FALSE, {})
        /\ Clears(S[3], k)
    BY <2>1 DEF put_, get, assert_status, assert_body_contains, cleanup, delete,
        request, Asks, Asserts, Only, Clears
  <2>4. StepFits(S, 1, id) /\ StepFits(S, 2, id)
    BY <1>2, <2>2, <2>3 DEF StepFits, WellFormed, CaseKey, Modest, Undemanding,
        Finds, Asks, Asserts, Only, Clears, AnyStatus, accept_satisfied
  <2>5. StepFits(S, 3, id)
    BY <1>2, <2>2, <2>3 DEF StepFits, WellFormed, CaseKey, Modest, Undemanding,
        Finds, Asks, Asserts, Only, Clears, AnyStatus, accept_satisfied
  <2>6. PlaceFits(S, u[i], id)
    BY <1>2, <2>2, <2>3
    DEF PlaceFits, CaseKey, Wrote, Refused, Keys, Asks, Asserts, Only, Clears
  <2>7. CaseFits(S, u[i], id)
    BY <2>3, <2>4, <2>5, <2>6 DEF CaseFits
  <2>8. QED
    BY <2>7 DEF S
<1>3. CASE i = 3
  <2> DEFINE k == Document(<<u[i], File>>)
  <2>1. S = <<assert_status(get(k), {404})>>
    BY <1>3 DEF resource_crud
  <2>2. /\ k = Document(<<u[i], File>>) /\ ~k.dir
        /\ k # Root /\ k # Container(<<u[i]>>)
    BY DEF Document, Container, Root
  <2> HIDE DEF S, k
  <2>3. /\ Len(S) = 1 /\ S # <<>>
        /\ Asks(S[1], "GET", k, Turtle, {}) /\ Only(S[1], {404})
    BY <2>1 DEF get, assert_status, request, Asks, Asserts, Only
  <2>4. StepFits(S, 1, id)
    BY <1>3, <2>2, <2>3 DEF StepFits, WellFormed, CaseKey, Modest, Undemanding,
        Finds, Asks, Asserts, Only
  <2>5. PlaceFits(S, u[i], id)
    BY <1>3, <2>2, <2>3
    DEF PlaceFits, CaseKey, Wrote, Refused, Keys, Asks, Asserts, Only
  <2>6. CaseFits(S, u[i], id)
    BY <2>3, <2>4, <2>5 DEF CaseFits
  <2>7. QED
    BY <2>6 DEF S
<1>4. CASE i = 4
  <2> DEFINE k == Document(<<u[i], File>>)
  <2>1. S = <<put_(k, Plaintext), assert_status(put_(k, Plaintext), {200, 204}),
              assert_body_contains(get(k), 2), cleanup(k)>>
    BY <1>4 DEF resource_crud
  <2>2. /\ k = Document(<<u[i], File>>) /\ ~k.dir
        /\ k # Root /\ k # Container(<<u[i]>>)
    BY DEF Document, Container, Root
  <2> HIDE DEF S, k
  <2>3. /\ Len(S) = 4 /\ S # <<>>
        /\ Asks(S[1], "PUT", k, Plaintext, {}) /\ Only(S[1], AnyStatus)
        /\ Asks(S[2], "PUT", k, Plaintext, {}) /\ Only(S[2], {200, 204})
        /\ Asks(S[3], "GET", k, Turtle, {})
        /\ Asserts(S[3], AnyStatus, None, 2, FALSE, {})
        /\ Clears(S[4], k)
    BY <2>1 DEF put_, get, assert_status, assert_body_contains, cleanup, delete,
        request, Asks, Asserts, Only, Clears
  <2>4. StepFits(S, 1, id) /\ StepFits(S, 2, id)
    BY <1>4, <2>2, <2>3 DEF StepFits, WellFormed, CaseKey, Modest, Undemanding,
        Finds, Asks, Asserts, Only, Clears, AnyStatus, accept_satisfied
  <2>5. StepFits(S, 3, id) /\ StepFits(S, 4, id)
    BY <1>4, <2>2, <2>3 DEF StepFits, WellFormed, CaseKey, Modest, Undemanding,
        Finds, Asks, Asserts, Only, Clears, AnyStatus, accept_satisfied
  <2>6. PlaceFits(S, u[i], id)
    BY <1>4, <2>2, <2>3
    DEF PlaceFits, CaseKey, Wrote, Refused, Keys, Asks, Asserts, Only, Clears
  <2>7. CaseFits(S, u[i], id)
    BY <2>3, <2>4, <2>5, <2>6 DEF CaseFits
  <2>8. QED
    BY <2>7 DEF S
<1>5. CASE i = 5
  <2> DEFINE k == Document(<<u[i], File>>)
  <2>1. S = <<put_(k, Plaintext), assert_status(delete(k), {204}),
              assert_status(get(k), {404})>>
    BY <1>5 DEF resource_crud
  <2>2. /\ k = Document(<<u[i], File>>) /\ ~k.dir
        /\ k # Root /\ k # Container(<<u[i]>>)
    BY DEF Document, Container, Root
  <2> HIDE DEF S, k
  <2>3. /\ Len(S) = 3 /\ S # <<>>
        /\ Asks(S[1], "PUT", k, Plaintext, {}) /\ Only(S[1], AnyStatus)
        /\ Asks(S[2], "DELETE", k, Turtle, {}) /\ Only(S[2], {204})
        /\ Asks(S[3], "GET", k, Turtle, {}) /\ Only(S[3], {404})
    BY <2>1 DEF put_, get, delete, assert_status, request, Asks, Asserts, Only
  <2>4. StepFits(S, 1, id) /\ StepFits(S, 2, id)
    BY <1>5, <2>2, <2>3 DEF StepFits, WellFormed, CaseKey, Modest, Undemanding,
        Finds, Asks, Asserts, Only, AnyStatus, accept_satisfied
  <2>5. StepFits(S, 3, id)
    BY <1>5, <2>2, <2>3 DEF StepFits, WellFormed, CaseKey, Modest, Undemanding,
        Finds, Asks, Asserts, Only, AnyStatus, accept_satisfied
  <2>6. PlaceFits(S, u[i], id)
    BY <1>5, <2>2, <2>3
    DEF PlaceFits, CaseKey, Wrote, Refused, Keys, Asks, Asserts, Only
  <2>7. CaseFits(S, u[i], id)
    BY <2>3, <2>4, <2>5, <2>6 DEF CaseFits
  <2>8. QED
    BY <2>7 DEF S
<1>6. CASE i = 6
  <2> DEFINE k == Document(<<u[i], File>>)
  <2>1. S = <<assert_status(delete(k), {404})>>
    BY <1>6 DEF resource_crud
  <2>2. /\ k = Document(<<u[i], File>>) /\ ~k.dir
        /\ k # Root /\ k # Container(<<u[i]>>)
    BY DEF Document, Container, Root
  <2> HIDE DEF S, k
  <2>3. /\ Len(S) = 1 /\ S # <<>>
        /\ Asks(S[1], "DELETE", k, Turtle, {}) /\ Only(S[1], {404})
    BY <2>1 DEF delete, assert_status, request, Asks, Asserts, Only
  <2>4. StepFits(S, 1, id)
    BY <1>6, <2>2, <2>3 DEF StepFits, WellFormed, CaseKey, Modest, Undemanding,
        Finds, Asks, Asserts, Only
  <2>5. PlaceFits(S, u[i], id)
    BY <1>6, <2>2, <2>3
    DEF PlaceFits, CaseKey, Wrote, Refused, Keys, Asks, Asserts, Only
  <2>6. CaseFits(S, u[i], id)
    BY <2>3, <2>4, <2>5 DEF CaseFits
  <2>7. QED
    BY <2>6 DEF S
<1>7. CASE i = 7
  <2> DEFINE k == Document(<<u[i], File>>)
  <2>1. S = <<put_(k, Turtle),
              assert_content_type(assert_status(get(k), {200}), Turtle),
              cleanup(k)>>
    BY <1>7 DEF resource_crud
  <2>2. /\ k = Document(<<u[i], File>>) /\ ~k.dir
        /\ k # Root /\ k # Container(<<u[i]>>)
    BY DEF Document, Container, Root
  <2> HIDE DEF S, k
  <2>3. /\ Len(S) = 3 /\ S # <<>>
        /\ Asks(S[1], "PUT", k, Turtle, {}) /\ Only(S[1], AnyStatus)
        /\ Asks(S[2], "GET", k, Turtle, {})
        /\ Asserts(S[2], {200}, Turtle, None, FALSE, {})
        /\ Clears(S[3], k)
    BY <2>1 DEF put_, get, assert_status, assert_content_type, cleanup, delete,
        request, Asks, Asserts, Only, Clears
  <2>4. StepFits(S, 1, id) /\ StepFits(S, 2, id)
    BY <1>7, <2>2, <2>3 DEF StepFits, WellFormed, CaseKey, Modest, Undemanding,
        Finds, Asks, Asserts, Only, Clears, AnyStatus, accept_satisfied
  <2>5. StepFits(S, 3, id)
    BY <1>7, <2>2, <2>3 DEF StepFits, WellFormed, CaseKey, Modest, Undemanding,
        Finds, Asks, Asserts, Only, Clears, AnyStatus, accept_satisfied
  <2>6. PlaceFits(S, u[i], id)
    BY <1>7, <2>2, <2>3
    DEF PlaceFits, CaseKey, Wrote, Refused, Keys, Asks, Asserts, Only, Clears
  <2>7. CaseFits(S, u[i], id)
    BY <2>3, <2>4, <2>5, <2>6 DEF CaseFits
  <2>8. QED
    BY <2>7 DEF S
<1>8. QED
  BY <1>1, <1>2, <1>3, <1>4, <1>5, <1>6, <1>7

LEMMA ContainersFit ==
  ASSUME NEW u, NEW i \in 1..5
  PROVE  CaseFits(containers(u)[i], u[i], <<"containers", i>>)
<1> DEFINE S == containers(u)[i]
           id == <<"containers", i>>
<1>1. CASE i = 1
  <2> DEFINE k == Root
  <2>1. S = <<assert_status(get(k), {200, 401})>>
    BY <1>1 DEF containers
  <2>2. /\ k = Root /\ k.dir
        /\ k # Container(<<u[i]>>) /\ k # Document(<<u[i]>>) /\ k # Document(<<u[i], File>>)
    BY DEF Document, Container, Root
  <2> HIDE DEF S, k
  <2>3. /\ Len(S) = 1 /\ S # <<>>
        /\ Asks(S[1], "GET", k, Turtle, {}) /\ Only(S[1], {200, 401})
    BY <2>1 DEF get, assert_status, request, Asks, Asserts, Only
  <2>4. StepFits(S, 1, id)
    BY <1>1, <2>2, <2>3 DEF StepFits, WellFormed, CaseKey, Modest, Undemanding,
        Finds, Asks, Asserts, Only
  <2>5. PlaceFits(S, u[i], id)
    BY <1>1, <2>2, <2>3
    DEF PlaceFits, CaseKey, Wrote, Refused, Keys, Asks, Asserts, Only
  <2>6. CaseFits(S, u[i], id)
    BY <2>3, <2>4, <2>5 DEF CaseFits
  <2>7. QED
    BY <2>6 DEF S
<1>2. CASE i = 2
  <2> DEFINE k == Container(<<u[i]>>)
  <2>1. S = <<assert_status(put_(k, Turtle), {201}), cleanup(k)>>
    BY <1>2 DEF containers
  <2>2. /\ k = Container(<<u[i]>>) /\ k.dir
        /\ k # Root /\ k # Document(<<u[i], File>>)
    BY DEF Document, Container, Root
  <2> HIDE DEF S, k
  <2>3. /\ Len(S) = 2 /\ S # <<>>
        /\ Asks(S[1], "PUT", k, Turtle, {}) /\ Only(S[1], {201})
        /\ Clears(S[2], k)
    BY <2>1 DEF put_, assert_status, cleanup, delete, request, Asks, Asserts,
        Only, Clears
  <2>4. StepFits(S, 1, id) /\ StepFits(S, 2, id)
    BY <1>2, <2>2, <2>3 DEF StepFits, WellFormed, CaseKey, Modest, Undemanding,
        Finds, Asks, Asserts, Only, Clears
  <2>5. PlaceFits(S, u[i], id)
    BY <1>2, <2>2, <2>3
    DEF PlaceFits, CaseKey, Wrote, Refused, Keys, Asks, Asserts, Only, Clears
  <2>6. CaseFits(S, u[i], id)
    BY <2>3, <2>4, <2>5 DEF CaseFits
  <2>7. QED
    BY <2>6 DEF S
<1>3. CASE i = 3
  <2> DEFINE k == Container(<<u[i]>>)
  <2>1. S = <<put_(k, Turtle),
              assert_header(assert_status(post(k, Plaintext), {201}), "location"),
              cleanup(k)>>
    BY <1>3 DEF containers
  <2>2. /\ k = Container(<<u[i]>>) /\ k.dir
        /\ k # Root /\ k # Document(<<u[i], File>>)
    BY DEF Document, Container, Root
  <2> HIDE DEF S, k
  <2>3. /\ Len(S) = 3 /\ S # <<>>
        /\ Asks(S[1], "PUT", k, Turtle, {}) /\ Only(S[1], AnyStatus)
        /\ Asks(S[2], "POST", k, Plaintext, {})
        /\ Asserts(S[2], {201}, None, None, FALSE, {"location"})
        /\ Clears(S[3], k)
    BY <2>1 DEF put_, post, assert_status, assert_header, cleanup, delete,
        request, Asks, Asserts, Only, Clears
  <2>4. StepFits(S, 1, id) /\ StepFits(S, 2, id)
    BY <1>3, <2>2, <2>3 DEF StepFits, WellFormed, CaseKey, Modest, Undemanding,
        Finds, Asks, Asserts, Only, Clears, AnyStatus
  <2>5. StepFits(S, 3, id)
    BY <1>3, <2>2, <2>3 DEF StepFits, WellFormed, CaseKey, Modest, Undemanding,
        Finds, Asks, Asserts, Only, Clears, AnyStatus
  <2>6. PlaceFits(S, u[i], id)
    BY <1>3, <2>2, <2>3
    DEF PlaceFits, CaseKey, Wrote, Refused, Keys, Asks, Asserts, Only, Clears
  <2>7. CaseFits(S, u[i], id)
    BY <2>3, <2>4, <2>5, <2>6 DEF CaseFits
  <2>8. QED
    BY <2>7 DEF S
<1>4. CASE i = 4
  <2> DEFINE k == Container(<<u[i]>>)
  <2>1. S = <<put_(k, Turtle), assert_link_rel(assert_status(get(k), {200})),
              cleanup(k)>>
    BY <1>4 DEF containers
  <2>2. /\ k = Container(<<u[i]>>) /\ k.dir
        /\ k # Root /\ k # Document(<<u[i], File>>)
    BY DEF Document, Container, Root
  <2> HIDE DEF S, k
  <2>3. /\ Len(S) = 3 /\ S # <<>>
        /\ Asks(S[1], "PUT", k, Turtle, {}) /\ Only(S[1], AnyStatus)
        /\ Asks(S[2], "GET", k, Turtle, {})
        /\ Asserts(S[2], {200}, None, None, TRUE, {})
        /\ Clears(S[3], k)
    BY <2>1 DEF put_, get, assert_status, assert_link_rel, cleanup, delete,
        request, Asks, Asserts, Only, Clears
  <2>4. StepFits(S, 1, id) /\ StepFits(S, 2, id)
    BY <1>4, <2>2, <2>3 DEF StepFits, WellFormed, CaseKey, Modest, Undemanding,
        Finds, Asks, Asserts, Only, Clears, AnyStatus, accept_satisfied
  <2>5. StepFits(S, 3, id)
    BY <1>4, <2>2, <2>3 DEF StepFits, WellFormed, CaseKey, Modest, Undemanding,
        Finds, Asks, Asserts, Only, Clears, AnyStatus, accept_satisfied
  <2>6. PlaceFits(S, u[i], id)
    BY <1>4, <2>2, <2>3
    DEF PlaceFits, CaseKey, Wrote, Refused, Keys, Asks, Asserts, Only, Clears
  <2>7. CaseFits(S, u[i], id)
    BY <2>3, <2>4, <2>5, <2>6 DEF CaseFits
  <2>8. QED
    BY <2>7 DEF S
<1>5. CASE i = 5
  <2> DEFINE k == Container(<<u[i]>>)
  <2>1. S = <<put_(k, Turtle), assert_status(delete(k), {204})>>
    BY <1>5 DEF containers
  <2>2. /\ k = Container(<<u[i]>>) /\ k.dir
        /\ k # Root /\ k # Document(<<u[i], File>>)
    BY DEF Document, Container, Root
  <2> HIDE DEF S, k
  <2>3. /\ Len(S) = 2 /\ S # <<>>
        /\ Asks(S[1], "PUT", k, Turtle, {}) /\ Only(S[1], AnyStatus)
        /\ Asks(S[2], "DELETE", k, Turtle, {}) /\ Only(S[2], {204})
    BY <2>1 DEF put_, delete, assert_status, request, Asks, Asserts, Only
  <2>4. StepFits(S, 1, id) /\ StepFits(S, 2, id)
    BY <1>5, <2>2, <2>3 DEF StepFits, WellFormed, CaseKey, Modest, Undemanding,
        Finds, Asks, Asserts, Only, AnyStatus
  <2>5. PlaceFits(S, u[i], id)
    BY <1>5, <2>2, <2>3
    DEF PlaceFits, CaseKey, Wrote, Refused, Keys, Asks, Asserts, Only
  <2>6. CaseFits(S, u[i], id)
    BY <2>3, <2>4, <2>5 DEF CaseFits
  <2>7. QED
    BY <2>6 DEF S
<1>6. QED
  BY <1>1, <1>2, <1>3, <1>4, <1>5

LEMMA NegotiationFits ==
  ASSUME NEW u, NEW i \in 1..4
  PROVE  CaseFits(content_negotiation(u)[i], u[i], <<"content-negotiation", i>>)
<1> DEFINE S == content_negotiation(u)[i]
           id == <<"content-negotiation", i>>
<1>1. CASE i = 1
  <2> DEFINE k == Document(<<u[i]>>)
  <2>1. S = <<put_(k, Turtle),
              assert_content_type(assert_status(get_accept(k, Turtle), {200}), Turtle),
              cleanup(k)>>
    BY <1>1 DEF content_negotiation
  <2>2. /\ k = Document(<<u[i]>>) /\ ~k.dir
        /\ k # Root /\ k # Container(<<u[i]>>) /\ k # Document(<<u[i], File>>)
    BY DEF Document, Container, Root
  <2> HIDE DEF S, k
  <2>3. /\ Len(S) = 3 /\ S # <<>>
        /\ Asks(S[1], "PUT", k, Turtle, {}) /\ Only(S[1], AnyStatus)
        /\ Asks(S[2], "GET", k, Turtle, {Turtle})
        /\ Asserts(S[2], {200}, Turtle, None, FALSE, {})
        /\ Clears(S[3], k)
    BY <2>1 DEF put_, get_accept, assert_status, assert_content_type, cleanup,
        delete, request, Asks, Asserts, Only, Clears
  <2>4. StepFits(S, 1, id) /\ StepFits(S, 2, id)
    BY <1>1, <2>2, <2>3 DEF StepFits, WellFormed, CaseKey, Modest, Undemanding,
        Finds, Asks, Asserts, Only, Clears, AnyStatus, accept_satisfied,
        TokenMatches, AnyRange, Turtle, JsonLd, Plaintext, Unknown
  <2>5. StepFits(S, 3, id)
    BY <1>1, <2>2, <2>3 DEF StepFits, WellFormed, CaseKey, Modest, Undemanding,
        Finds, Asks, Asserts, Only, Clears, AnyStatus, accept_satisfied,
        TokenMatches, AnyRange, Turtle, JsonLd, Plaintext, Unknown
  <2>6. PlaceFits(S, u[i], id)
    BY <1>1, <2>2, <2>3
    DEF PlaceFits, CaseKey, Wrote, Refused, Keys, Asks, Asserts, Only, Clears
  <2>7. CaseFits(S, u[i], id)
    BY <2>3, <2>4, <2>5, <2>6 DEF CaseFits
  <2>8. QED
    BY <2>7 DEF S
<1>2. CASE i = 2
  <2> DEFINE k == Document(<<u[i]>>)
  <2>1. S = <<put_(k, Turtle),
              assert_content_type(assert_status(get_accept(k, JsonLd), {200, 406}), JsonLd),
              cleanup(k)>>
    BY <1>2 DEF content_negotiation
  <2>2. /\ k = Document(<<u[i]>>) /\ ~k.dir
        /\ k # Root /\ k # Container(<<u[i]>>) /\ k # Document(<<u[i], File>>)
    BY DEF Document, Container, Root
  <2> HIDE DEF S, k
  <2>3. /\ Len(S) = 3 /\ S # <<>>
        /\ Asks(S[1], "PUT", k, Turtle, {}) /\ Only(S[1], AnyStatus)
        /\ Asks(S[2], "GET", k, Turtle, {JsonLd})
        /\ Asserts(S[2], {200, 406}, JsonLd, None, FALSE, {})
        /\ Clears(S[3], k)
    BY <2>1 DEF put_, get_accept, assert_status, assert_content_type, cleanup,
        delete, request, Asks, Asserts, Only, Clears
  <2>4. StepFits(S, 1, id) /\ StepFits(S, 2, id)
    BY <1>2, <2>2, <2>3 DEF StepFits, WellFormed, CaseKey, Modest, Undemanding,
        Finds, Asks, Asserts, Only, Clears, AnyStatus, accept_satisfied,
        TokenMatches, AnyRange, Turtle, JsonLd, Plaintext, Unknown
  <2>5. StepFits(S, 3, id)
    BY <1>2, <2>2, <2>3 DEF StepFits, WellFormed, CaseKey, Modest, Undemanding,
        Finds, Asks, Asserts, Only, Clears, AnyStatus, accept_satisfied,
        TokenMatches, AnyRange, Turtle, JsonLd, Plaintext, Unknown
  <2>6. PlaceFits(S, u[i], id)
    BY <1>2, <2>2, <2>3
    DEF PlaceFits, CaseKey, Wrote, Refused, Keys, Asks, Asserts, Only, Clears
  <2>7. CaseFits(S, u[i], id)
    BY <2>3, <2>4, <2>5, <2>6 DEF CaseFits
  <2>8. QED
    BY <2>7 DEF S
<1>3. CASE i = 3
  <2> DEFINE k == Document(<<u[i]>>)
  <2>1. S = <<put_(k, Plaintext),
              assert_content_type(assert_status(get(k), {200}), Plaintext),
              cleanup(k)>>
    BY <1>3 DEF content_negotiation
  <2>2. /\ k = Document(<<u[i]>>) /\ ~k.dir
        /\ k # Root /\ k # Container(<<u[i]>>) /\ k # Document(<<u[i], File>>)
    BY DEF Document, Container, Root
  <2> HIDE DEF S, k
  <2>3. /\ Len(S) = 3 /\ S # <<>>
        /\ Asks(S[1], "PUT", k, Plaintext, {}) /\ Only(S[1], AnyStatus)
        /\ Asks(S[2], "GET", k, Turtle, {})
        /\ Asserts(S[2], {200}, Plaintext, None, FALSE, {})
        /\ Clears(S[3], k)
    BY <2>1 DEF put_, get, assert_status, assert_content_type, cleanup, delete,
        request, Asks, Asserts, Only, Clears
  <2>4. StepFits(S, 1, id) /\ StepFits(S, 2, id)
    BY <1>3, <2>2, <2>3 DEF StepFits, WellFormed, CaseKey, Modest, Undemanding,
        Finds, Asks, Asserts, Only, Clears, AnyStatus, accept_satisfied
  <2>5. StepFits(S, 3, id)
    BY <1>3, <2>2, <2>3 DEF StepFits, WellFormed, CaseKey, Modest, Undemanding,
        Finds, Asks, Asserts, Only, Clears, AnyStatus, accept_satisfied
  <2>6. PlaceFits(S, u[i], id)
    BY <1>3, <2>2, <2>3
    DEF PlaceFits, CaseKey, Wrote, Refused, Keys, Asks, Asserts, Only, Clears
  <2>7. CaseFits(S, u[i], id)
    BY <2>3, <2>4, <2>5, <2>6 DEF CaseFits
  <2>8. QED
    BY <2>7 DEF S
<1>4. CASE i = 4
  <2> DEFINE k == Document(<<u[i]>>)
  <2>1. S = <<put_(k, Plaintext),
              assert_status(get_accept(k, Unknown), Success \cup {406}),
              cleanup(k)>>
    BY <1>4 DEF content_negotiation
  <2>2. /\ k = Document(<<u[i]>>) /\ ~k.dir
        /\ k # Root /\ k # Container(<<u[i]>>) /\ k # Document(<<u[i], File>>)
    BY DEF Document, Container, Root
  <2> HIDE DEF S, k
  <2>3. /\ Len(S) = 3 /\ S # <<>>
        /\ Asks(S[1], "PUT", k, Plaintext, {}) /\ Only(S[1], AnyStatus)
        /\ Asks(S[2], "GET", k, Turtle, {Unknown})
        /\ Only(S[2], Success \cup {406})
        /\ Clears(S[3], k)
    BY <2>1 DEF put_, get_accept, assert_status, cleanup, delete, request, Asks,
        Asserts, Only, Clears
  <2>4. StepFits(S, 1, id) /\ StepFits(S, 2, id)
    BY <1>4, <2>2, <2>3 DEF StepFits, WellFormed, CaseKey, Modest, Undemanding,
        Finds, Asks, Asserts, Only, Clears, AnyStatus, Success,
        accept_satisfied, TokenMatches, AnyRange, Turtle, JsonLd, Plaintext,
        Unknown
  <2>5. StepFits(S, 3, id)
    BY <1>4, <2>2, <2>3 DEF StepFits, WellFormed, CaseKey, Modest, Undemanding,
        Finds, Asks, Asserts, Only, Clears, AnyStatus, Success,
        accept_satisfied, TokenMatches, AnyRange, Turtle, JsonLd, Plaintext,
        Unknown
  <2>6. PlaceFits(S, u[i], id)
    BY <1>4, <2>2, <2>3
    DEF PlaceFits, CaseKey, Wrote, Refused, Keys, Asks, Asserts, Only, Clears
  <2>7. CaseFits(S, u[i], id)
    BY <2>3, <2>4, <2>5, <2>6 DEF CaseFits
  <2>8. QED
    BY <2>7 DEF S
<1>5. QED
  BY <1>1, <1>2, <1>3, <1>4

LEMMA ErrorsFit ==
  ASSUME NEW u, NEW i \in 1..4
  PROVE  CaseFits(error_responses(u)[i], u[i], <<"error-responses", i>>)
<1> DEFINE S == error_responses(u)[i]
           id == <<"error-responses", i>>
<1>1. CASE i = 1
  <2> DEFINE k == Document(<<u[i]>>)
  <2>1. S = <<assert_status(get(k), {404})>>
    BY <1>1 DEF error_responses
  <2>2. /\ k = Document(<<u[i]>>) /\ ~k.dir
        /\ k # Root /\ k # Container(<<u[i]>>) /\ k # Document(<<u[i], File>>)
    BY DEF Document, Container, Root
  <2> HIDE DEF S, k
  <2>3. /\ Len(S) = 1 /\ S # <<>>
        /\ Asks(S[1], "GET", k, Turtle, {}) /\ Only(S[1], {404})
    BY <2>1 DEF get, assert_status, request, Asks, Asserts, Only
  <2>4. StepFits(S, 1, id)
    BY <1>1, <2>2, <2>3 DEF StepFits, WellFormed, CaseKey, Modest, Undemanding,
        Finds, Asks, Asserts, Only
  <2>5. PlaceFits(S, u[i], id)
    BY <1>1, <2>2, <2>3
    DEF PlaceFits, CaseKey, Wrote, Refused, Keys, Asks, Asserts, Only
  <2>6. CaseFits(S, u[i], id)
    BY <2>3, <2>4, <2>5 DEF CaseFits
  <2>7. QED
    BY <2>6 DEF S
<1>2. CASE i = 2
  <2> DEFINE k == Document(<<u[i]>>)
  <2>1. S = <<put_(k, Plaintext), assert_status(patch(k), {400, 405, 415}),
              cleanup(k)>>
    BY <1>2 DEF error_responses
  <2>2. /\ k = Document(<<u[i]>>) /\ ~k.dir
        /\ k # Root /\ k # Container(<<u[i]>>) /\ k # Document(<<u[i], File>>)
    BY DEF Document, Container, Root
  <2> HIDE DEF S, k
  <2>3. /\ Len(S) = 3 /\ S # <<>>
        /\ Asks(S[1], "PUT", k, Plaintext, {}) /\ Only(S[1], AnyStatus)
        /\ Asks(S[2], "PATCH", k, Turtle, {}) /\ Only(S[2], {400, 405, 415})
        /\ Clears(S[3], k)
    BY <2>1 DEF put_, patch, assert_status, cleanup, delete, request, Asks,
        Asserts, Only, Clears
  <2>4. StepFits(S, 1, id) /\ StepFits(S, 2, id)
    BY <1>2, <2>2, <2>3 DEF StepFits, WellFormed, CaseKey, Modest, Undemanding,
        Finds, Asks, Asserts, Only, Clears, AnyStatus
  <2>5. StepFits(S, 3, id)
    BY <1>2, <2>2, <2>3 DEF StepFits, WellFormed, CaseKey, Modest, Undemanding,
        Finds, Asks, Asserts, Only, Clears, AnyStatus
  <2>6. PlaceFits(S, u[i], id)
    BY <1>2, <2>2, <2>3
    DEF PlaceFits, CaseKey, Wrote, Refused, Keys, Asks, Asserts, Only, Clears
  <2>7. CaseFits(S, u[i], id)
    BY <2>3, <2>4, <2>5, <2>6 DEF CaseFits
  <2>8. QED
    BY <2>7 DEF S
<1>3. CASE i = 3
  <2> DEFINE k == Document(<<u[i]>>)
  <2>1. S = <<assert_status(get(k), {404})>>
    BY <1>3 DEF error_responses
  <2>2. /\ k = Document(<<u[i]>>) /\ ~k.dir
        /\ k # Root /\ k # Container(<<u[i]>>) /\ k # Document(<<u[i], File>>)
    BY DEF Document, Container, Root
  <2> HIDE DEF S, k
  <2>3. /\ Len(S) = 1 /\ S # <<>>
        /\ Asks(S[1], "GET", k, Turtle, {}) /\ Only(S[1], {404})
    BY <2>1 DEF get, assert_status, request, Asks, Asserts, Only
  <2>4. StepFits(S, 1, id)
    BY <1>3, <2>2, <2>3 DEF StepFits, WellFormed, CaseKey, Modest, Undemanding,
        Finds, Asks, Asserts, Only
  <2>5. PlaceFits(S, u[i], id)
    BY <1>3, <2>2, <2>3
    DEF PlaceFits, CaseKey, Wrote, Refused, Keys, Asks, Asserts, Only
  <2>6. CaseFits(S, u[i], id)
    BY <2>3, <2>4, <2>5 DEF CaseFits
  <2>7. QED
    BY <2>6 DEF S
<1>4. CASE i = 4
  <2> DEFINE k == Document(<<u[i], File>>)
  <2>1. S = <<assert_status(put_(k, Plaintext), {201, 404, 409}), cleanup(k)>>
    BY <1>4 DEF error_responses
  <2>2. /\ k = Document(<<u[i], File>>) /\ ~k.dir
        /\ k # Root /\ k # Container(<<u[i]>>)
    BY DEF Document, Container, Root
  <2> HIDE DEF S, k
  <2>3. /\ Len(S) = 2 /\ S # <<>>
        /\ Asks(S[1], "PUT", k, Plaintext, {}) /\ Only(S[1], {201, 404, 409})
        /\ Clears(S[2], k)
    BY <2>1 DEF put_, assert_status, cleanup, delete, request, Asks, Asserts,
        Only, Clears
  <2>4. StepFits(S, 1, id) /\ StepFits(S, 2, id)
    BY <1>4, <2>2, <2>3 DEF StepFits, WellFormed, CaseKey, Modest, Undemanding,
        Finds, Asks, Asserts, Only, Clears
  <2>5. PlaceFits(S, u[i], id)
    BY <1>4, <2>2, <2>3
    DEF PlaceFits, CaseKey, Wrote, Refused, Keys, Asks, Asserts, Only, Clears
  <2>6. CaseFits(S, u[i], id)
    BY <2>3, <2>4, <2>5 DEF CaseFits
  <2>7. QED
    BY <2>6 DEF S
<1>5. QED
  BY <1>1, <1>2, <1>3, <1>4

LEMMA WacFits ==
  ASSUME NEW u, NEW i \in 1..3
  PROVE  CaseFits(wac(u)[i], u[i], <<"wac", i>>)
<1> DEFINE S == wac(u)[i]
           id == <<"wac", i>>
<1>1. CASE i = 1
  <2> DEFINE k == Document(<<u[i]>>)
  <2>1. S = <<put_(k, Plaintext), assert_status(get(k), {200}), cleanup(k)>>
    BY <1>1 DEF wac
  <2>2. /\ k = Document(<<u[i]>>) /\ ~k.dir
        /\ k # Root /\ k # Container(<<u[i]>>) /\ k # Document(<<u[i], File>>)
    BY DEF Document, Container, Root
  <2> HIDE DEF S, k
  <2>3. /\ Len(S) = 3 /\ S # <<>>
        /\ Asks(S[1], "PUT", k, Plaintext, {}) /\ Only(S[1], AnyStatus)
        /\ Asks(S[2], "GET", k, Turtle, {}) /\ Only(S[2], {200})
        /\ Clears(S[3], k)
    BY <2>1 DEF put_, get, assert_status, cleanup, delete, request, Asks,
        Asserts, Only, Clears
  <2>4. StepFits(S, 1, id) /\ StepFits(S, 2, id)
    BY <1>1, <2>2, <2>3 DEF StepFits, WellFormed, CaseKey, Modest, Undemanding,
        Finds, Asks, Asserts, Only, Clears, AnyStatus, accept_satisfied
  <2>5. StepFits(S, 3, id)
    BY <1>1, <2>2, <2>3 DEF StepFits, WellFormed, CaseKey, Modest, Undemanding,
        Finds, Asks, Asserts, Only, Clears, AnyStatus, accept_satisfied
  <2>6. PlaceFits(S, u[i], id)
    BY <1>1, <2>2, <2>3
    DEF PlaceFits, CaseKey, Wrote, Refused, Keys, Asks, Asserts, Only, Clears
  <2>7. CaseFits(S, u[i], id)
    BY <2>3, <2>4, <2>5, <2>6 DEF CaseFits
  <2>8. QED
    BY <2>7 DEF S
<1>2. CASE i = 2
  <2> DEFINE k == Document(<<u[i]>>)
  <2>1. S = <<put_(k, Turtle), assert_status(get(k), {401}), cleanup(k)>>
    BY <1>2 DEF wac
  <2>2. /\ k = Document(<<u[i]>>) /\ ~k.dir
        /\ k # Root /\ k # Container(<<u[i]>>) /\ k # Document(<<u[i], File>>)
    BY DEF Document, Container, Root
  <2> HIDE DEF S, k
  <2>3. /\ Len(S) = 3 /\ S # <<>>
        /\ Asks(S[1], "PUT", k, Turtle, {}) /\ Only(S[1], AnyStatus)
        /\ Asks(S[2], "GET", k, Turtle, {}) /\ Only(S[2], {401})
        /\ Clears(S[3], k)
    BY <2>1 DEF put_, get, assert_status, cleanup, delete, request, Asks,
        Asserts, Only, Clears
  <2>4. StepFits(S, 1, id) /\ StepFits(S, 2, id)
    BY <1>2, <2>2, <2>3 DEF StepFits, WellFormed, CaseKey, Modest, Undemanding,
        Finds, Asks, Asserts, Only, Clears, Refused, AnyStatus, accept_satisfied
  <2>5. StepFits(S, 3, id)
    BY <1>2, <2>2, <2>3 DEF StepFits, WellFormed, CaseKey, Modest, Undemanding,
        Finds, Asks, Asserts, Only, Clears, Refused, AnyStatus, accept_satisfied
  <2>6. PlaceFits(S, u[i], id)
    BY <1>2, <2>2, <2>3
    DEF PlaceFits, CaseKey, Wrote, Refused, Keys, Asks, Asserts, Only, Clears
  <2>7. CaseFits(S, u[i], id)
    BY <2>3, <2>4, <2>5, <2>6 DEF CaseFits
  <2>8. QED
    BY <2>7 DEF S
<1>3. CASE i = 3
  <2> DEFINE k == Document(<<u[i]>>)
  <2>1. S = <<put_(k, Turtle), assert_header(get(k), "wac-allow"), cleanup(k)>>
    BY <1>3 DEF wac
  <2>2. /\ k = Document(<<u[i]>>) /\ ~k.dir
        /\ k # Root /\ k # Container(<<u[i]>>) /\ k # Document(<<u[i], File>>)
    BY DEF Document, Container, Root
  <2> HIDE DEF S, k
  <2>3. /\ Len(S) = 3 /\ S # <<>>
        /\ Asks(S[1], "PUT", k, Turtle, {}) /\ Only(S[1], AnyStatus)
        /\ Asks(S[2], "GET", k, Turtle, {})
        /\ Asserts(S[2], AnyStatus, None, None, FALSE, {"wac-allow"})
        /\ Clears(S[3], k)
    BY <2>1 DEF put_, get, assert_header, cleanup, delete, request, Asks,
        Asserts, Only, Clears
  <2>4. StepFits(S, 1, id) /\ StepFits(S, 2, id)
    BY <1>3, <2>2, <2>3 DEF StepFits, WellFormed, CaseKey, Modest, Undemanding,
        Finds, Asks, Asserts, Only, Clears, Refused, AnyStatus, accept_satisfied
  <2>5. StepFits(S, 3, id)
    BY <1>3, <2>2, <2>3 DEF StepFits, WellFormed, CaseKey, Modest, Undemanding,
        Finds, Asks, Asserts, Only, Clears, Refused, AnyStatus, accept_satisfied
  <2>6. PlaceFits(S, u[i], id)
    BY <1>3, <2>2, <2>3
    DEF PlaceFits, CaseKey, Wrote, Refused, Keys, Asks, Asserts, Only, Clears
  <2>7. CaseFits(S, u[i], id)
    BY <2>3, <2>4, <2>5, <2>6 DEF CaseFits
  <2>8. QED
    BY <2>7 DEF S
<1>4. QED
  BY <1>1, <1>2, <1>3

-----------------------------------------------------------------------------
(*                      What the runners run                               *)

SuiteSet == {SuiteNames[n] : n \in 1..Len(SuiteNames)}

LEMMA NamesOfSuites ==
  /\ SuiteSet = {"health", "resource-crud", "containers", "content-negotiation",
                 "error-responses", "wac"}
  /\ Len(SuiteNames) = 6
BY DEF SuiteSet, SuiteNames

\* Every registered case is one of those above, under its UUID.
LEMMA SuitesFit ==
  ASSUME NEW c, NEW name \in SuiteSet
  PROVE  /\ Len(Suite(c, name)) \in 1..MaxCases
         /\ \A i \in 1..Len(Suite(c, name)) :
              CaseFits(Suite(c, name)[i], <<c, name, i>>, <<name, i>>)
<1> DEFINE u == Uuids(c, name)
<1>1. \A i \in 1..7 : u[i] = <<c, name, i>>
  BY DEF Uuids, MaxCases
<1> HIDE DEF u
<1>2. /\ Len(health(u)) = 3 /\ Len(resource_crud(u)) = 7 /\ Len(containers(u)) = 5
      /\ Len(content_negotiation(u)) = 4 /\ Len(error_responses(u)) = 4
      /\ Len(wac(u)) = 3
  BY DEF health, resource_crud, containers, content_negotiation, error_responses, wac
<1>3. CASE name = "health"
  <2>1. Suite(c, name) = health(u)
    BY <1>3 DEF Suite, u
  <2>2. \A i \in 1..3 : CaseFits(health(u)[i], u[i], <<"health", i>>)
    BY HealthFits
  <2>3. Len(Suite(c, name)) = 3
    BY <1>2, <2>1
  <2>4. ASSUME NEW i \in 1..3
        PROVE  CaseFits(Suite(c, name)[i], <<c, name, i>>, <<name, i>>)
    <3>1. CaseFits(health(u)[i], u[i], <<"health", i>>)
      BY <2>2
    <3>2. u[i] = <<c, name, i>>
      BY <1>1
    <3>3. QED
      BY <1>3, <2>1, <3>1, <3>2
  <2>5. QED
    BY <2>3, <2>4 DEF MaxCases
<1>4. CASE name = "resource-crud"
  <2>1. Suite(c, name) = resource_crud(u)
    BY <1>4 DEF Suite, u
  <2>2. \A i \in 1..7 : CaseFits(resource_crud(u)[i], u[i], <<"resource-crud", i>>)
    BY CrudFits
  <2>3. Len(Suite(c, name)) = 7
    BY <1>2, <2>1
  <2>4. ASSUME NEW i \in 1..7
        PROVE  CaseFits(Suite(c, name)[i], <<c, name, i>>, <<name, i>>)
    <3>1. CaseFits(resource_crud(u)[i], u[i], <<"resource-crud", i>>)
      BY <2>2
    <3>2. u[i] = <<c, name, i>>
      BY <1>1
    <3>3. QED
      BY <1>4, <2>1, <3>1, <3>2
  <2>5. QED
    BY <2>3, <2>4 DEF MaxCases
<1>5. CASE name = "containers"
  <2>1. Suite(c, name) = containers(u)
    BY <1>5 DEF Suite, u
  <2>2. \A i \in 1..5 : CaseFits(containers(u)[i], u[i], <<"containers", i>>)
    BY ContainersFit
  <2>3. Len(Suite(c, name)) = 5
    BY <1>2, <2>1
  <2>4. ASSUME NEW i \in 1..5
        PROVE  CaseFits(Suite(c, name)[i], <<c, name, i>>, <<name, i>>)
    <3>1. CaseFits(containers(u)[i], u[i], <<"containers", i>>)
      BY <2>2
    <3>2. u[i] = <<c, name, i>>
      BY <1>1
    <3>3. QED
      BY <1>5, <2>1, <3>1, <3>2
  <2>5. QED
    BY <2>3, <2>4 DEF MaxCases
<1>6. CASE name = "content-negotiation"
  <2>1. Suite(c, name) = content_negotiation(u)
    BY <1>6 DEF Suite, u
  <2>2. \A i \in 1..4 : CaseFits(content_negotiation(u)[i], u[i], <<"content-negotiation", i>>)
    BY NegotiationFits
  <2>3. Len(Suite(c, name)) = 4
    BY <1>2, <2>1
  <2>4. ASSUME NEW i \in 1..4
        PROVE  CaseFits(Suite(c, name)[i], <<c, name, i>>, <<name, i>>)
    <3>1. CaseFits(content_negotiation(u)[i], u[i], <<"content-negotiation", i>>)
      BY <2>2
    <3>2. u[i] = <<c, name, i>>
      BY <1>1
    <3>3. QED
      BY <1>6, <2>1, <3>1, <3>2
  <2>5. QED
    BY <2>3, <2>4 DEF MaxCases
<1>7. CASE name = "error-responses"
  <2>1. Suite(c, name) = error_responses(u)
    BY <1>7 DEF Suite, u
  <2>2. \A i \in 1..4 : CaseFits(error_responses(u)[i], u[i], <<"error-responses", i>>)
    BY ErrorsFit
  <2>3. Len(Suite(c, name)) = 4
    BY <1>2, <2>1
  <2>4. ASSUME NEW i \in 1..4
        PROVE  CaseFits(Suite(c, name)[i], <<c, name, i>>, <<name, i>>)
    <3>1. CaseFits(error_responses(u)[i], u[i], <<"error-responses", i>>)
      BY <2>2
    <3>2. u[i] = <<c, name, i>>
      BY <1>1
    <3>3. QED
      BY <1>7, <2>1, <3>1, <3>2
  <2>5. QED
    BY <2>3, <2>4 DEF MaxCases
<1>8. CASE name = "wac"
  <2>1. Suite(c, name) = wac(u)
    BY <1>8 DEF Suite, u
  <2>2. \A i \in 1..3 : CaseFits(wac(u)[i], u[i], <<"wac", i>>)
    BY WacFits
  <2>3. Len(Suite(c, name)) = 3
    BY <1>2, <2>1
  <2>4. ASSUME NEW i \in 1..3
        PROVE  CaseFits(Suite(c, name)[i], <<c, name, i>>, <<name, i>>)
    <3>1. CaseFits(wac(u)[i], u[i], <<"wac", i>>)
      BY <2>2
    <3>2. u[i] = <<c, name, i>>
      BY <1>1
    <3>3. QED
      BY <1>8, <2>1, <3>1, <3>2
  <2>5. QED
    BY <2>3, <2>4 DEF MaxCases
<1>9. QED
  BY <1>3, <1>4, <1>5, <1>6, <1>7, <1>8, NamesOfSuites

\* e is a case of runner c, of one of the suites in N.
IsCase(e, c, N) ==
  /\ e.id[1] \in N
  /\ e.id[2] \in 1..Len(Suite(c, e.id[1]))
  /\ e.id = <<e.id[1], e.id[2]>>
  /\ e.steps = Suite(c, e.id[1])[e.id[2]]

\* C holds distinct cases of runner c, of the suites in N, at most l.
CaseOf(c) == {[id |-> <<name, i>>, steps |-> Suite(c, name)[i]] :
                name \in SuiteSet, i \in 1..MaxCases}
Holds(C, c, N, l) ==
  /\ C \in Seq(CaseOf(c)) /\ Len(C) \in 0..l
  /\ \A n \in 1..Len(C) : IsCase(C[n], c, N)
  /\ \A m, n \in 1..Len(C) : C[m].id = C[n].id => m = n

LEMMA Joined ==
  ASSUME NEW c, NEW N, NEW M, N \cap M = {}, NEW l \in Nat, NEW m \in Nat,
         NEW C, NEW D, Holds(C, c, N, l), Holds(D, c, M, m)
  PROVE  Holds(C \o D, c, N \cup M, l + m)
<1>1. C \in Seq(CaseOf(c)) /\ D \in Seq(CaseOf(c))
  BY DEF Holds
<1>2. PICK x \in Nat, y \in Nat : x = Len(C) /\ y = Len(D)
  BY <1>1
<1>3. x <= l /\ y <= m
  BY <1>2 DEF Holds
<1> DEFINE E == C \o D
<1>4. /\ E \in Seq(CaseOf(c)) /\ Len(E) = x + y
      /\ \A n \in 1..x : E[n] = C[n]
      /\ \A n \in x + 1..x + y : E[n] = D[n - x]
  BY <1>1, <1>2
<1> HIDE DEF E
<1>5. ASSUME NEW n \in 1..x + y
      PROVE  \/ n \in 1..x /\ E[n] = C[n]
             \/ n - x \in 1..y /\ E[n] = D[n - x]
  <2>1. CASE n <= x
    BY <1>4, <2>1
  <2>2. CASE n > x
    BY <1>4, <2>2
  <2>3. QED
    BY <2>1, <2>2
<1>6. /\ \A n \in 1..x : IsCase(C[n], c, N)
      /\ \A n \in 1..y : IsCase(D[n], c, M)
      /\ \A p, n \in 1..x : C[p].id = C[n].id => p = n
      /\ \A p, n \in 1..y : D[p].id = D[n].id => p = n
  BY <1>2 DEF Holds
<1>7. ASSUME NEW n \in 1..x + y
      PROVE  IsCase(E[n], c, N \cup M)
  <2>1. CASE n \in 1..x /\ E[n] = C[n]
    BY <1>6, <2>1 DEF IsCase
  <2>2. CASE n - x \in 1..y /\ E[n] = D[n - x]
    BY <1>6, <2>2 DEF IsCase
  <2>3. QED
    BY <1>5, <2>1, <2>2
<1>8. \A p \in 1..x, n \in 1..y : C[p].id # D[n].id
  BY <1>6 DEF IsCase
<1>9. ASSUME NEW p \in 1..x + y, NEW n \in 1..x + y, E[p].id = E[n].id
      PROVE  p = n
  <2>1. CASE p \in 1..x /\ E[p] = C[p] /\ n \in 1..x /\ E[n] = C[n]
    BY <1>6, <1>9, <2>1
  <2>2. CASE /\ p - x \in 1..y /\ E[p] = D[p - x]
             /\ n - x \in 1..y /\ E[n] = D[n - x]
    <3>1. p - x = n - x
      BY <1>6, <1>9, <2>2
    <3>2. QED
      BY <3>1
  <2>3. QED
    BY <1>5, <1>8, <1>9, <2>1, <2>2
<1>10. Len(E) \in 0..l + m /\ 1..Len(E) = 1..x + y
  BY <1>3, <1>4
<1>11. Holds(E, c, N \cup M, l + m)
  BY <1>4, <1>7, <1>9, <1>10 DEF Holds
<1>12. QED
  BY <1>11 DEF E

\* The suites one after the other, as the filter joins them.
LEMMA FilteredHolds ==
  ASSUME NEW c, NEW names
  PROVE  Holds(Filtered(c, names), c, SuiteSet, 42)
<1> DEFINE Chosen(name) ==
             IF name \notin names THEN <<>>
             ELSE [i \in 1..Len(Suite(c, name)) |->
                     [id |-> <<name, i>>, steps |-> Suite(c, name)[i]]]
           Nth(n) == Chosen(SuiteNames[n])
<1>1. Filtered(c, names) =
        Nth(1) \o Nth(2) \o Nth(3) \o Nth(4) \o Nth(5) \o Nth(6)
  BY DEF Filtered
<1>2. ASSUME NEW name \in SuiteSet
      PROVE  Holds(Chosen(name), c, {name}, 7)
  <2>1. Len(Suite(c, name)) \in 1..MaxCases
    BY SuitesFit
  <2>2. PICK k \in 1..MaxCases : k = Len(Suite(c, name))
    BY <2>1
  <2> DEFINE row(i) == [id |-> <<name, i>>, steps |-> Suite(c, name)[i]]
             s == [i \in 1..k |-> row(i)]
  <2>3. ASSUME NEW i \in 1..k PROVE row(i) \in CaseOf(c)
    <3>1. i \in 1..MaxCases
      BY DEF MaxCases
    <3>2. QED
      BY <3>1 DEF CaseOf
  <2>4. s \in Seq(CaseOf(c)) /\ Len(s) = k
    BY <2>3 DEF MaxCases
  <2>5. \A i \in 1..k : s[i].id = <<name, i>> /\ s[i].steps = Suite(c, name)[i]
    OBVIOUS
  <2>6. Holds(s, c, {name}, 7)
    <3> HIDE DEF s
    <3>1. Len(s) \in 0..7
      BY <2>4 DEF MaxCases
    <3>2. ASSUME NEW i \in 1..k PROVE IsCase(s[i], c, {name})
      <4>1. s[i].id = <<name, i>> /\ s[i].steps = Suite(c, name)[i]
        BY <2>5
      <4>2. s[i].id[1] = name /\ s[i].id[2] = i
        BY <4>1
      <4>3. i \in 1..Len(Suite(c, name))
        BY <2>2
      <4>4. QED
        BY <4>1, <4>2, <4>3 DEF IsCase
    <3>3. \A m, n \in 1..k : s[m].id = s[n].id => m = n
      BY <2>5
    <3>4. QED
      BY <2>4, <3>1, <3>2, <3>3 DEF Holds
  <2>7. Holds(<<>>, c, {name}, 7)
    BY DEF Holds
  <2>8. Chosen(name) = <<>> \/ Chosen(name) = s
    BY <2>2
  <2>9. QED
    BY <2>6, <2>7, <2>8
<1> HIDE DEF Chosen
<1>3. /\ Nth(1) = Chosen("health") /\ Nth(2) = Chosen("resource-crud")
      /\ Nth(3) = Chosen("containers") /\ Nth(4) = Chosen("content-negotiation")
      /\ Nth(5) = Chosen("error-responses") /\ Nth(6) = Chosen("wac")
  BY DEF SuiteNames
<1> HIDE DEF Nth
<1>4. /\ Holds(Nth(1), c, {"health"}, 7) /\ Holds(Nth(2), c, {"resource-crud"}, 7)
      /\ Holds(Nth(3), c, {"containers"}, 7)
      /\ Holds(Nth(4), c, {"content-negotiation"}, 7)
      /\ Holds(Nth(5), c, {"error-responses"}, 7) /\ Holds(Nth(6), c, {"wac"}, 7)
  BY <1>2, <1>3, NamesOfSuites
<1> DEFINE A == {"health", "resource-crud"}
           B == A \cup {"containers"}
           C == B \cup {"content-negotiation"}
           D == C \cup {"error-responses"}
<1>5. Holds(Nth(1) \o Nth(2), c, {"health"} \cup {"resource-crud"}, 7 + 7)
  BY <1>4, Joined
<1>6. Holds(Nth(1) \o Nth(2), c, A, 14)
  <2>1. {"health"} \cup {"resource-crud"} = A /\ 7 + 7 = 14
    OBVIOUS
  <2>2. QED
    BY <1>5, <2>1
<1>7. Holds(Nth(1) \o Nth(2) \o Nth(3), c, B, 21)
  <2>1. A \cap {"containers"} = {} /\ 14 + 7 = 21
    OBVIOUS
  <2>2. Holds(Nth(1) \o Nth(2) \o Nth(3), c, A \cup {"containers"}, 14 + 7)
    BY <1>4, <1>6, <2>1, Joined
  <2>3. QED
    BY <2>1, <2>2
<1>8. Holds(Nth(1) \o Nth(2) \o Nth(3) \o Nth(4), c, C, 28)
  <2>1. B \cap {"content-negotiation"} = {} /\ 21 + 7 = 28
    OBVIOUS
  <2>2. Holds(Nth(1) \o Nth(2) \o Nth(3) \o Nth(4), c,
              B \cup {"content-negotiation"}, 21 + 7)
    BY <1>4, <1>7, <2>1, Joined
  <2>3. QED
    BY <2>1, <2>2
<1>9. Holds(Nth(1) \o Nth(2) \o Nth(3) \o Nth(4) \o Nth(5), c, D, 35)
  <2>1. C \cap {"error-responses"} = {} /\ 28 + 7 = 35
    OBVIOUS
  <2>2. Holds(Nth(1) \o Nth(2) \o Nth(3) \o Nth(4) \o Nth(5), c,
              C \cup {"error-responses"}, 28 + 7)
    BY <1>4, <1>8, <2>1, Joined
  <2>3. QED
    BY <2>1, <2>2
<1>10. Holds(Nth(1) \o Nth(2) \o Nth(3) \o Nth(4) \o Nth(5) \o Nth(6), c,
             D \cup {"wac"}, 35 + 7)
  <2>1. D \cap {"wac"} = {}
    OBVIOUS
  <2> HIDE DEF D
  <2>2. QED
    BY <1>4, <1>9, <2>1, Joined
<1>11. D \cup {"wac"} = SuiteSet /\ 35 + 7 = 42
  BY NamesOfSuites
<1>12. QED
  BY <1>1, <1>10, <1>11

-----------------------------------------------------------------------------
(*                      The n-th case of a runner                          *)

Id(c, n) == Cases(c)[n].id
Steps(c, n) == Cases(c)[n].steps
Uuid(c, n) == <<c, Id(c, n)[1], Id(c, n)[2]>>

\* Everything there is to know of the cases of a runner.
CasesKnown(c) ==
  /\ Len(Cases(c)) \in 0..42
  /\ \A n \in 1..Len(Cases(c)) :
       /\ CaseFits(Steps(c, n), Uuid(c, n), Id(c, n))
       /\ Id(c, n) \in CaseIds /\ Id(c, n) = <<Id(c, n)[1], Id(c, n)[2]>>
       /\ Id(c, n)[1] \in SuiteSet /\ Id(c, n)[2] \in 1..MaxCases
  /\ \A m, n \in 1..Len(Cases(c)) : Id(c, m) = Id(c, n) => m = n

LEMMA CasesAreKnown ==
  ASSUME NEW c \in Runners, selected \in [Runners -> Selections]
  PROVE  CasesKnown(c)
<1>1. PICK names \in Selections : names = selected[c]
  OBVIOUS
<1>2. PICK C : C = Filtered(c, names)
  OBVIOUS
<1>3. Cases(c) = C
  BY <1>1, <1>2 DEF Cases, Plan
<1>4. Holds(C, c, SuiteSet, 42)
  BY <1>2, FilteredHolds
<1>5. Len(C) \in 0..42
  BY <1>4 DEF Holds
<1>6. ASSUME NEW n \in 1..Len(C)
      PROVE  LET id == C[n].id IN
             /\ CaseFits(C[n].steps, <<c, id[1], id[2]>>, id)
             /\ id \in CaseIds /\ id = <<id[1], id[2]>>
             /\ id[1] \in SuiteSet /\ id[2] \in 1..MaxCases
  <2> DEFINE id == C[n].id
  <2>1. IsCase(C[n], c, SuiteSet)
    BY <1>4 DEF Holds
  <2>2. PICK name \in SuiteSet : name = id[1]
    BY <2>1 DEF IsCase
  <2>3. PICK i : i = id[2]
    OBVIOUS
  <2>4. /\ i \in 1..Len(Suite(c, name)) /\ id = <<name, i>>
        /\ C[n].steps = Suite(c, name)[i]
    BY <2>1, <2>2, <2>3 DEF IsCase
  <2>5. /\ Len(Suite(c, name)) \in 1..MaxCases
        /\ CaseFits(Suite(c, name)[i], <<c, name, i>>, <<name, i>>)
    BY <2>4, SuitesFit
  <2>6. i \in 1..MaxCases
    BY <2>4, <2>5 DEF MaxCases
  <2>7. <<name, i>> \in CaseIds
    BY <2>2, <2>6 DEF CaseIds, SuiteSet
  <2>8. QED
    BY <2>2, <2>3, <2>4, <2>5, <2>6, <2>7
<1>7. \A m, n \in 1..Len(C) : C[m].id = C[n].id => m = n
  BY <1>4 DEF Holds
<1>8. QED
  BY <1>3, <1>5, <1>6, <1>7 DEF CasesKnown, Id, Steps, Uuid

\* What a step sends is a request of the server, at one of the case's keys.
LEMMA KeysAreKeys ==
  ASSUME NEW c \in Runners, NEW name \in SuiteSet, NEW i \in 1..MaxCases
  PROVE  LET u == <<c, name, i>> IN
         /\ {Root} \cup Keys(u) \subseteq Key
         /\ u \in Names /\ File \in Names
<1> DEFINE u == <<c, name, i>>
<1>1. PICK n \in 1..Len(SuiteNames) : name = SuiteNames[n]
  BY DEF SuiteSet
<1>2. u \in Names /\ File \in Names
  BY <1>1, SuitesAssumption
<1> HIDE DEF u
<1>3. /\ <<u>> \in Seq(Names) /\ <<u>> # <<>>
      /\ <<u, File>> \in Seq(Names) /\ <<u, File>> # <<>>
  BY <1>2
<1>4. <<>> \in Seq(Names)
  OBVIOUS
<1>5. {Root} \cup Keys(u) \subseteq Key
  BY <1>3, <1>4 DEF Keys, Key, Root, Container, Document
<1>6. QED
  BY <1>2, <1>5 DEF u

LEMMA LinesAreRequests ==
  ASSUME NEW c \in Runners, selected \in [Runners -> Selections],
         NEW n \in 1..Len(Cases(c)), NEW j \in 1..Len(Steps(c, n))
  PROVE  /\ Steps(c, n)[j].key \in {Root} \cup Keys(Uuid(c, n))
         /\ Steps(c, n)[j].key \in Key
         /\ Line(Steps(c, n)[j]) \in Request
<1> DEFINE s == Steps(c, n)[j]
<1>1. CasesKnown(c)
  BY CasesAreKnown
<1>2. /\ CaseFits(Steps(c, n), Uuid(c, n), Id(c, n))
      /\ Id(c, n)[1] \in SuiteSet /\ Id(c, n)[2] \in 1..MaxCases
  BY <1>1 DEF CasesKnown
<1>3. StepFits(Steps(c, n), j, Id(c, n)) /\ PlaceFits(Steps(c, n), Uuid(c, n), Id(c, n))
  BY <1>2 DEF CaseFits
<1>4. WellFormed(s) /\ s.key \in {Root} \cup Keys(Uuid(c, n))
  BY <1>3 DEF StepFits, PlaceFits
<1>5. s.key \in Key
  <2>1. PICK name \in SuiteSet, i \in 1..MaxCases :
          name = Id(c, n)[1] /\ i = Id(c, n)[2]
    BY <1>2
  <2>2. {Root} \cup Keys(<<c, name, i>>) \subseteq Key
    BY KeysAreKeys
  <2>3. QED
    BY <1>4, <2>1, <2>2 DEF Uuid
<1> HIDE DEF s
<1>6. /\ s.method \in Methods /\ s.ctype \in ContentTypes /\ s.accept \in Accepts
  BY <1>4, SuitesAssumption DEF WellFormed
<1>7. (CHOOSE a \in Agents : TRUE) \in Agents /\ "verbatim" \in Spellings
  BY SuitesAssumption
<1>8. Line(s) \in Request
  BY <1>5, <1>6, <1>7 DEF Line, Request
<1>9. QED
  BY <1>4, <1>5, <1>8 DEF s

-----------------------------------------------------------------------------
(*                                Types                                    *)

\* A runner waits only in a case of its own, for a request it has sent.
Underway(c) ==
  /\ at[c].case \in 1..Len(Cases(c)) + 1
  /\ ~Finished(c) => at[c].step \in 1..Len(Case(c).steps)
  /\ waiting[c] => ~Finished(c) /\ Current(c) \in Requests

SuitesTypeInv ==
  /\ SuitesTypeOK /\ Phases
  /\ \A c \in Runners : Underway(c)

\* A step of the server leaves the runners alone.
ServerStep(r) ==
  /\ pc[r] \notin {"new", "done", "lost"} /\ (Connection(r) \/ Serve(r))
  /\ UNCHANGED runner

LEMMA SuitesSteps ==
  ASSUME [SuitesNext]_allVars
  PROVE  \/ \E c \in Runners : Send(c) \/ Proceed(c) \/ TimeOut(c)
         \/ \E r \in Requests : ServerStep(r)
         \/ UNCHANGED allVars
BY DEF SuitesNext, ServerStep

LEMMA ServerSteps ==
  ASSUME TypeInv, NEW r \in Requests, ServerStep(r)
  PROVE  /\ TypeInv'
         /\ Client(r) \/ Serve(r)
         /\ UNCHANGED <<selected, at, waiting, sent, failed, slow>>
<1>1. Client(r) \/ Serve(r)
  BY DEF ServerStep, Connection, Client
<1>2. Next
  BY <1>1 DEF Next
<1>3. QED
  BY <1>1, <1>2, TypeStep DEF ServerStep, runner

\* What Advance does to the position of a runner.
LEMMA AdvanceMoves ==
  ASSUME SuitesTypeInv, NEW c \in Runners, NEW ok, Advance(c, ok), ~Finished(c),
         UNCHANGED <<selected, sent>>
  PROVE  /\ at' \in [Runners -> [case: Nat \ {0}, step: 1..4]]
         /\ waiting' = [waiting EXCEPT ![c] = FALSE]
         /\ failed' \in [Runners -> SUBSET CaseIds]
         /\ \A d \in Runners : Underway(d)'
<1>1. sent' = sent /\ selected' = selected
  OBVIOUS
<1>2. /\ at \in [Runners -> [case: Nat \ {0}, step: 1..4]]
      /\ failed \in [Runners -> SUBSET CaseIds] /\ waiting \in [Runners -> BOOLEAN]
      /\ selected \in [Runners -> Selections] /\ sent \in [Runners -> Nat]
  BY DEF SuitesTypeInv, SuitesTypeOK
<1>3. CasesKnown(c)
  BY <1>2, CasesAreKnown
<1>4. PICK l \in 0..42 : l = Len(Cases(c))
  BY <1>3 DEF CasesKnown
<1>5. PICK n \in 1..l, j \in 1..4 : n = at[c].case /\ j = at[c].step
  BY <1>2, <1>4 DEF SuitesTypeInv, Underway, Finished
<1>6. /\ CaseFits(Steps(c, n), Uuid(c, n), Id(c, n)) /\ Id(c, n) \in CaseIds
      /\ Case(c).steps = Steps(c, n) /\ Case(c).id = Id(c, n)
  BY <1>3, <1>4, <1>5 DEF CasesKnown, Case, Steps, Id
<1>7. PICK k \in 1..4 : k = Len(Steps(c, n))
  BY <1>6 DEF CaseFits
<1>8. PICK m \in Nat \ {0}, i \in 1..4 :
        /\ at' = [at EXCEPT ![c] = [case |-> m, step |-> i]]
        /\ (m = n /\ i <= k) \/ (m = n + 1 /\ i = 1)
  <2>1. Len(Case(c).steps) = k
    BY <1>6, <1>7
  <2>2. at' = [at EXCEPT ![c] =
                 IF ok /\ j < k THEN [case |-> n, step |-> j + 1]
                                ELSE [case |-> n + 1, step |-> 1]]
    <3>1. at' = [at EXCEPT ![c] =
                   IF ok /\ at[c].step < Len(Case(c).steps)
                   THEN [case |-> at[c].case, step |-> at[c].step + 1]
                   ELSE [case |-> at[c].case + 1, step |-> 1]]
      BY DEF Advance
    <3>2. QED
      BY <3>1, <2>1, <1>5
  <2>4. /\ n \in Nat \ {0} /\ n + 1 \in Nat \ {0} /\ 1 \in 1..4
        /\ j < k => j + 1 \in 1..4 /\ j + 1 <= k
    OBVIOUS
  <2>5. CASE ok /\ j < k
    BY <2>2, <2>4, <2>5
  <2>6. CASE ~(ok /\ j < k)
    BY <2>2, <2>4, <2>6
  <2>7. QED
    BY <2>5, <2>6
<1>9. at' \in [Runners -> [case: Nat \ {0}, step: 1..4]]
  BY <1>2, <1>8
<1>10. waiting' = [waiting EXCEPT ![c] = FALSE]
  BY DEF Advance
<1>11. failed' \in [Runners -> SUBSET CaseIds]
  <2>1. failed' = [failed EXCEPT ![c] = IF ok THEN @ ELSE @ \cup {Id(c, n)}]
    BY <1>6 DEF Advance
  <2>2. QED
    BY <1>2, <1>6, <2>1
<1>12. ASSUME NEW d \in Runners PROVE Underway(d)'
  <2>1. Cases(d)' = Cases(d)
    BY DEF Cases
  <2>2. CASE d # c
    <3>1. at'[d] = at[d] /\ waiting'[d] = waiting[d]
      BY <2>2, <1>2, <1>8, <1>10
    <3>2. Underway(d)
      BY DEF SuitesTypeInv
    <3>3. Current(d)' = Current(d)
      BY <1>1 DEF Current
    <3>4. QED
      BY <2>1, <3>1, <3>2, <3>3 DEF Underway, Finished, Case
  <2>3. CASE d = c
    <3>1. at'[c] = [case |-> m, step |-> i] /\ ~waiting'[c]
      BY <1>2, <1>8, <1>10
    <3>2. m \in 1..l + 1 /\ ((m = n /\ i <= k) \/ i = 1)
      BY <1>8
    <3>3. m <= l => i \in 1..Len(Steps(c, m))
      <4>1. ASSUME m <= l
            PROVE  Len(Steps(c, m)) \in 1..4
        BY <4>1, <1>3, <1>4, <3>2 DEF CasesKnown, CaseFits
      <4>2. ASSUME m <= l
            PROVE  i \in 1..Len(Steps(c, m))
        <5>1. PICK q \in 1..4 : q = Len(Steps(c, m))
          BY <4>1, <4>2
        <5>2. m = n => q = k
          BY <5>1, <1>7
        <5>3. i \in 1..q
          BY <3>2, <5>2
        <5>4. QED
          BY <5>1, <5>3
      <4>3. QED
        BY <4>2
    <3>4. at'[c].case = m /\ at'[c].step = i
      BY <3>1
    <3>5. Cases(c)' = Cases(c) /\ Len(Cases(c)) = l
      BY <2>1, <2>3, <1>4
    <3>6. m <= l => i \in 1..Len(Cases(c)[m].steps)
      BY <3>3 DEF Steps
    <3>7. Underway(c)'
      <4> HIDE DEF Cases
      <4>1. QED
        BY <3>1, <3>2, <3>4, <3>5, <3>6 DEF Underway, Finished, Case
    <3>8. QED
      BY <2>3, <3>7
  <2>4. QED
    BY <2>2, <2>3
<1>13. QED
  BY <1>9, <1>10, <1>11, <1>12

LEMMA SuitesTypeInit == SuitesInit => SuitesTypeInv
<1> SUFFICES ASSUME SuitesInit PROVE SuitesTypeInv
  OBVIOUS
<1>1. TypeInv
  BY TypeInit DEF SuitesInit
<1>2. SuitesTypeOK
  BY <1>1 DEF SuitesInit, SuitesTypeOK, TypeInv
<1>3. ASSUME NEW c \in Runners PROVE Underway(c)
  <2>1. CasesKnown(c)
    BY CasesAreKnown DEF SuitesInit
  <2>2. PICK l \in 0..42 : l = Len(Cases(c))
    BY <2>1 DEF CasesKnown
  <2>3. 1 <= l => Len(Steps(c, 1)) \in 1..4
    BY <2>1, <2>2 DEF CasesKnown, CaseFits
  <2>4. at[c].case = 1 /\ at[c].step = 1 /\ ~waiting[c]
    BY DEF SuitesInit
  <2>5. 1 <= l => 1 \in 1..Len(Steps(c, 1))
    <3>1. ASSUME 1 <= l PROVE 1 \in 1..Len(Steps(c, 1))
      <4>1. PICK q \in 1..4 : q = Len(Steps(c, 1))
        BY <2>3, <3>1
      <4>2. QED
        BY <4>1
    <3>2. QED
      BY <3>1
  <2>6. 1 \in 1..l + 1
    BY <2>2
  <2> HIDE DEF Cases
  <2>7. QED
    BY <2>2, <2>4, <2>5, <2>6 DEF Underway, Finished, Case, Steps
<1>4. QED
  BY <1>1, <1>2, <1>3 DEF SuitesTypeInv, TypeInv

\* The request a runner sends.
LEMMA SendArrives ==
  ASSUME SuitesTypeInv, NEW c \in Runners, Send(c)
  PROVE  /\ <<c, sent[c] + 1>> \in Requests
         /\ pc[<<c, sent[c] + 1>>] = "new"
         /\ Step(c).key \in Key /\ Line(Step(c)) \in Request
         /\ pc' = [pc EXCEPT ![<<c, sent[c] + 1>>] = "authz"]
         /\ req' = [req EXCEPT ![<<c, sent[c] + 1>>] = Line(Step(c))]
         /\ seen' = [seen EXCEPT ![<<c, sent[c] + 1>>] = {policy}]
         /\ UNCHANGED <<store, target, resp, auto, policy, selected, at, failed,
                        slow>>
         /\ waiting' = [waiting EXCEPT ![c] = TRUE]
         /\ sent' = [sent EXCEPT ![c] = sent[c] + 1]
<1>1. selected \in [Runners -> Selections]
  BY DEF SuitesTypeInv, SuitesTypeOK
<1>2. /\ at[c].case \in 1..Len(Cases(c)) + 1 /\ ~(at[c].case > Len(Cases(c)))
      /\ at[c].step \in 1..Len(Cases(c)[at[c].case].steps)
  BY DEF Send, SuitesTypeInv, Underway, Finished, Case
<1>3. CasesKnown(c)
  BY <1>1, CasesAreKnown
<1>4. PICK l \in 0..42 : l = Len(Cases(c))
  BY <1>3 DEF CasesKnown
<1>5. PICK n \in 1..l : n = at[c].case
  BY <1>2, <1>4
<1>6. PICK j \in 1..Len(Steps(c, n)) : j = at[c].step
  BY <1>2, <1>5 DEF Steps
<1>7. Step(c) = Steps(c, n)[j]
  BY <1>5, <1>6 DEF Step, Steps, Case
<1>8. Step(c).key \in Key /\ Line(Step(c)) \in Request
  BY <1>1, <1>4, <1>7, LinesAreRequests
<1>9. QED
  BY <1>8 DEF Send, Arrive, Goto

LEMMA SuitesTypeStep == SuitesTypeInv /\ [SuitesNext]_allVars => SuitesTypeInv'
<1> SUFFICES ASSUME SuitesTypeInv, [SuitesNext]_allVars PROVE SuitesTypeInv'
  OBVIOUS
<1>1. ASSUME NEW c \in Runners, Send(c) PROVE SuitesTypeInv'
  <2>1. /\ <<c, sent[c] + 1>> \in Requests
        /\ pc[<<c, sent[c] + 1>>] = "new"
        /\ Line(Step(c)) \in Request
        /\ pc' = [pc EXCEPT ![<<c, sent[c] + 1>>] = "authz"]
        /\ req' = [req EXCEPT ![<<c, sent[c] + 1>>] = Line(Step(c))]
        /\ seen' = [seen EXCEPT ![<<c, sent[c] + 1>>] = {policy}]
        /\ UNCHANGED <<store, target, resp, auto, policy, selected, at, failed,
                       slow>>
        /\ waiting' = [waiting EXCEPT ![c] = TRUE]
        /\ sent' = [sent EXCEPT ![c] = sent[c] + 1]
    BY <1>1, SendArrives
  <2>2. PICK q \in Request : q = Line(Step(c))
    BY <2>1
  <2>3. TypeOK' /\ Phases'
    BY <2>1, <2>2 DEF SuitesTypeInv, SuitesTypeOK, TypeOK, Phases
  <2>4. SuitesTypeOK'
    BY <2>1, <2>3 DEF SuitesTypeInv, SuitesTypeOK
  <2>5. ASSUME NEW d \in Runners PROVE Underway(d)'
    <3>1. Underway(d) /\ Cases(d)' = Cases(d) /\ at'[d] = at[d]
      BY <2>1 DEF SuitesTypeInv, Cases
    <3>2. d # c => waiting'[d] = waiting[d] /\ sent'[d] = sent[d]
      BY <2>1 DEF SuitesTypeInv, SuitesTypeOK
    <3>3. sent'[c] = sent[c] + 1
      BY <2>1 DEF SuitesTypeInv, SuitesTypeOK
    <3>4. ~Finished(c)
      BY <1>1 DEF Send
    <3>5. QED
      BY <2>1, <3>1, <3>2, <3>3, <3>4 DEF Underway, Finished, Case, Current
  <2>6. QED
    BY <2>3, <2>4, <2>5 DEF SuitesTypeInv
<1>2. ASSUME NEW c \in Runners, Proceed(c) \/ TimeOut(c) PROVE SuitesTypeInv'
  <2>1. /\ waiting[c] /\ UNCHANGED <<vars, selected, sent>>
        /\ \/ Advance(c, Step(c).cleanup \/ Satisfied(c)) /\ UNCHANGED slow
           \/ /\ Advance(c, Step(c).cleanup)
              /\ slow' = [slow EXCEPT ![c] =
                            @ \cup {<<Case(c).id, Step(c).cleanup>>}]
    BY <1>2 DEF Proceed, TimeOut
  <2>2. ~Finished(c)
    BY <2>1 DEF SuitesTypeInv, Underway
  <2>3. PICK ok : Advance(c, ok)
    BY <2>1
  <2>4. /\ at' \in [Runners -> [case: Nat \ {0}, step: 1..4]]
        /\ waiting' = [waiting EXCEPT ![c] = FALSE]
        /\ failed' \in [Runners -> SUBSET CaseIds]
        /\ \A d \in Runners : Underway(d)'
    BY <2>1, <2>2, <2>3, AdvanceMoves
  <2>5. <<Case(c).id, Step(c).cleanup>> \in CaseIds \X BOOLEAN
    <3>1. /\ at[c].case \in 1..Len(Cases(c)) + 1 /\ ~(at[c].case > Len(Cases(c)))
          /\ at[c].step \in 1..Len(Cases(c)[at[c].case].steps)
      BY <2>2 DEF SuitesTypeInv, Underway, Finished, Case
    <3>2. CasesKnown(c)
      BY CasesAreKnown DEF SuitesTypeInv, SuitesTypeOK
    <3>3. PICK l \in 0..42 : l = Len(Cases(c))
      BY <3>2 DEF CasesKnown
    <3>4. PICK n \in 1..l : n = at[c].case
      BY <3>1, <3>3
    <3>5. PICK j \in 1..Len(Steps(c, n)) : j = at[c].step
      BY <3>1, <3>4 DEF Steps
    <3>6. Id(c, n) \in CaseIds /\ Steps(c, n)[j].cleanup \in BOOLEAN
      BY <3>2, <3>3 DEF CasesKnown, CaseFits, StepFits
    <3>7. QED
      BY <3>4, <3>5, <3>6 DEF Case, Step, Id, Steps
  <2>6. slow' \in [Runners -> SUBSET (CaseIds \X BOOLEAN)]
    BY <2>1, <2>5 DEF SuitesTypeInv, SuitesTypeOK
  <2>7. TypeOK' /\ Phases'
    BY <2>1 DEF vars, authority, SuitesTypeInv, SuitesTypeOK, TypeOK, Phases
  <2>8. SuitesTypeOK'
    BY <2>1, <2>4, <2>6, <2>7 DEF SuitesTypeInv, SuitesTypeOK
  <2>9. QED
    BY <2>4, <2>7, <2>8 DEF SuitesTypeInv
<1>3. ASSUME NEW r \in Requests, ServerStep(r) PROVE SuitesTypeInv'
  <2>1. TypeInv
    BY DEF SuitesTypeInv, SuitesTypeOK, TypeInv
  <2>2. TypeInv' /\ UNCHANGED <<selected, at, waiting, sent, failed, slow>>
    BY <1>3, <2>1, ServerSteps
  <2>3. SuitesTypeOK' /\ Phases'
    BY <2>2 DEF SuitesTypeInv, SuitesTypeOK, TypeInv
  <2>4. ASSUME NEW c \in Runners PROVE Underway(c)'
    BY <2>2 DEF SuitesTypeInv, Underway, Finished, Case, Cases, Current
  <2>5. QED
    BY <2>3, <2>4 DEF SuitesTypeInv
<1>4. CASE UNCHANGED allVars
  BY <1>4 DEF allVars, vars, authority, runner, SuitesTypeInv, SuitesTypeOK, TypeOK,
      Phases, Underway, Finished, Case, Cases, Current
<1>5. QED
  BY <1>1, <1>2, <1>3, <1>4, SuitesSteps

(***************************************************************************)
(* Whatever the filters select and whatever times out, the runners stay in *)
(* their cases, report only cases of the suites, and send the server       *)
(* nothing that is not a request to it.                                    *)
(***************************************************************************)
THEOREM SuitesTypeCorrect == SuitesSpec => []SuitesTypeOK
<1>1. SuitesSpec => []SuitesTypeInv
  BY SuitesTypeInit, SuitesTypeStep, PTL DEF SuitesSpec
<1>2. SuitesTypeInv => SuitesTypeOK
  BY DEF SuitesTypeInv
<1>3. QED
  BY <1>1, <1>2, PTL

-----------------------------------------------------------------------------
(*                  What a case keeps in the store                         *)

\* After p steps of a case, its key is there.
Present(S, p) == \E w \in 1..p : Wrote(S, p, w)

Inside(k, u) == k.path # <<>> /\ k.path[1] = u

\* What the store holds of a case after p steps of it.
Housed(S, u, id, p) ==
  LET K == CaseKey(S) IN
  /\ K # Root => (K \in DOMAIN store <=> Present(S, p))
  /\ K = Document(<<u, File>>) =>
       /\ p >= 1 /\ S[1].method = "PUT" => Container(<<u>>) \in DOMAIN store
       /\ S[1].method # "PUT" => Container(<<u>>) \notin DOMAIN store
  /\ \A k \in DOMAIN store : Inside(k, u) =>
       \/ k = K
       \/ k = Container(<<u>>) /\ K = Document(<<u, File>>)
       \/ /\ id = <<"containers", 3>> /\ p >= 2
          /\ \E r \in Requests : k = Document(<<u, r>>)
  /\ id = <<"containers", 3>> /\ p >= 2 =>
       \E r \in Requests : \A q \in Requests :
         Document(<<u, q>>) \in DOMAIN store <=> q = r

\* What holds of a case whatever the state.
Sound(S, u, id) ==
  /\ CaseFits(S, u, id)
  /\ u \in Names /\ File \in Names /\ {Root} \cup Keys(u) \subseteq Key
  /\ u \notin Unprintable
  /\ \A p \in Policies :
       Agents \X ({Root} \cup Keys(u)) \X {"verbatim"} \X {"Read", "Write"}
         \subseteq Grants[p]

LEMMA CasesAreSound ==
  ASSUME NEW c \in Runners, selected \in [Runners -> Selections],
         NEW n \in 1..Len(Cases(c))
  PROVE  Sound(Steps(c, n), Uuid(c, n), Id(c, n))
<1>1. /\ CaseFits(Steps(c, n), Uuid(c, n), Id(c, n))
      /\ Id(c, n)[1] \in SuiteSet /\ Id(c, n)[2] \in 1..MaxCases
  BY CasesAreKnown DEF CasesKnown
<1>2. PICK name \in SuiteSet, i \in 1..MaxCases :
        name = Id(c, n)[1] /\ i = Id(c, n)[2]
  BY <1>1
<1>3. PICK m \in 1..Len(SuiteNames) : name = SuiteNames[m]
  BY DEF SuiteSet
<1>4. Uuid(c, n) = <<c, name, i>>
  BY <1>2 DEF Uuid
<1>5. LET u == <<c, name, i>> IN
      /\ {Root} \cup Keys(u) \subseteq Key /\ u \in Names /\ File \in Names
      /\ u \notin Unprintable
      /\ \A p \in Policies :
           Agents \X ({Root} \cup Keys(u)) \X {"verbatim"} \X {"Read", "Write"}
             \subseteq Grants[p]
  BY <1>3, KeysAreKeys, SuitesAssumption
<1>6. QED
  BY <1>1, <1>4, <1>5 DEF Sound

\* The keys of a case and the containers above them.
LEMMA KeysOfCase ==
  ASSUME NEW u \in Names, NEW x \in Names
  PROVE  /\ Inside(Container(<<u>>), u) /\ Inside(Document(<<u>>), u)
         /\ Inside(Document(<<u, x>>), u) /\ Document(<<u, x>>) \in Key
         /\ \A v : ~Inside(Root, v)
         /\ ChildKey(Container(<<u>>), x) = Document(<<u, x>>)
         /\ Container(<<u>>) # Root /\ Document(<<u>>) # Root
         /\ Document(<<u, x>>) # Root
         /\ Container(<<u>>) # Document(<<u>>)
         /\ \A y : Document(<<u, y>>) # Container(<<u>>)
         /\ \A y : Document(<<u, y>>) # Document(<<u>>)
         /\ \A y : Document(<<u, y>>) = Document(<<u, x>>) => y = x
         /\ Container(<<u>>).dir /\ ~Document(<<u>>).dir /\ ~Document(<<u, x>>).dir
<1>1. /\ Inside(Container(<<u>>), u) /\ Inside(Document(<<u>>), u)
      /\ Inside(Document(<<u, x>>), u)
  BY DEF Inside, Container, Document
<1>2. Document(<<u, x>>) \in Key
  <2>1. <<u, x>> \in Seq(Names) /\ <<u, x>> # <<>>
    OBVIOUS
  <2>2. QED
    BY <2>1 DEF Document, Key
<1>3. \A v : ~Inside(Root, v)
  BY DEF Inside, Root, Container
<1>4. ChildKey(Container(<<u>>), x) = Document(<<u, x>>)
  <2>1. Append(<<u>>, x) = <<u, x>>
    <3> DEFINE s == Append(<<u>>, x)
               t == <<u, x>>
    <3>1. /\ s \in Seq(Names) /\ t \in Seq(Names) /\ Len(s) = 2 /\ Len(t) = 2
          /\ s[1] = u /\ s[2] = x /\ t[1] = u /\ t[2] = x
      OBVIOUS
    <3> HIDE DEF s, t
    <3>2. \A i \in 1..Len(s) : s[i] = t[i]
      BY <3>1
    <3>3. s = t
      BY <3>1, <3>2, SeqEqual
    <3>4. QED
      BY <3>3 DEF s, t
  <2>2. QED
    BY <2>1 DEF ChildKey, Container
<1>5. /\ Container(<<u>>) # Root /\ Document(<<u>>) # Root
      /\ Document(<<u, x>>) # Root
      /\ Container(<<u>>) # Document(<<u>>)
      /\ \A y : Document(<<u, y>>) # Container(<<u>>)
  BY DEF Container, Document, Root
<1>6. \A y : Document(<<u, y>>) # Document(<<u>>)
  <2>1. ASSUME NEW y PROVE <<u, y>> # <<u>>
    OBVIOUS
  <2>2. QED
    BY <2>1 DEF Document
<1>7. \A y : Document(<<u, y>>) = Document(<<u, x>>) => y = x
  BY DEF Document
<1>8. Container(<<u>>).dir /\ ~Document(<<u>>).dir /\ ~Document(<<u, x>>).dir
  BY DEF Container, Document
<1>9. QED
  BY <1>1, <1>2, <1>3, <1>4, <1>5, <1>6, <1>7, <1>8

LEMMA EnsuredOfCase ==
  ASSUME NEW u \in Names, NEW x \in Names
  PROVE  /\ EnsuredAncestors(Container(<<u>>)) = {Root}
         /\ EnsuredAncestors(Document(<<u>>)) = {Root}
         /\ EnsuredAncestors(Document(<<u, x>>)) = {Root, Container(<<u>>)}
<1>0. /\ SubSeq(<<u>>, 1, 0) = <<>> /\ SubSeq(<<u, x>>, 1, 0) = <<>>
      /\ SubSeq(<<u, x>>, 1, 1) = <<u>>
  <2>1. /\ <<u>> \in Seq(Names) /\ Len(<<u>>) = 1
        /\ <<u, x>> \in Seq(Names) /\ Len(<<u, x>>) = 2
    OBVIOUS
  <2>2. SubSeq(<<u>>, 1, 0) \in Seq(Names) /\ Len(SubSeq(<<u>>, 1, 0)) = 0
    BY <2>1, PrefixOfSeq
  <2>3. /\ SubSeq(<<u, x>>, 1, 0) \in Seq(Names)
        /\ Len(SubSeq(<<u, x>>, 1, 0)) = 0
    BY <2>1, PrefixOfSeq
  <2>4. /\ SubSeq(<<u, x>>, 1, 1) \in Seq(Names)
        /\ Len(SubSeq(<<u, x>>, 1, 1)) = 1 /\ SubSeq(<<u, x>>, 1, 1)[1] = u
    BY <2>1, PrefixOfSeq
  <2>5. SubSeq(<<u, x>>, 1, 1) = <<u>>
    <3> DEFINE s == SubSeq(<<u, x>>, 1, 1)
               t == <<u>>
    <3>1. s \in Seq(Names) /\ t \in Seq(Names) /\ Len(s) = 1 /\ Len(t) = 1
      BY <2>1, <2>4
    <3>2. s[1] = u /\ t[1] = u
      BY <2>4
    <3> HIDE DEF s, t
    <3>3. \A i \in 1..Len(s) : s[i] = t[i]
      BY <3>1, <3>2
    <3>4. s = t
      BY <3>1, <3>3, SeqEqual
    <3>5. QED
      BY <3>4 DEF s, t
  <2>6. QED
    BY <2>2, <2>3, <2>5, EmptySeq
<1>1. SplitLimit \in Nat /\ SplitLimit >= 3
  BY SplitLimitAssumption, SuitesAssumption
<1>2. ASSUME NEW k, k.path = <<u>>
      PROVE  EnsuredAncestors(k) = {Root}
  <2>1. EnsuredDepths(k) = {0}
    BY <1>1, <1>2 DEF EnsuredDepths, Depth
  <2>2. Prefix(k, 0) = Root
    BY <1>0, <1>2 DEF Prefix, Root
  <2>3. QED
    BY <2>1, <2>2 DEF EnsuredAncestors
<1>3. ASSUME NEW k, k.path = <<u, x>>
      PROVE  EnsuredAncestors(k) = {Root, Container(<<u>>)}
  <2>1. EnsuredDepths(k) = {0, 1}
    BY <1>1, <1>3 DEF EnsuredDepths, Depth
  <2>2. Prefix(k, 0) = Root
    BY <1>0, <1>3 DEF Prefix, Root
  <2>3. Prefix(k, 1) = Container(<<u>>)
    BY <1>0, <1>3 DEF Prefix
  <2>4. QED
    BY <2>1, <2>2, <2>3 DEF EnsuredAncestors
<1>4. QED
  BY <1>2, <1>3 DEF Container, Document

\* What a step makes of the key's presence.
LEMMA PresenceSteps ==
  ASSUME NEW S, NEW p \in Nat \ {0}
  PROVE  /\ S[p].method = "PUT" => Present(S, p)
         /\ S[p].method = "DELETE" => ~Present(S, p)
         /\ S[p].method \notin {"PUT", "DELETE"} =>
              (Present(S, p) <=> Present(S, p - 1))
         /\ ~Present(S, 0)
<1>1. S[p].method = "PUT" => Present(S, p)
  <2>1. S[p].method = "PUT" => Wrote(S, p, p)
    BY DEF Wrote
  <2>2. QED
    BY <2>1 DEF Present
<1>2. S[p].method = "DELETE" => ~Present(S, p)
  BY DEF Present, Wrote
<1>3. ASSUME S[p].method \notin {"PUT", "DELETE"}
      PROVE  Present(S, p) <=> Present(S, p - 1)
  <2>1. ASSUME NEW w \in 1..p, Wrote(S, p, w) PROVE Wrote(S, p - 1, w)
    BY <1>3, <2>1 DEF Wrote
  <2>2. ASSUME NEW w \in 1..p - 1, Wrote(S, p - 1, w) PROVE Wrote(S, p, w)
    BY <1>3, <2>2 DEF Wrote
  <2>3. \A w \in 1..p - 1 : w \in 1..p
    OBVIOUS
  <2>4. \A w : Wrote(S, p - 1, w) => w \in 1..p - 1
    BY DEF Wrote
  <2>5. QED
    BY <2>1, <2>2, <2>3, <2>4 DEF Present
<1>4. ~Present(S, 0)
  BY DEF Present
<1>5. QED
  BY <1>1, <1>2, <1>3, <1>4

-----------------------------------------------------------------------------
(*                     What an answer has to be                            *)

\* The assertions of a step on answer a, of which x is the body to expect and
\* h the headers; and the verdict on step j, whose predecessor sent body b.
Meets(s, a, x, h) ==
  /\ a.status \in s.expect
  /\ s.type # None /\ a.status = 200 => a.entry.ctype = s.type
  /\ s.rel => a.link = "container"
  /\ s.body # None => a.entry # None /\ a.entry.body = x
  /\ s.header \subseteq h
Right(S, id, j, a, b, h) ==
  S[j].cleanup \/ Meets(S[j], a, IF S[j].body = Empty THEN Empty ELSE b, h)
    <=> ~(id \in Refused /\ j = 2)

\* Before a step that is not a cleanup, the key is there if the last step put it.
LEMMA FoundIfPresent ==
  ASSUME NEW S, NEW u, NEW id, CaseFits(S, u, id), NEW j \in 1..Len(S),
         ~S[j].cleanup
  PROVE  Present(S, j - 1) <=> Finds(S, j)
<1>1. PICK l \in 1..4 : l = Len(S)
  BY DEF CaseFits
<1>2. j \in 1..l
  BY <1>1
<1>3. j = 1 \/ S[j - 1].method \in {"PUT", "DELETE"}
  BY DEF CaseFits, StepFits
<1>4. CASE j = 1
  BY <1>4, PresenceSteps DEF Finds
<1>5. CASE j # 1
  <2>1. j - 1 \in Nat \ {0} /\ j > 1
    BY <1>2, <1>5
  <2>2. QED
    BY <1>3, <1>5, <2>1, PresenceSteps DEF Finds
<1>6. QED
  BY <1>4, <1>5

\* No case that is bound to fail does so but at its second step, a GET.
LEMMA RefusedSteps ==
  ASSUME NEW S, NEW u, NEW id, CaseFits(S, u, id), NEW j \in 1..Len(S)
  PROVE  /\ id \in Refused /\ j = 2 =>
              /\ S[j].method = "GET" /\ S[j].accept = {} /\ ~S[j].cleanup
              /\ Finds(S, j) /\ S[j].key # Root
              /\ S[j].expect = {401} \/ S[j].header = {"wac-allow"}
         /\ S[j].cleanup => S[j].method = "DELETE"
         /\ ~S[j].cleanup /\ ~(id \in Refused /\ j = 2) => Modest(S, j)
<1>1. StepFits(S, j, id) /\ PlaceFits(S, u, id)
  BY DEF CaseFits
<1>2. id \in Refused => CaseKey(S) # Root
  BY <1>1 DEF PlaceFits, Document, Root, Container
<1>3. QED
  BY <1>1, <1>2 DEF StepFits, PlaceFits, Finds

LEMMA RightOfPlain ==
  ASSUME NEW S, NEW u, NEW id, CaseFits(S, u, id), NEW j \in 1..Len(S),
         NEW a, NEW b, NEW h,
         \/ /\ S[j].method = "PUT"
            /\ a.status = IF Present(S, j - 1) THEN 204 ELSE 201
         \/ /\ S[j].method = "DELETE"
            /\ a.status = IF Present(S, j - 1) THEN 204 ELSE 404
         \/ S[j].method = "OPTIONS" /\ a.status = 204
         \/ S[j].method = "PATCH" /\ a.status = 415
  PROVE  Right(S, id, j, a, b, h)
<1>1. ~(id \in Refused /\ j = 2)
  BY RefusedSteps
<1>2. CASE S[j].cleanup
  BY <1>1, <1>2 DEF Right
<1>3. CASE ~S[j].cleanup
  <2>1. Modest(S, j) /\ (Present(S, j - 1) <=> Finds(S, j))
    BY <1>1, <1>3, RefusedSteps, FoundIfPresent
  <2>2. Undemanding(S[j]) /\ a.status \in S[j].expect
    BY <2>1 DEF Modest
  <2>3. QED
    BY <1>1, <2>2 DEF Right, Meets, Undemanding
<1>4. QED
  BY <1>2, <1>3

LEMMA RightOfPost ==
  ASSUME NEW S, NEW u, NEW id, CaseFits(S, u, id), NEW j \in 1..Len(S),
         NEW a, NEW b, NEW h,
         S[j].method = "POST", a.status = 201, h = {"location"}
  PROVE  Right(S, id, j, a, b, h)
<1>1. ~(id \in Refused /\ j = 2) /\ Modest(S, j)
  BY RefusedSteps
<1>2. QED
  BY <1>1 DEF Right, Meets, Modest

LEMMA RightOfHead ==
  ASSUME NEW S, NEW u, NEW id, CaseFits(S, u, id), NEW j \in 1..Len(S),
         NEW a, NEW b, NEW h,
         S[j].method = "HEAD", a.status = 200,
         a.entry # None, a.entry.body = Empty
  PROVE  Right(S, id, j, a, b, h)
<1>1. ~(id \in Refused /\ j = 2) /\ Modest(S, j)
  BY RefusedSteps
<1>2. QED
  BY <1>1 DEF Right, Meets, Modest

\* The status of a GET of a case whose key holds what step j - 1 has put.
StatusOfGet(S, j) ==
  IF S[j].key = Root THEN 200
  ELSE IF ~Finds(S, j) THEN 404
  ELSE IF accept_satisfied(S[j].accept, S[j - 1].ctype) THEN 200 ELSE 406

LEMMA RightOfGet ==
  ASSUME NEW S, NEW u, NEW id, CaseFits(S, u, id), NEW j \in 1..Len(S),
         NEW a, NEW b,
         S[j].method = "GET", a.status = StatusOfGet(S, j),
         S[j].key # Root /\ a.status = 200 =>
           /\ a.entry # None /\ a.entry.ctype = S[j - 1].ctype
           /\ a.entry.body = b
           /\ S[j].key.dir => a.link = "container"
  PROVE  Right(S, id, j, a, b, {})
<1>1. CASE id \in Refused /\ j = 2
  <2>1. a.status = 200
    BY <1>1, RefusedSteps DEF StatusOfGet, accept_satisfied
  <2>2. QED
    BY <1>1, <2>1, RefusedSteps DEF Right, Meets
<1>2. CASE ~(id \in Refused /\ j = 2)
  <2>1. Modest(S, j) /\ ~S[j].cleanup
    BY <1>2, RefusedSteps
  <2>2. j \in Nat /\ Empty # j - 1
    <3>1. PICK l \in 1..4 : l = Len(S)
      BY DEF CaseFits
    <3>2. j - 1 \in Nat /\ j \in Nat
      BY <3>1
    <3>3. QED
      BY <3>2, SuitesAssumption
  <2>3. CASE S[j].key = Root
    BY <1>2, <2>1, <2>3 DEF Right, Meets, Modest, Undemanding, StatusOfGet
  <2>4. CASE S[j].key # Root /\ ~Finds(S, j)
    <3>1. a.status = 404
      BY <2>4 DEF StatusOfGet
    <3>2. QED
      BY <1>2, <2>1, <2>4, <3>1 DEF Right, Meets, Modest
  <2>5. CASE /\ S[j].key # Root /\ Finds(S, j)
             /\ ~accept_satisfied(S[j].accept, S[j - 1].ctype)
    <3>1. a.status = 406
      BY <2>5 DEF StatusOfGet
    <3>2. QED
      BY <1>2, <2>1, <2>5, <3>1 DEF Right, Meets, Modest
  <2>6. CASE /\ S[j].key # Root /\ Finds(S, j)
             /\ accept_satisfied(S[j].accept, S[j - 1].ctype)
    <3>1. a.status = 200
      BY <2>6 DEF StatusOfGet
    <3>2. /\ S[j].body # None => S[j].body # Empty
          /\ S[j].rel => S[j].key.dir
          /\ S[j].type \in {None, S[j - 1].ctype}
          /\ 200 \in S[j].expect /\ S[j].header = {}
      BY <2>1, <2>2, <2>6 DEF Modest
    <3>3. QED
      BY <1>2, <2>6, <3>1, <3>2 DEF Right, Meets
  <2>7. QED
    BY <2>3, <2>4, <2>5, <2>6
<1>3. QED
  BY <1>1, <1>2

-----------------------------------------------------------------------------
(*                   What the server does of a step                        *)

\* Request r is that of step j.
Sending(r, S, u, id, j) ==
  /\ Sound(S, u, id) /\ j \in 1..Len(S)
  /\ req[r] = Line(S[j])
  /\ pc[r] \in {"ensure", "insert"} =>
       req[r].method \in Writes /\ target[r] = Place(r)

LEMMA SendingFacts ==
  ASSUME TypeInv, NEW r \in Requests, NEW S, NEW u, NEW id, NEW j,
         Sending(r, S, u, id, j)
  PROVE  /\ j \in 1..Len(S) /\ j \in 1..4 /\ u \in Names /\ File \in Names
         /\ CaseFits(S, u, id) /\ StepFits(S, j, id) /\ PlaceFits(S, u, id)
         /\ req[r].method = S[j].method /\ req[r].key = CaseKey(S)
         /\ req[r].ctype = S[j].ctype /\ req[r].accept = S[j].accept
         /\ S[j].key = CaseKey(S)
         /\ CaseKey(S) \in {Root} \cup Keys(u)
         /\ CaseKey(S) = Root \/ Inside(CaseKey(S), u)
         /\ Granted(req[r]) /\ req[r].spelling = "verbatim"
         /\ CaseKey(S) = Root => S[j].method \in {"GET", "HEAD", "OPTIONS"}
         /\ S[j].method = "HEAD" => CaseKey(S) = Root /\ S[j].accept = {}
<1>1. CaseFits(S, u, id) /\ u \in Names /\ File \in Names
  BY DEF Sending, Sound
<1>2. StepFits(S, j, id) /\ PlaceFits(S, u, id)
  BY <1>1 DEF CaseFits, Sending
<1>3. j \in 1..4
  <2>1. PICK l \in 1..4 : l = Len(S)
    BY <1>1 DEF CaseFits
  <2>2. QED
    BY <2>1 DEF Sending
<1>4. /\ req[r].method = S[j].method /\ req[r].key = S[j].key
      /\ req[r].ctype = S[j].ctype /\ req[r].accept = S[j].accept
      /\ req[r].agent = CHOOSE a \in Agents : TRUE
      /\ req[r].spelling = "verbatim"
  BY DEF Sending, Line
<1>5. S[j].key = CaseKey(S)
  BY <1>2 DEF StepFits
<1>6. CaseKey(S) \in {Root} \cup Keys(u)
  BY <1>2 DEF PlaceFits
<1>7. CaseKey(S) = Root \/ Inside(CaseKey(S), u)
  BY <1>1, <1>6, KeysOfCase DEF Keys
<1>8. Granted(req[r])
  <2>1. (CHOOSE a \in Agents : TRUE) \in Agents
    BY SuitesAssumption
  <2>2. PICK a \in Agents : a = req[r].agent
    BY <1>4, <2>1
  <2>3. PICK k \in {Root} \cup Keys(u) : k = req[r].key
    BY <1>4, <1>5, <1>6
  <2>4. /\ <<a, k, "verbatim", "Read">> \in Grants[policy]
        /\ <<a, k, "verbatim", "Write">> \in Grants[policy]
    BY DEF Sending, Sound, TypeInv, TypeOK
  <2>5. QED
    BY <1>4, <2>2, <2>3, <2>4 DEF Granted, Claim, AccessModeOf
<1>9. j \in 1..Len(S)
  BY DEF Sending
<1>10. QED
  BY <1>1, <1>2, <1>3, <1>4, <1>5, <1>6, <1>7, <1>8, <1>9 DEF StepFits

\* Where a step writes, and the containers it sees to first.
LEMMA PutPlace ==
  ASSUME TypeInv, NEW r \in Requests, NEW S, NEW u, NEW id, NEW j,
         Sending(r, S, u, id, j), S[j].method = "PUT"
  PROVE  Place(r) = CaseKey(S) /\ Inside(CaseKey(S), u)
<1>1. req[r].method = S[j].method /\ req[r].key = CaseKey(S)
  BY SendingFacts
<1>2. CaseKey(S) = Root \/ Inside(CaseKey(S), u)
  BY SendingFacts
<1>3. CaseKey(S) # Root
  BY SendingFacts
<1>4. QED
  BY <1>1, <1>2, <1>3 DEF Place

LEMMA PostPlace ==
  ASSUME TypeInv, NEW r \in Requests, NEW S, NEW u, NEW id, NEW j,
         Sending(r, S, u, id, j), S[j].method = "POST"
  PROVE  /\ j = 2 /\ id = <<"containers", 3>> /\ CaseKey(S) = Container(<<u>>)
         /\ Place(r) = Document(<<u, r>>) /\ Inside(Document(<<u, r>>), u)
<1>1. req[r].method = S[j].method /\ req[r].key = CaseKey(S)
  BY SendingFacts
<1>2. u \in Names /\ r \in Names
  BY SendingFacts, SlugAssumption
<1>3. StepFits(S, j, id) /\ PlaceFits(S, u, id)
  BY SendingFacts
<1>4. j = 2 /\ id = <<"containers", 3>> /\ CaseKey(S) = Container(<<u>>)
  BY <1>3 DEF StepFits, PlaceFits
<1>5. /\ ChildKey(Container(<<u>>), r) = Document(<<u, r>>)
      /\ Inside(Document(<<u, r>>), u)
  BY <1>2, KeysOfCase
<1>6. QED
  BY <1>1, <1>4, <1>5 DEF Place

LEMMA EnsuredOfStep ==
  ASSUME TypeInv, NEW r \in Requests, NEW S, NEW u, NEW id, NEW j,
         Sending(r, S, u, id, j), S[j].method \in {"PUT", "POST"}
  PROVE  EnsuredAncestors(Place(r)) =
           IF S[j].method = "POST" \/ CaseKey(S) = Document(<<u, File>>)
           THEN {Root, Container(<<u>>)} ELSE {Root}
<1>1. u \in Names /\ File \in Names /\ r \in Names
  BY SendingFacts, SlugAssumption
<1>2. CASE S[j].method = "PUT"
  <2>1. Place(r) = CaseKey(S)
    BY <1>2, PutPlace
  <2>2. CaseKey(S) \in Keys(u)
    BY <1>2, SendingFacts
  <2>3. CASE CaseKey(S) = Document(<<u, File>>)
    BY <1>1, <2>1, <2>3, EnsuredOfCase
  <2>4. CASE CaseKey(S) \in {Container(<<u>>), Document(<<u>>)}
    <3>1. CaseKey(S) # Document(<<u, File>>)
      BY <1>1, <2>4, KeysOfCase
    <3>2. QED
      BY <1>1, <1>2, <2>1, <2>4, <3>1, EnsuredOfCase
  <2>5. QED
    BY <2>2, <2>3, <2>4 DEF Keys
<1>3. CASE S[j].method = "POST"
  <2>1. Place(r) = Document(<<u, r>>)
    BY <1>3, PostPlace
  <2>2. QED
    BY <1>1, <1>3, <2>1, EnsuredOfCase
<1>4. QED
  BY <1>2, <1>3

\* A step of request r touches nothing outside of its case.
LEMMA Confined ==
  ASSUME TypeInv, NEW r \in Requests, ServerStep(r),
         NEW S, NEW u, NEW id, NEW j, Sending(r, S, u, id, j),
         Root \in DOMAIN store
  PROVE  /\ Root \in DOMAIN store'
         /\ \A k : k \in DOMAIN store' =>
              k \in DOMAIN store \/ k = Root \/ Inside(k, u)
         /\ \A k \in DOMAIN store :
              Inside(k, u) \/ (k \in DOMAIN store' /\ store'[k] = store[k])
<1>1. /\ req[r].method = S[j].method /\ req[r].key = CaseKey(S)
      /\ u \in Names
      /\ CaseKey(S) = Root \/ Inside(CaseKey(S), u)
      /\ CaseKey(S) = Root => S[j].method \in {"GET", "HEAD", "OPTIONS"}
  BY SendingFacts
<1>2. \A v : ~Inside(Root, v)
  BY DEF Inside, Root, Container
<1>3. CASE UNCHANGED store
  BY <1>3
<1>4. CASE ensure_ancestors(r)
  <2>0. S[j].method \in {"PUT", "POST"}
    BY <1>1, <1>4 DEF Sending, ensure_ancestors, Writes
  <2>1. target[r] = Place(r)
    BY <1>4 DEF Sending, ensure_ancestors
  <2>2. EnsuredAncestors(target[r]) \subseteq {Root, Container(<<u>>)}
    <3>1. EnsuredAncestors(Place(r)) \in {{Root, Container(<<u>>)}, {Root}}
      BY <2>0, EnsuredOfStep
    <3>2. QED
      BY <2>1, <3>1
  <2>3. Inside(Container(<<u>>), u)
    BY <1>1, KeysOfCase
  <2>4. store' = OrInsert(store, EnsuredAncestors(target[r]))
    BY <1>4 DEF ensure_ancestors
  <2>5. QED
    BY <2>2, <2>3, <2>4 DEF OrInsert
<1>5. CASE put(r)
  <2>0. S[j].method \in {"PUT", "POST"}
    BY <1>1, <1>5 DEF Sending, put, Writes
  <2>1. target[r] = Place(r)
    BY <1>5 DEF Sending, put
  <2>2. Inside(target[r], u)
    <3>1. CASE S[j].method = "PUT"
      BY <2>1, <3>1, PutPlace
    <3>2. CASE S[j].method = "POST"
      BY <2>1, <3>2, PostPlace
    <3>3. QED
      BY <2>0, <3>1, <3>2
  <2>3. PICK e : store' = Insert(store, target[r], e)
    BY <1>5 DEF put
  <2>4. QED
    BY <1>2, <2>2, <2>3 DEF Insert
<1>6. CASE handle_delete(r)
  <2>1. store' = Remove(store, CaseKey(S)) /\ S[j].method = "DELETE"
    BY <1>1, <1>6 DEF handle_delete, Handles, Reaches
  <2>2. Inside(CaseKey(S), u)
    BY <1>1, <2>1
  <2>3. QED
    BY <1>2, <2>1, <2>2 DEF Remove
<1>7. QED
  <2>1. Client(r) \/ Serve(r)
    BY ServerSteps
  <2>2. \/ UNCHANGED store \/ ensure_ancestors(r) \/ put(r) \/ handle_delete(r)
    BY DEF ServerStep, Connection, ReadBody, BodyFails, Disconnect, Serve,
        Authorization, PermissionReaderFails, Deny, Admit, path_rejected, Read,
        not_found, not_acceptable, handle_get, handle_head, handle_options, handle_patch,
        MethodNotAllowed
  <2>3. QED
    BY <1>3, <1>4, <1>5, <1>6, <2>2

\* So the other cases keep what they have.
LEMMA HousedElsewhere ==
  ASSUME NEW S, NEW u, NEW id, NEW p, Sound(S, u, id), Housed(S, u, id, p),
         \A k : Inside(k, u) => (k \in DOMAIN store' <=> k \in DOMAIN store)
  PROVE  Housed(S, u, id, p)'
<1>1. /\ u \in Names /\ File \in Names
      /\ CaseKey(S) \in {Root} \cup Keys(u)
  BY DEF Sound, CaseFits, PlaceFits
<1>2. CaseKey(S) = Root \/ Inside(CaseKey(S), u)
  BY <1>1, KeysOfCase DEF Keys
<1>3. Inside(Container(<<u>>), u)
  BY <1>1, KeysOfCase
<1>4. \A q \in Requests : Inside(Document(<<u, q>>), u)
  BY <1>1, KeysOfCase, SlugAssumption
<1>5. QED
  BY <1>2, <1>3, <1>4 DEF Housed

\* The entry step p of a case puts, when b is its request.
Fresh(S, p, b) == [body |-> b, ctype |-> S[p].ctype, dir |-> CaseKey(S).dir]

\* The server stands between step j - 1 of a case, which sent b, and step j.
Awaiting(r, S, u, id, j, b) ==
  /\ Sending(r, S, u, id, j) /\ Root \in DOMAIN store
  /\ Housed(S, u, id, j - 1)
  /\ Finds(S, j) => store[CaseKey(S)] = Fresh(S, j - 1, b)
  /\ pc[r] = "insert" /\ CaseKey(S) = Document(<<u, File>>) =>
       Container(<<u>>) \in DOMAIN store

\* Step j is carried out, and rightly answered.
Settled(r, S, u, id, j, b) ==
  /\ Housed(S, u, id, j)
  /\ S[j].method = "PUT" => store[CaseKey(S)] = Fresh(S, j, r)
  /\ resp[r] # None /\ Right(S, id, j, resp[r], b, HeadersOf(r))

LEMMA Replies ==
  ASSUME TypeInv, NEW r \in Requests, NEW a, Reply(r, a)
  PROVE  pc'[r] = "done" /\ resp'[r] = a
BY DEF Reply, TypeInv, TypeOK

\* A step that writes nothing.
LEMMA HousedIdle ==
  ASSUME NEW S, NEW u, NEW id, CaseFits(S, u, id), NEW j \in 1..Len(S),
         S[j].method \notin {"PUT", "POST", "DELETE"},
         Housed(S, u, id, j - 1), UNCHANGED store
  PROVE  Housed(S, u, id, j)'
<1>1. PICK l \in 1..4 : l = Len(S)
  BY DEF CaseFits
<1>2. j \in 1..l /\ j \in Nat \ {0}
  BY <1>1
<1>3. id # <<"containers", 3>>
  BY <1>1, <1>2 DEF CaseFits, PlaceFits
<1>4. Present(S, j) <=> Present(S, j - 1)
  BY <1>2, PresenceSteps
<1>5. S[1].method = "PUT" => j - 1 >= 1
  BY <1>2
<1>6. QED
  BY <1>3, <1>4, <1>5 DEF Housed

LEMMA GetServed ==
  ASSUME TypeInv, NEW r \in Requests, NEW S, NEW u, NEW id, NEW j, NEW b,
         Awaiting(r, S, u, id, j, b), S[j].method = "GET", Read(r)
  PROVE  pc'[r] = "done" /\ Settled(r, S, u, id, j, b)'
<1> DEFINE K == CaseKey(S)
<1>0. Sending(r, S, u, id, j)
  BY DEF Awaiting
<1>1. /\ CaseFits(S, u, id) /\ StepFits(S, j, id) /\ j \in 1..Len(S)
      /\ req[r].method = "GET" /\ req[r].key = K /\ req[r].accept = S[j].accept
      /\ S[j].key = K
  BY <1>0, SendingFacts
<1>2. ~S[j].cleanup
  BY <1>1 DEF StepFits
<1>3. /\ Present(S, j - 1) <=> Finds(S, j)
      /\ K = Root => K \in DOMAIN store /\ S[j].accept = {}
      /\ K # Root => (K \in DOMAIN store <=> Finds(S, j))
      /\ Finds(S, j) => store[K] = Fresh(S, j - 1, b)
  BY <1>1, <1>2, FoundIfPresent DEF Awaiting, Housed, StepFits
<1>4. UNCHANGED <<store, req>>
  BY DEF Read, not_found, not_acceptable, handle_get, handle_head
<1>5. PICK a : /\ Reply(r, a) /\ a # None
               /\ a.status = StatusOfGet(S, j)
               /\ K # Root /\ a.status = 200 =>
                    /\ a.entry # None /\ a.entry.ctype = S[j - 1].ctype
                    /\ a.entry.body = b /\ (K.dir => a.link = "container")
  <2>1. CASE not_found(r)
    <3>1. Reply(r, Plain(404)) /\ K \notin DOMAIN store
      BY <1>1, <2>1 DEF not_found
    <3>2. StatusOfGet(S, j) = 404
      BY <1>1, <1>3, <3>1 DEF StatusOfGet
    <3>3. Plain(404).status = 404 /\ Plain(404) \in Response
      BY DEF Plain, Answer, Response
    <3>4. QED
      BY <3>1, <3>2, <3>3, SentinelAssumption
  <2>2. CASE not_acceptable(r)
    <3>1. /\ Reply(r, Plain(406)) /\ K \in DOMAIN store
          /\ ~accept_satisfied(S[j].accept, store[K].ctype)
      BY <1>1, <2>2 DEF not_acceptable
    <3>2. K # Root
      BY <1>3, <3>1 DEF accept_satisfied
    <3>3. StatusOfGet(S, j) = 406
      BY <1>1, <1>3, <3>1, <3>2 DEF StatusOfGet, Fresh
    <3>4. Plain(406).status = 406 /\ Plain(406) \in Response
      BY DEF Plain, Answer, Response
    <3>5. QED
      BY <3>1, <3>3, <3>4, SentinelAssumption
  <2>3. CASE handle_get(r)
    <3>1. PICK e \in Entry : e = store[K]
      BY <1>1, <2>3 DEF handle_get, TypeInv, TypeOK
    <3>2. /\ Reply(r, Answer(200, LinkOf(e), e)) /\ K \in DOMAIN store
          /\ accept_satisfied(S[j].accept, e.ctype)
      BY <1>1, <2>3, <3>1 DEF handle_get
    <3>3. StatusOfGet(S, j) = 200
      BY <1>1, <1>3, <3>1, <3>2 DEF StatusOfGet, Fresh
    <3>4. /\ Answer(200, LinkOf(e), e).status = 200
          /\ Answer(200, LinkOf(e), e).entry = e
          /\ Answer(200, LinkOf(e), e).link = LinkOf(e)
          /\ Answer(200, LinkOf(e), e) \in Response
      BY DEF Answer, Response, LinkOf
    <3>5. K # Root => e.ctype = S[j - 1].ctype /\ e.body = b /\ e.dir = K.dir
      BY <1>3, <3>1, <3>2 DEF Fresh
    <3>6. e # None /\ Answer(200, LinkOf(e), e) # None
      BY <3>1, <3>4, SentinelAssumption
    <3>7. K # Root => (K.dir => LinkOf(e) = "container")
      BY <3>5 DEF LinkOf
    <3> HIDE DEF K
    <3>8. QED
      BY <3>2, <3>3, <3>4, <3>5, <3>6, <3>7
  <2>4. QED
    BY <1>1, <2>1, <2>2, <2>3 DEF Read, handle_head, Handles, Reaches
<1>6. pc'[r] = "done" /\ resp'[r] = a
  BY <1>5, Replies
<1>7. HeadersOf(r)' = {}
  BY <1>1, <1>4 DEF HeadersOf
<1>8. Right(S, id, j, a, b, {})
  BY <1>1, <1>5, RightOfGet
<1>9. Housed(S, u, id, j)'
  BY <1>1, <1>4, HousedIdle DEF Awaiting
<1>10. QED
  BY <1>5, <1>6, <1>7, <1>8, <1>9 DEF Settled

LEMMA HeadServed ==
  ASSUME TypeInv, NEW r \in Requests, NEW S, NEW u, NEW id, NEW j, NEW b,
         Awaiting(r, S, u, id, j, b), S[j].method = "HEAD", Read(r)
  PROVE  pc'[r] = "done" /\ Settled(r, S, u, id, j, b)'
<1>0. Sending(r, S, u, id, j)
  BY DEF Awaiting
<1>1. /\ CaseFits(S, u, id) /\ j \in 1..Len(S)
      /\ req[r].method = "HEAD" /\ req[r].key = Root /\ req[r].accept = {}
  BY <1>0, SendingFacts
<1>2. UNCHANGED <<store, req>>
  BY DEF Read, not_found, not_acceptable, handle_get, handle_head
<1>3. handle_head(r)
  BY <1>1 DEF Awaiting, Read, not_found, not_acceptable, handle_get, Handles,
         Reaches, accept_satisfied
<1>4. PICK e \in Entry : e = store[Root]
  BY DEF Awaiting, TypeInv, TypeOK
<1> DEFINE x == [e EXCEPT !.body = Empty]
<1>5. PICK a : a = Answer(200, IF e.dir THEN "container" ELSE "none", x)
  OBVIOUS
<1>6. Reply(r, a)
  BY <1>1, <1>3, <1>4, <1>5 DEF handle_head
<1>7. x \in Entry /\ x.body = Empty
  BY DEF Entry
<1> HIDE DEF x
<1>8. a.status = 200 /\ a.entry = x /\ a \in Response
  BY <1>5, <1>7 DEF Answer, Response
<1>9. a.entry # None /\ a # None
  BY <1>7, <1>8, SentinelAssumption
<1>10. pc'[r] = "done" /\ resp'[r] = a
  BY <1>6, Replies
<1>11. Right(S, id, j, a, b, HeadersOf(r)')
  <2>1. PICK h : h = HeadersOf(r)'
    OBVIOUS
  <2>2. Right(S, id, j, a, b, h)
    BY <1>1, <1>7, <1>8, <1>9, RightOfHead
  <2>3. QED
    BY <2>1, <2>2
<1>12. Housed(S, u, id, j)'
  BY <1>1, <1>2, HousedIdle DEF Awaiting
<1>13. QED
  BY <1>9, <1>10, <1>11, <1>12 DEF Settled

LEMMA OthersServed ==
  ASSUME TypeInv, NEW r \in Requests, NEW S, NEW u, NEW id, NEW j, NEW b,
         Awaiting(r, S, u, id, j, b), handle_options(r) \/ handle_patch(r)
  PROVE  pc'[r] = "done" /\ Settled(r, S, u, id, j, b)'
<1>0. Sending(r, S, u, id, j)
  BY DEF Awaiting
<1>1. /\ CaseFits(S, u, id) /\ j \in 1..Len(S) /\ req[r].method = S[j].method
  BY <1>0, SendingFacts
<1>2. UNCHANGED <<store, req>>
  BY DEF handle_options, handle_patch
<1>3. PICK st \in {204, 415} :
        /\ Reply(r, Plain(st))
        /\ \/ S[j].method = "OPTIONS" /\ st = 204
           \/ S[j].method = "PATCH" /\ st = 415
  BY <1>1 DEF handle_options, handle_patch, Handles, Reaches
<1>4. Plain(st).status = st /\ Plain(st) \in Response
  BY DEF Plain, Answer, Response
<1>5. pc'[r] = "done" /\ resp'[r] = Plain(st) /\ Plain(st) # None
  BY <1>3, <1>4, Replies, SentinelAssumption
<1>6. Right(S, id, j, Plain(st), b, HeadersOf(r)')
  <2>1. PICK h : h = HeadersOf(r)'
    OBVIOUS
  <2>2. Right(S, id, j, Plain(st), b, h)
    BY <1>1, <1>3, <1>4, RightOfPlain
  <2>3. QED
    BY <2>1, <2>2
<1>7. Housed(S, u, id, j)'
  BY <1>1, <1>2, <1>3, HousedIdle DEF Awaiting
<1>8. QED
  BY <1>3, <1>5, <1>6, <1>7 DEF Settled

LEMMA DeleteServed ==
  ASSUME TypeInv, NEW r \in Requests, NEW S, NEW u, NEW id, NEW j, NEW b,
         Awaiting(r, S, u, id, j, b), handle_delete(r)
  PROVE  pc'[r] = "done" /\ Settled(r, S, u, id, j, b)'
<1> DEFINE K == CaseKey(S)
<1>0. Sending(r, S, u, id, j)
  BY DEF Awaiting
<1>1. /\ CaseFits(S, u, id) /\ PlaceFits(S, u, id) /\ j \in 1..Len(S) /\ j \in 1..4
      /\ req[r].method = S[j].method /\ req[r].key = K /\ u \in Names
      /\ K = Root => S[j].method \in {"GET", "HEAD", "OPTIONS"}
      /\ K \in {Root} \cup Keys(u)
  BY <1>0, SendingFacts
<1>2. S[j].method = "DELETE" /\ store' = Remove(store, K) /\ UNCHANGED req
  BY <1>1 DEF handle_delete, Handles, Reaches
<1>3. K # Root /\ (K \in DOMAIN store <=> Present(S, j - 1))
  BY <1>1, <1>2 DEF Awaiting, Housed
<1>4. PICK st \in {204, 404} :
        Reply(r, Plain(st)) /\ st = IF Present(S, j - 1) THEN 204 ELSE 404
  BY <1>1, <1>3 DEF handle_delete
<1>5. Plain(st).status = st /\ Plain(st) \in Response
  BY DEF Plain, Answer, Response
<1>6. pc'[r] = "done" /\ resp'[r] = Plain(st) /\ Plain(st) # None
  BY <1>4, <1>5, Replies, SentinelAssumption
<1>7. Right(S, id, j, Plain(st), b, HeadersOf(r)')
  <2>1. PICK h : h = HeadersOf(r)'
    OBVIOUS
  <2>2. Right(S, id, j, Plain(st), b, h)
    BY <1>1, <1>2, <1>4, <1>5, RightOfPlain
  <2>3. QED
    BY <2>1, <2>2
<1>8. Housed(S, u, id, j)'
  <2>1. ~Present(S, j)
    BY <1>1, <1>2, PresenceSteps
  <2>2. /\ DOMAIN store' = DOMAIN store \ {K}
    BY <1>2 DEF Remove
  <2>3. K = Document(<<u, File>>) => K # Container(<<u>>)
    BY DEF Document, Container
  <2>4. S[1].method = "PUT" => j >= 2
    BY <1>1, <1>2
  <2>5. id = <<"containers", 3>> =>
          /\ j = 3 /\ K = Container(<<u>>)
          /\ \A q : Document(<<u, q>>) # K
    <3>1. PICK l \in 1..4 : l = Len(S)
      BY <1>1 DEF CaseFits
    <3>2. j \in 1..l
      BY <1>1, <3>1
    <3>3. id = <<"containers", 3>> => j = 3 /\ K = Container(<<u>>)
      BY <1>1, <1>2, <3>1, <3>2 DEF PlaceFits
    <3>4. \A q : Document(<<u, q>>) # Container(<<u>>)
      BY DEF Document, Container
    <3>5. QED
      BY <3>3, <3>4
  <2>6. QED
    BY <1>1, <1>3, <2>1, <2>2, <2>3, <2>4, <2>5 DEF Housed, Awaiting
<1>9. QED
  BY <1>2, <1>6, <1>7, <1>8 DEF Settled

LEMMA PutServed ==
  ASSUME TypeInv, NEW r \in Requests, NEW S, NEW u, NEW id, NEW j, NEW b,
         Awaiting(r, S, u, id, j, b), put(r), S[j].method = "PUT"
  PROVE  pc'[r] = "done" /\ Settled(r, S, u, id, j, b)'
<1> DEFINE K == CaseKey(S)
<1>1. Sending(r, S, u, id, j)
  BY DEF Awaiting
<1>2. /\ CaseFits(S, u, id) /\ PlaceFits(S, u, id)
      /\ j \in 1..Len(S) /\ j \in 1..4 /\ u \in Names
      /\ req[r].method = "PUT" /\ req[r].ctype = S[j].ctype
      /\ K = Root => S[j].method \in {"GET", "HEAD", "OPTIONS"}
  BY <1>1, SendingFacts
<1>3. target[r] = K
  <2>1. Place(r) = K
    BY <1>1, PutPlace
  <2>2. QED
    BY <1>1, <2>1 DEF Sending, put
<1>4. K # Root /\ (K \in DOMAIN store <=> Present(S, j - 1))
  BY <1>2 DEF Awaiting, Housed
<1>5. /\ store' = Insert(store, K, Fresh(S, j, r))
      /\ UNCHANGED req
  BY <1>2, <1>3 DEF put, Fresh
<1>6. PICK st \in {201, 204}, l \in {"none", "container", "resource"} :
        /\ Reply(r, Answer(st, l, None))
        /\ st = IF Present(S, j - 1) THEN 204 ELSE 201
  BY <1>2, <1>3, <1>4 DEF put, PutStatus, PutLink
<1>7. PICK a : a = Answer(st, l, None)
  OBVIOUS
<1>8. a.status = st /\ a # None
  <2>1. a.status = st /\ a \in Response
    BY <1>7 DEF Answer, Response
  <2>2. QED
    BY <2>1, SentinelAssumption
<1>9. pc'[r] = "done" /\ resp'[r] = a
  BY <1>6, <1>7, Replies
<1>10. Right(S, id, j, a, b, HeadersOf(r)')
  <2>1. PICK h : h = HeadersOf(r)'
    OBVIOUS
  <2>2. Right(S, id, j, a, b, h)
    BY <1>2, <1>6, <1>8, RightOfPlain
  <2>3. QED
    BY <2>1, <2>2
<1>11. store'[K] = Fresh(S, j, r) /\ DOMAIN store' = DOMAIN store \cup {K}
  BY <1>5 DEF Insert
<1>12. Housed(S, u, id, j)'
  <2>1. Present(S, j)
    BY <1>2, PresenceSteps
  <2>2. K = Document(<<u, File>>) =>
          /\ Container(<<u>>) \in DOMAIN store /\ S[1].method = "PUT"
    BY <1>2 DEF Awaiting, PlaceFits, put
  <2>3. id = <<"containers", 3>> => j = 1
    <3>1. PICK n \in 1..4 : n = Len(S)
      BY <1>2 DEF CaseFits
    <3>2. j \in 1..n
      BY <1>2, <3>1
    <3>3. QED
      BY <1>2, <3>1, <3>2 DEF PlaceFits
  <2>4. j - 1 >= 2 => j >= 2
    BY <1>2
  <2>5. Housed(S, u, id, j - 1)
    BY DEF Awaiting
  <2>6. \A k \in DOMAIN store' : Inside(k, u) =>
          \/ k = K
          \/ k = Container(<<u>>) /\ K = Document(<<u, File>>)
          \/ /\ id = <<"containers", 3>> /\ j >= 2
             /\ \E q \in Requests : k = Document(<<u, q>>)
    BY <1>11, <2>4, <2>5 DEF Housed
  <2> HIDE DEF K
  <2>7. QED
    BY <1>4, <1>11, <2>1, <2>2, <2>3, <2>6 DEF Housed, K
<1>13. QED
  BY <1>8, <1>9, <1>10, <1>11, <1>12 DEF Settled

LEMMA PostServed ==
  ASSUME TypeInv, NEW r \in Requests, NEW S, NEW u, NEW id, NEW j, NEW b,
         Awaiting(r, S, u, id, j, b), put(r), S[j].method = "POST"
  PROVE  pc'[r] = "done" /\ Settled(r, S, u, id, j, b)'
<1> DEFINE K == CaseKey(S)
           k == Document(<<u, r>>)
<1>1. Sending(r, S, u, id, j)
  BY DEF Awaiting
<1>2. /\ CaseFits(S, u, id) /\ PlaceFits(S, u, id)
      /\ j \in 1..Len(S) /\ u \in Names /\ req[r].method = "POST"
  BY <1>1, SendingFacts
<1>3. /\ j = 2 /\ id = <<"containers", 3>> /\ K = Container(<<u>>)
      /\ Place(r) = k
  BY <1>1, PostPlace
<1>4. target[r] = k
  BY <1>1, <1>3 DEF Sending, put
<1>5. /\ DOMAIN store' = DOMAIN store \cup {k} /\ UNCHANGED req
  BY <1>4 DEF put, Insert
<1>6. PICK l \in {"none", "container", "resource"} :
        Reply(r, Answer(201, l, None))
  <2>1. u \notin Unprintable /\ r \notin Unprintable
    BY <1>1, SlugAssumption DEF Sending, Sound
  <2>2. FitsHeader(target[r])
    BY <1>4, <2>1 DEF FitsHeader, Depth, Document
  <2>3. QED
    BY <1>2, <2>2 DEF put, PutStatus, PutLink
<1>7. PICK a : a = Answer(201, l, None)
  OBVIOUS
<1>8. a.status = 201 /\ a # None
  <2>1. a.status = 201 /\ a \in Response
    BY <1>7 DEF Answer, Response
  <2>2. QED
    BY <2>1, SentinelAssumption
<1>9. pc'[r] = "done" /\ resp'[r] = a
  BY <1>6, <1>7, Replies
<1>10. HeadersOf(r)' = {"location"}
  BY <1>2, <1>5, <1>8, <1>9 DEF HeadersOf
<1>11. Right(S, id, j, a, b, {"location"})
  BY <1>2, <1>8, RightOfPost
<1>12. Housed(S, u, id, j)'
  <2>1. Housed(S, u, id, 1)
    BY <1>3 DEF Awaiting
  <2>2. /\ \A q : Document(<<u, q>>) # K
        /\ \A q \in Requests : Inside(Document(<<u, q>>), u)
        /\ \A q : Document(<<u, q>>) = k => q = r
        /\ K # Root /\ K # Document(<<u, File>>)
    BY <1>2, <1>3, KeysOfCase, SlugAssumption
  <2>3. Present(S, 2) <=> Present(S, 1)
    BY <1>3, PresenceSteps
  <2>4. \A q \in Requests : Document(<<u, q>>) \notin DOMAIN store
    BY <2>1, <2>2 DEF Housed
  <2>5. K \in DOMAIN store' <=> Present(S, 2)
    BY <1>5, <2>1, <2>2, <2>3 DEF Housed
  <2>6. \A x \in DOMAIN store' : Inside(x, u) =>
          x = K \/ \E q \in Requests : x = Document(<<u, q>>)
    BY <1>5, <2>1, <2>2 DEF Housed
  <2>7. \A q \in Requests : Document(<<u, q>>) \in DOMAIN store' <=> q = r
    BY <1>5, <2>2, <2>4
  <2> HIDE DEF k
  <2>8. QED
    BY <1>3, <2>2, <2>5, <2>6, <2>7 DEF Housed
<1>13. QED
  BY <1>8, <1>9, <1>10, <1>11, <1>12 DEF Settled

LEMMA EnsureServed ==
  ASSUME TypeInv, NEW r \in Requests, NEW S, NEW u, NEW id, NEW j, NEW b,
         Awaiting(r, S, u, id, j, b), ensure_ancestors(r)
  PROVE  pc'[r] = "insert" /\ Awaiting(r, S, u, id, j, b)'
<1>1. Sending(r, S, u, id, j)
  BY DEF Awaiting
<1>2. ASSUME S[j].method = "POST"
      PROVE  /\ j = 2 /\ id = <<"containers", 3>>
             /\ CaseKey(S) = Container(<<u>>)
  <2>1. StepFits(S, j, id) /\ PlaceFits(S, u, id)
    BY <1>1, SendingFacts
  <2>2. QED
    BY <1>2, <2>1 DEF StepFits, PlaceFits
<1> DEFINE K == CaseKey(S)
           ks == EnsuredAncestors(Place(r))
<1>3. /\ CaseFits(S, u, id) /\ PlaceFits(S, u, id)
      /\ j \in 1..Len(S) /\ u \in Names /\ File \in Names
      /\ req[r].method = S[j].method
      /\ K = Root => S[j].method \in {"GET", "HEAD", "OPTIONS"}
  BY <1>1, SendingFacts
<1>4. S[j].method \in {"PUT", "POST"}
  BY <1>1, <1>3 DEF Sending, ensure_ancestors, Writes
<1>5. S[j].method \in {"PUT", "POST"} /\ target[r] = Place(r)
  BY <1>1, <1>4 DEF Sending, ensure_ancestors
<1>6. ks = IF S[j].method = "POST" \/ K = Document(<<u, File>>)
           THEN {Root, Container(<<u>>)} ELSE {Root}
  BY <1>1, <1>4, EnsuredOfStep
<1>7. store' = OrInsert(store, ks) /\ UNCHANGED <<req, target>>
  BY <1>5 DEF ensure_ancestors
<1> HIDE DEF ks
<1>8. /\ DOMAIN store' = DOMAIN store \cup ks
      /\ \A k \in DOMAIN store : store'[k] = store[k]
  BY <1>7 DEF OrInsert
<1>9. pc'[r] = "insert"
  BY DEF ensure_ancestors, Goto, TypeInv, TypeOK
<1>10. Housed(S, u, id, j - 1) /\ Root \in DOMAIN store
  BY DEF Awaiting
<1>11. K # Root /\ (K \in DOMAIN store <=> Present(S, j - 1))
  BY <1>3, <1>5, <1>10 DEF Housed
<1>12. \/ DOMAIN store' = DOMAIN store
       \/ /\ K = Document(<<u, File>>)
          /\ DOMAIN store' = DOMAIN store \cup {Container(<<u>>)}
  <2>1. CASE S[j].method = "POST"
    <3>1. PICK n \in 1..4 : n = Len(S)
      BY <1>3 DEF CaseFits
    <3>2. S[1].method = "PUT" /\ j - 1 = 1
      BY <1>3, <1>2, <2>1 DEF PlaceFits
    <3>3. K \in DOMAIN store
      BY <1>11, <3>2, PresenceSteps
    <3>4. QED
      BY <1>6, <1>2, <1>8, <1>10, <2>1, <3>3
  <2>2. CASE S[j].method # "POST" /\ K = Document(<<u, File>>)
    BY <1>6, <1>8, <1>10, <2>2
  <2>3. CASE S[j].method # "POST" /\ K # Document(<<u, File>>)
    <3>1. ks = {Root}
      BY <1>6, <2>3
    <3>2. DOMAIN store' = DOMAIN store \cup {Root}
      BY <1>8, <3>1
    <3>3. Root \in DOMAIN store
      BY <1>10
    <3>4. DOMAIN store \cup {Root} = DOMAIN store
      BY <3>3
    <3>5. QED
      BY <3>2, <3>4
  <2>4. QED
    BY <2>1, <2>2, <2>3
<1>13. Housed(S, u, id, j - 1)'
  <2>1. CASE DOMAIN store' = DOMAIN store
    BY <1>10, <2>1 DEF Housed
  <2>2. CASE /\ K = Document(<<u, File>>)
             /\ DOMAIN store' = DOMAIN store \cup {Container(<<u>>)}
    <3>1. S[j].method = "PUT" /\ S[1].method = "PUT"
      BY <1>3, <1>5, <1>2, <2>2 DEF PlaceFits, Document, Container
    <3>2. K # Container(<<u>>) /\ \A q : Document(<<u, q>>) # Container(<<u>>)
      BY <2>2 DEF Document, Container
    <3> HIDE DEF K
    <3>3. QED
      BY <1>10, <2>2, <3>1, <3>2 DEF Housed, K
  <2>3. QED
    BY <1>12, <2>1, <2>2
<1>14. Sending(r, S, u, id, j)'
  BY <1>1, <1>5, <1>7 DEF Sending, Place, ensure_ancestors
<1>15. Finds(S, j) => store'[K] = Fresh(S, j - 1, b)
  <2>1. ASSUME Finds(S, j) PROVE K \in DOMAIN store
    <3>1. PICK n \in 1..4 : n = Len(S)
      BY <1>3 DEF CaseFits
    <3>2. j - 1 \in Nat \ {0} /\ S[j - 1].method = "PUT"
      BY <1>3, <2>1, <3>1 DEF Finds
    <3>3. QED
      BY <1>11, <3>2, PresenceSteps
  <2>2. QED
    BY <1>8, <2>1 DEF Awaiting
<1>16. K = Document(<<u, File>>) => Container(<<u>>) \in DOMAIN store'
  BY <1>6, <1>8
<1>17. QED
  BY <1>8, <1>9, <1>10, <1>13, <1>14, <1>15, <1>16 DEF Awaiting

\* A step of the server on the way.
LEMMA OthersAwait ==
  ASSUME TypeInv, NEW r \in Requests, NEW S, NEW u, NEW id, NEW j, NEW b,
         Awaiting(r, S, u, id, j, b), Admit(r) \/ ReadBody(r)
  PROVE  pc'[r] \in {"handler", "ensure"} /\ Awaiting(r, S, u, id, j, b)'
<1>1. Sending(r, S, u, id, j)
  BY DEF Awaiting
<1>2. pc'[r] \in {"handler", "ensure"} /\ UNCHANGED <<store, req>>
  BY DEF Admit, ReadBody, Goto, TypeInv, TypeOK
<1>3. pc'[r] \in {"ensure", "insert"} =>
        req[r].method \in Writes /\ target'[r] = Place(r)
  BY DEF Admit, ReadBody, Handles, Reaches, Goto, Place, TypeInv, TypeOK
<1>4. Sending(r, S, u, id, j)'
  BY <1>1, <1>2, <1>3 DEF Sending, Place
<1>5. Housed(S, u, id, j - 1)'
  BY <1>2 DEF Awaiting, Housed
<1>6. QED
  BY <1>2, <1>4, <1>5 DEF Awaiting

\* Whatever the server does of an awaited request.
LEMMA AwaitedServed ==
  ASSUME TypeInv, NEW r \in Requests, NEW S, NEW u, NEW id, NEW j, NEW b,
         Awaiting(r, S, u, id, j, b), ServerStep(r),
         waiting[r[1]], r = Current(r[1])
  PROVE  \/ pc'[r] = "done" /\ Settled(r, S, u, id, j, b)'
         \/ /\ pc'[r] \in {"handler", "ensure", "insert"}
            /\ Awaiting(r, S, u, id, j, b)'
<1>1. /\ Granted(req[r]) /\ WellFormed(S[j]) /\ req[r].method = S[j].method
      /\ req[r].spelling = "verbatim"
  <2>1. Sending(r, S, u, id, j)
    BY DEF Awaiting
  <2>2. /\ StepFits(S, j, id) /\ Granted(req[r]) /\ req[r].method = S[j].method
        /\ req[r].spelling = "verbatim"
    BY <2>1, SendingFacts
  <2>3. QED
    BY <2>2 DEF StepFits
<1>2. /\ ~Deny(r) /\ ~PermissionReaderFails(r) /\ ~path_rejected(r)
      /\ ~MethodNotAllowed(r)
  BY <1>1, SuitesAssumption
  DEF Deny, PermissionReaderFails, path_rejected, MethodNotAllowed, Handles,
      Reaches, WellFormed
<1>3. \/ Admit(r) \/ ReadBody(r) \/ Read(r) \/ ensure_ancestors(r) \/ put(r)
      \/ handle_delete(r) \/ handle_options(r) \/ handle_patch(r)
  BY <1>2 DEF ServerStep, Connection, Serve, Authorization
<1>4. CASE Admit(r) \/ ReadBody(r)
  BY <1>4, OthersAwait
<1>5. CASE Read(r)
  <2>1. S[j].method \in {"GET", "HEAD"}
    BY <1>1, <1>5
    DEF Read, not_found, not_acceptable, handle_get, handle_head, Handles,
        Reaches, Reads
  <2>2. QED
    BY <1>5, <2>1, GetServed, HeadServed
<1>6. CASE ensure_ancestors(r)
  BY <1>6, EnsureServed
<1>7. CASE put(r)
  <2>1. S[j].method \in {"PUT", "POST"}
    BY <1>1, <1>7 DEF Awaiting, Sending, put, Writes
  <2>2. QED
    BY <1>7, <2>1, PutServed, PostServed
<1>8. CASE handle_delete(r)
  BY <1>8, DeleteServed
<1>9. CASE handle_options(r) \/ handle_patch(r)
  BY <1>9, OthersServed
<1>10. QED
  BY <1>3, <1>4, <1>5, <1>6, <1>7, <1>8, <1>9

-----------------------------------------------------------------------------
(*                     What the runners rely on                            *)

TimedOut(c, id) == \E b \in BOOLEAN : <<id, b>> \in slow[c]

\* Runner c is about to take step j of a case, or waits for the answer to it.
Doing(c, S, u, id, j) ==
  IF ~waiting[c]
  THEN /\ Housed(S, u, id, j - 1)
       /\ Finds(S, j) => store[CaseKey(S)] = Fresh(S, j - 1, Current(c))
  ELSE IF pc[Current(c)] = "done"
  THEN Settled(Current(c), S, u, id, j, <<c, sent[c] - 1>>)
  ELSE Awaiting(Current(c), S, u, id, j, <<c, sent[c] - 1>>)

\* The n-th case of runner c before, while and after it is run.
Position(c, n, S, u, id) ==
  /\ n < at[c].case =>
       /\ id \in failed[c] <=> id \in Refused \/ <<id, FALSE>> \in slow[c]
       /\ TimedOut(c, id) \/ Housed(S, u, id, Ending(id, S))
  /\ n = at[c].case => /\ at[c].step \in 1..Ending(id, S)
                       /\ Doing(c, S, u, id, at[c].step)
  /\ n >= at[c].case => id \notin failed[c] /\ ~TimedOut(c, id)

\* A request belongs to a step of a case begun; it is over, or awaited, or
\* given up, and then its case has timed out.
Asked(r, c, n, S, u, id, j) ==
  /\ n <= at[c].case /\ Sending(r, S, u, id, j)
  /\ pc[r] \in {"done", "lost"} \/ TimedOut(c, id) \/ (waiting[c] /\ r = Current(c))
Asking(r) ==
  LET c == r[1] IN
  /\ pc[r] = "new" <=> r[2] > sent[c]
  /\ pc[r] # "new" =>
       \E n \in 1..Len(Cases(c)), j \in 1..4 :
         Asked(r, c, n, Steps(c, n), Uuid(c, n), Id(c, n), j)

\* What is in the store was put there for a case begun.
Owned ==
  \A k \in DOMAIN store :
    \/ k = Root
    \/ \E c \in Runners : \E n \in 1..Len(Cases(c)) :
         n <= at[c].case /\ Inside(k, Uuid(c, n))

RunInv ==
  /\ Root \in DOMAIN store /\ Owned
  /\ \A r \in Requests : Asking(r)
  /\ \A c \in Runners : \A n \in 1..Len(Cases(c)) :
       Position(c, n, Steps(c, n), Uuid(c, n), Id(c, n))

LEMMA SameCases ==
  ASSUME UNCHANGED selected, NEW c, NEW n
  PROVE  /\ Cases(c)' = Cases(c) /\ Id(c, n)' = Id(c, n)
         /\ Steps(c, n)' = Steps(c, n) /\ Uuid(c, n)' = Uuid(c, n)
BY DEF Cases, Id, Steps, Uuid

\* No two cases share a UUID.
LEMMA UuidsDistinct ==
  ASSUME selected \in [Runners -> Selections], NEW c \in Runners, NEW d \in Runners,
         NEW m \in 1..Len(Cases(c)), NEW n \in 1..Len(Cases(d)),
         Uuid(c, m) = Uuid(d, n)
  PROVE  c = d /\ m = n
<1>1. CasesKnown(c) /\ CasesKnown(d)
  BY CasesAreKnown
<1>2. /\ Id(c, m) = <<Id(c, m)[1], Id(c, m)[2]>>
      /\ Id(d, n) = <<Id(d, n)[1], Id(d, n)[2]>>
  BY <1>1 DEF CasesKnown
<1>3. c = d /\ Id(c, m) = Id(d, n)
  BY <1>2 DEF Uuid
<1>4. QED
  BY <1>1, <1>3 DEF CasesKnown

\* What a PUT has put is there.
LEMMA PutThere ==
  ASSUME NEW S, NEW u, NEW id, Sound(S, u, id), NEW j \in 1..Len(S),
         S[j].method = "PUT", Housed(S, u, id, j)
  PROVE  CaseKey(S) \in DOMAIN store /\ Inside(CaseKey(S), u)
<1>1. PICK l \in 1..4 : l = Len(S)
  BY DEF Sound, CaseFits
<1>2. StepFits(S, j, id) /\ PlaceFits(S, u, id) /\ u \in Names /\ File \in Names
  BY DEF Sound, CaseFits
<1>3. CaseKey(S) # Root /\ CaseKey(S) \in Keys(u)
  BY <1>2 DEF StepFits, PlaceFits
<1>4. Present(S, j)
  BY <1>1, PresenceSteps
<1>5. QED
  BY <1>2, <1>3, <1>4, KeysOfCase DEF Housed, Keys

LEMMA FindsThere ==
  ASSUME NEW S, NEW u, NEW id, Sound(S, u, id), NEW j \in 1..Len(S),
         Finds(S, j), Housed(S, u, id, j - 1)
  PROVE  CaseKey(S) \in DOMAIN store /\ Inside(CaseKey(S), u)
<1>1. PICK l \in 1..4 : l = Len(S)
  BY DEF Sound, CaseFits
<1>2. j - 1 \in 1..Len(S) /\ S[j - 1].method = "PUT"
  BY <1>1 DEF Finds
<1>3. QED
  BY <1>2, PutThere

\* The number of steps taken of a case.
LEMMA Endings ==
  ASSUME NEW S, NEW u, NEW id, Sound(S, u, id)
  PROVE  /\ Ending(id, S) \in 1..4 /\ Len(S) \in 1..4
         /\ \A j \in 1..Ending(id, S) : j \in 1..Len(S)
<1>1. PICK l \in 1..4 : l = Len(S)
  BY DEF Sound, CaseFits
<1>2. id \in Refused => l = 3
  BY <1>1 DEF Sound, CaseFits, PlaceFits
<1>3. QED
  BY <1>1, <1>2 DEF Ending

-----------------------------------------------------------------------------
(*                     Steps of the server                                 *)

LEMMA ServerMoves ==
  ASSUME TypeInv, NEW r \in Requests, ServerStep(r)
  PROVE  /\ req' = req /\ pc'[r] # "new"
         /\ \A q \in Requests \ {r} :
              pc'[q] = pc[q] /\ target'[q] = target[q] /\ resp'[q] = resp[q]
<1>1. pc[r] # "new"
  BY DEF ServerStep
<1>2. QED
  BY <1>1 DEF ServerStep, Connection, Serve, Authorization, Read, ReadBody, BodyFails,
      Disconnect, PermissionReaderFails, Deny, Admit, path_rejected, not_found,
      not_acceptable, handle_get, handle_head, ensure_ancestors, put, handle_delete,
      handle_options, handle_patch, MethodNotAllowed, Reply, Goto, Handles,
      Reaches, TypeInv, TypeOK

LEMMA SendingStays ==
  ASSUME TypeInv, NEW r \in Requests, ServerStep(r),
         NEW S, NEW u, NEW id, NEW j, Sending(r, S, u, id, j)
  PROVE  Sending(r, S, u, id, j)'
<1>1. req' = req
  BY ServerMoves
<1>2. CASE ReadBody(r)
  <2>1. req[r].method \in Writes /\ target'[r] = Place(r)
    BY <1>2 DEF ReadBody, Handles, Reaches, Place, TypeInv, TypeOK
  <2>2. QED
    BY <1>1, <2>1 DEF Sending, Place
<1>3. CASE ensure_ancestors(r)
  <2>1. pc[r] = "ensure" /\ target' = target
    BY <1>3 DEF ensure_ancestors
  <2>2. QED
    BY <1>1, <2>1 DEF Sending, Place
<1>4. CASE ~ReadBody(r) /\ ~ensure_ancestors(r)
  <2>1. pc'[r] \notin {"ensure", "insert"}
    BY <1>4 DEF ServerStep, Connection, Serve, Authorization, Read, BodyFails,
      Disconnect, PermissionReaderFails, Deny, Admit, path_rejected, not_found,
      not_acceptable, handle_get, handle_head, put, handle_delete,
      handle_options, handle_patch, MethodNotAllowed, Reply, Goto,
      TypeInv, TypeOK
  <2>2. QED
    BY <1>1, <2>1 DEF Sending
<1>5. QED
  BY <1>2, <1>3, <1>4

\* A case of which the step does not touch the keys, nor the awaited request.
LEMMA DoingElsewhere ==
  ASSUME TypeInv, NEW r \in Requests, ServerStep(r), Root \in DOMAIN store',
         NEW d \in Runners, NEW S, NEW u, NEW id, NEW j,
         j \in 1..Len(S), Sound(S, u, id), Doing(d, S, u, id, j),
         \A k : Inside(k, u) =>
           /\ k \in DOMAIN store' <=> k \in DOMAIN store
           /\ k \in DOMAIN store => store'[k] = store[k],
         waiting[d] => r # Current(d) /\ Current(d) \in Requests
  PROVE  Doing(d, S, u, id, j)'
<1>1. waiting'[d] = waiting[d] /\ sent' = sent /\ Current(d)' = Current(d)
  BY ServerSteps DEF Current
<1>2. \A p : Housed(S, u, id, p) => Housed(S, u, id, p)'
  BY HousedElsewhere
<1>3. u \in Names /\ Inside(Container(<<u>>), u)
  BY KeysOfCase DEF Sound
<1>4. CASE ~waiting[d]
  <2>1. /\ Housed(S, u, id, j - 1)
        /\ Finds(S, j) => store[CaseKey(S)] = Fresh(S, j - 1, Current(d))
    BY <1>4 DEF Doing
  <2>2. Finds(S, j) => store'[CaseKey(S)] = Fresh(S, j - 1, Current(d))
    BY <2>1, FindsThere
  <2>3. QED
    BY <1>1, <1>2, <1>4, <2>1, <2>2 DEF Doing
<1>5. ASSUME waiting[d]
      PROVE  Doing(d, S, u, id, j)'
  <2>1. PICK q \in Requests : q = Current(d)
    BY <1>5
  <2>2. PICK b : q = Current(d) /\ b = <<d, sent[d] - 1>>
    BY <2>1
  <2>3. /\ q # r /\ req'[q] = req[q] /\ pc'[q] = pc[q]
        /\ target'[q] = target[q] /\ resp'[q] = resp[q]
    BY <1>5, <2>2, ServerMoves
  <2>4. CASE pc[q] = "done"
    <3>1. Settled(q, S, u, id, j, b)
      BY <1>5, <2>2, <2>4 DEF Doing
    <3>2. HeadersOf(q)' = HeadersOf(q)
      BY <2>3 DEF HeadersOf
    <3>3. Housed(S, u, id, j)'
      BY <1>2, <3>1 DEF Settled
    <3>4. S[j].method = "PUT" => store'[CaseKey(S)] = Fresh(S, j, q)
      BY <3>1, PutThere DEF Settled
    <3>5. Settled(q, S, u, id, j, b)'
      BY <2>3, <3>1, <3>2, <3>3, <3>4 DEF Settled
    <3>6. QED
      BY <1>1, <1>5, <2>2, <2>3, <2>4, <3>5 DEF Doing
  <2>5. CASE pc[q] # "done"
    <3>1. Awaiting(q, S, u, id, j, b)
      BY <1>5, <2>2, <2>5 DEF Doing
    <3>2. Sending(q, S, u, id, j)'
      <4>1. Sending(q, S, u, id, j)
        BY <3>1 DEF Awaiting
      <4>2. QED
        BY <2>3, <4>1 DEF Sending, Place
    <3>3. Housed(S, u, id, j - 1)'
      BY <1>2, <3>1 DEF Awaiting
    <3>4. Finds(S, j) => store'[CaseKey(S)] = Fresh(S, j - 1, b)
      BY <3>1, FindsThere DEF Awaiting
    <3>5. pc[q] = "insert" /\ CaseKey(S) = Document(<<u, File>>) =>
            Container(<<u>>) \in DOMAIN store'
      BY <1>3, <3>1 DEF Awaiting
    <3>6. Awaiting(q, S, u, id, j, b)'
      BY <2>3, <3>2, <3>3, <3>4, <3>5 DEF Awaiting
    <3>7. QED
      BY <1>1, <1>5, <2>2, <2>3, <2>5, <3>6 DEF Doing
  <2>6. QED
    BY <2>4, <2>5
<1>6. QED
  BY <1>4, <1>5

LEMMA PositionElsewhere ==
  ASSUME TypeInv, NEW r \in Requests, ServerStep(r), Root \in DOMAIN store',
         NEW d \in Runners, NEW n \in Nat, NEW S, NEW u, NEW id,
         Sound(S, u, id), Position(d, n, S, u, id),
         \A k : Inside(k, u) =>
           /\ k \in DOMAIN store' <=> k \in DOMAIN store
           /\ k \in DOMAIN store => store'[k] = store[k],
         n = at[d].case /\ waiting[d] => r # Current(d) /\ Current(d) \in Requests
  PROVE  Position(d, n, S, u, id)'
<1>1. UNCHANGED <<at, failed, slow>>
  BY ServerSteps
<1>2. Housed(S, u, id, Ending(id, S)) => Housed(S, u, id, Ending(id, S))'
  BY HousedElsewhere
<1>3. TimedOut(d, id)' <=> TimedOut(d, id)
  BY <1>1 DEF TimedOut
<1>4. ASSUME n = at[d].case
      PROVE  Doing(d, S, u, id, at[d].step)'
  <2>1. PICK j \in 1..Ending(id, S) : j = at[d].step
    BY <1>4 DEF Position
  <2>2. j \in 1..Len(S)
    BY Endings
  <2>3. Doing(d, S, u, id, j)
    BY <1>4, <2>1 DEF Position
  <2>4. Doing(d, S, u, id, j)'
    BY <1>4, <2>2, <2>3, DoingElsewhere
  <2>5. QED
    BY <1>1, <2>1, <2>4
<1>5. QED
  BY <1>1, <1>2, <1>3, <1>4 DEF Position

\* Request r, on which the server works, belongs to step j of the m-th case.
Moves(r, c, m, S, u, id, j) ==
  /\ S = Steps(c, m) /\ u = Uuid(c, m) /\ id = Id(c, m)
  /\ m <= at[c].case /\ Sending(r, S, u, id, j)
  /\ \/ /\ m = at[c].case /\ j = at[c].step
        /\ waiting[c] /\ r = Current(c)
        /\ Awaiting(r, S, u, id, j, <<c, sent[c] - 1>>)
     \/ ~(waiting[c] /\ r = Current(c)) /\ TimedOut(c, id)

LEMMA ServerKeeps ==
  ASSUME SuitesTypeInv, RunInv, NEW r \in Requests, ServerStep(r)
  PROVE  RunInv'
<1> DEFINE c == r[1]
<1>1. /\ TypeInv /\ selected \in [Runners -> Selections]
      /\ \A d \in Runners : waiting[d] => Current(d) \in Requests /\ ~Finished(d)
      /\ \A d \in Runners : at[d].case \in 1..Len(Cases(d)) + 1
  BY DEF SuitesTypeInv, SuitesTypeOK, TypeInv, Underway
<1>2. UNCHANGED <<selected, at, waiting, sent, failed, slow>>
  BY <1>1, ServerSteps
<1>3. c \in Runners /\ pc[r] \notin {"new", "done", "lost"}
  BY SuitesAssumption DEF ServerStep
<1>4. /\ \A d : Cases(d)' = Cases(d)
      /\ \A d, n : Id(d, n)' = Id(d, n) /\ Steps(d, n)' = Steps(d, n)
                   /\ Uuid(d, n)' = Uuid(d, n)
  BY <1>2, SameCases
<1>5. CasesKnown(c)
  BY <1>1, <1>3, CasesAreKnown
<1>6. PICK l \in 0..42 : l = Len(Cases(c))
  BY <1>5 DEF CasesKnown
<1>7. PICK m \in 1..l, j \in 1..4 : \E S, u, id : Moves(r, c, m, S, u, id, j)
  <2>1. CASE waiting[c] /\ r = Current(c)
    <3>1. PICK m \in 1..l : m = at[c].case
      BY <1>1, <1>3, <1>6, <2>1 DEF Finished
    <3>2. PICK S, u, id : S = Steps(c, m) /\ u = Uuid(c, m) /\ id = Id(c, m)
      OBVIOUS
    <3>3. Sound(S, u, id)
      BY <1>1, <1>3, <1>6, <3>2, CasesAreSound
    <3>4. Position(c, m, S, u, id)
      BY <1>3, <1>6, <3>2 DEF RunInv
    <3>5. PICK j \in 1..Ending(id, S) : j = at[c].step
      BY <3>1, <3>4 DEF Position
    <3>6. j \in 1..4
      <4>1. PICK e \in 1..4 : e = Ending(id, S)
        BY <3>3, Endings
      <4>2. QED
        BY <4>1
    <3>7. Awaiting(r, S, u, id, j, <<c, sent[c] - 1>>)
      BY <1>3, <2>1, <3>1, <3>4, <3>5 DEF Position, Doing
    <3>8. Sending(r, S, u, id, j)
      BY <3>7 DEF Awaiting
    <3>9. Moves(r, c, m, S, u, id, j)
      BY <2>1, <3>1, <3>2, <3>5, <3>7, <3>8 DEF Moves
    <3>10. QED
      BY <3>6, <3>9
  <2>2. CASE ~(waiting[c] /\ r = Current(c))
    BY <1>3, <1>6, <2>2 DEF RunInv, Asking, Asked, Moves
  <2>3. QED
    BY <2>1, <2>2
<1>8. PICK S, u, id : Moves(r, c, m, S, u, id, j)
  BY <1>7
<1>9. /\ S = Steps(c, m) /\ u = Uuid(c, m) /\ id = Id(c, m)
      /\ m <= at[c].case /\ Sending(r, S, u, id, j)
      /\ \/ /\ m = at[c].case /\ j = at[c].step
            /\ waiting[c] /\ r = Current(c)
            /\ Awaiting(r, S, u, id, j, <<c, sent[c] - 1>>)
         \/ ~(waiting[c] /\ r = Current(c)) /\ TimedOut(c, id)
  BY <1>8 DEF Moves
<1>10. Root \in DOMAIN store
  BY DEF RunInv
<1>11. /\ Root \in DOMAIN store'
       /\ \A k \in DOMAIN store' : k \in DOMAIN store \/ k = Root \/ Inside(k, u)
       /\ \A k \in DOMAIN store :
            Inside(k, u) \/ (k \in DOMAIN store' /\ store'[k] = store[k])
  BY <1>1, <1>9, <1>10, Confined
<1>12. Sound(S, u, id)
  BY <1>1, <1>3, <1>6, <1>9, CasesAreSound
<1>13. Owned'
  <2>1. ASSUME NEW k \in DOMAIN store', k # Root
        PROVE  \E d \in Runners : \E n \in 1..Len(Cases(d)) :
                 n <= at[d].case /\ Inside(k, Uuid(d, n))
    BY <1>3, <1>6, <1>9, <1>11, <2>1 DEF RunInv, Owned
  <2>2. QED
    BY <1>2, <1>4, <2>1 DEF Owned
<1>14. ASSUME NEW d \in Runners, NEW n \in 1..Len(Cases(d))
       PROVE  Position(d, n, Steps(d, n), Uuid(d, n), Id(d, n))'
  <2>1. PICK T, v, i : T = Steps(d, n) /\ v = Uuid(d, n) /\ i = Id(d, n)
    OBVIOUS
  <2>2. Sound(T, v, i) /\ n \in Nat
    <3>1. PICK k \in 0..42 : k = Len(Cases(d))
      BY <1>1, CasesAreKnown DEF CasesKnown
    <3>2. n \in Nat
      BY <3>1
    <3>3. QED
      BY <1>1, <2>1, <3>2, CasesAreSound
  <2>3. Position(d, n, T, v, i)
    BY <2>1 DEF RunInv
  <2>4. CASE v # u
    <3>1. \A k : Inside(k, v) => /\ k \in DOMAIN store' <=> k \in DOMAIN store
                                 /\ k \in DOMAIN store => store'[k] = store[k]
      BY <1>10, <1>11, <2>4 DEF Inside
    <3>2. n = at[d].case /\ waiting[d] => r # Current(d) /\ Current(d) \in Requests
      <4>1. ASSUME n = at[d].case, waiting[d], r = Current(d) PROVE FALSE
        <5>1. d = c
          BY <4>1 DEF Current
        <5>2. m = at[c].case
          BY <1>9, <4>1, <5>1
        <5>3. QED
          BY <1>9, <2>1, <2>4, <4>1, <5>1, <5>2
      <4>2. QED
        BY <1>1, <4>1
    <3>3. Position(d, n, T, v, i)'
      BY <1>1, <1>11, <2>2, <2>3, <3>1, <3>2, PositionElsewhere
    <3>4. QED
      BY <1>4, <2>1, <3>3
  <2>5. CASE v = u
    <3>1. d = c /\ n = m
      BY <1>1, <1>3, <1>6, <1>9, <2>1, <2>5, UuidsDistinct
    <3>2. T = S /\ i = id
      BY <1>9, <2>1, <3>1
    <3>3. CASE waiting[c] /\ r = Current(c)
      <4>1. PICK b : b = <<c, sent[c] - 1>>
        OBVIOUS
      <4>2. /\ m = at[c].case /\ j = at[c].step
            /\ Awaiting(r, S, u, id, j, b)
        BY <1>9, <3>3, <4>1
      <4>3. \/ pc'[r] = "done" /\ Settled(r, S, u, id, j, b)'
            \/ /\ pc'[r] \in {"handler", "ensure", "insert"}
               /\ Awaiting(r, S, u, id, j, b)'
        BY <1>1, <3>3, <4>2, AwaitedServed
      <4>4. waiting'[c] /\ Current(c)' = r /\ b = <<c, sent'[c] - 1>>
        BY <1>2, <3>3, <4>1 DEF Current
      <4>5. Doing(c, S, u, id, j)'
        BY <4>3, <4>4 DEF Doing
      <4>6. Position(c, m, S, u, id)'
        <5>1. Position(c, m, S, u, id)
          BY <2>3, <2>5, <3>1, <3>2
        <5>2. ~(m < at[c].case)
          BY <4>2
        <5>3. QED
          BY <1>2, <4>2, <4>5, <5>1, <5>2 DEF Position, TimedOut
      <4>7. QED
        BY <1>4, <1>9, <3>1, <4>6
    <3>4. CASE ~(waiting[c] /\ r = Current(c))
      <4>1. TimedOut(c, id)
        BY <1>9, <3>4
      <4>2. Position(c, m, S, u, id)
        BY <2>3, <2>5, <3>1, <3>2
      <4>3. ~(m >= at[c].case)
        BY <4>1, <4>2 DEF Position
      <4>4. m # at[c].case
        BY <1>1, <1>3, <1>6, <4>3
      <4>5. Position(c, m, S, u, id)'
        BY <1>2, <4>1, <4>2, <4>3, <4>4 DEF Position, TimedOut
      <4>6. QED
        BY <1>4, <1>9, <3>1, <4>5
    <3>5. QED
      BY <3>3, <3>4
  <2>6. QED
    BY <2>4, <2>5
<1>15. ASSUME NEW q \in Requests PROVE Asking(q)'
  <2>1. CASE q # r
    <3>1. /\ pc'[q] = pc[q] /\ target'[q] = target[q] /\ req'[q] = req[q]
      BY <1>1, <2>1, ServerMoves
    <3>2. PICK d : d = q[1]
      OBVIOUS
    <3>3. Asking(q)
      BY DEF RunInv
    <3>4. Current(d)' = Current(d)
      BY <1>2 DEF Current
    <3>5. \A n, T, v, i, h : Asked(q, d, n, T, v, i, h) => Asked(q, d, n, T, v, i, h)'
      BY <1>2, <3>1, <3>4 DEF Asked, Sending, Place, TimedOut
    <3>6. QED
      BY <1>2, <1>4, <3>1, <3>2, <3>3, <3>5 DEF Asking
  <2>2. CASE q = r
    <3>1. pc'[r] # "new" /\ Sending(r, S, u, id, j)'
      BY <1>1, <1>9, ServerMoves, SendingStays
    <3>2. Current(c)' = Current(c)
      BY <1>2 DEF Current
    <3>3. Asked(r, c, m, S, u, id, j)'
      BY <1>2, <1>9, <3>1, <3>2 DEF Asked, TimedOut
    <3>4. pc[r] = "new" <=> r[2] > sent[c]
      BY DEF RunInv, Asking
    <3>5. QED
      BY <1>2, <1>3, <1>4, <1>6, <1>9, <2>2, <3>1, <3>3, <3>4 DEF Asking
  <2>3. QED
    BY <2>1, <2>2
<1>16. QED
  BY <1>4, <1>11, <1>13, <1>14, <1>15 DEF RunInv

-----------------------------------------------------------------------------
(*                     Steps of the runners                                *)

\* A case of which no step is taken has nothing in the store.
LEMMA HousedFresh ==
  ASSUME NEW S, NEW u, NEW id, Sound(S, u, id),
         \A k \in DOMAIN store : ~Inside(k, u)
  PROVE  Housed(S, u, id, 0)
<1>1. /\ u \in Names /\ File \in Names
      /\ CaseKey(S) = Root \/ CaseKey(S) \in Keys(u)
  BY DEF Sound, CaseFits, PlaceFits
<1>2. CaseKey(S) # Root => CaseKey(S) \notin DOMAIN store
  BY <1>1, KeysOfCase DEF Keys
<1>3. Container(<<u>>) \notin DOMAIN store
  BY <1>1, KeysOfCase
<1>4. ~Present(S, 0)
  BY DEF Present
<1>5. QED
  BY <1>2, <1>3, <1>4 DEF Housed

\* A runner that stands still, as does the request it waits for.
LEMMA PositionKept ==
  ASSUME NEW d \in Runners, NEW n, NEW S, NEW u, NEW id, Position(d, n, S, u, id),
         UNCHANGED store,
         at'[d] = at[d], waiting'[d] = waiting[d], sent'[d] = sent[d],
         failed'[d] = failed[d], slow'[d] = slow[d],
         waiting[d] =>
           LET r == Current(d) IN
           /\ pc'[r] = pc[r] /\ req'[r] = req[r]
           /\ target'[r] = target[r] /\ resp'[r] = resp[r]
  PROVE  Position(d, n, S, u, id)'
<1>1. PICK r, j, b : /\ r = Current(d) /\ j = at[d].step
                     /\ b = <<d, sent[d] - 1>>
  OBVIOUS
<1>2. Current(d)' = r /\ at'[d].step = j /\ b = <<d, sent'[d] - 1>>
  BY <1>1 DEF Current
<1>3. \A p : Housed(S, u, id, p)' <=> Housed(S, u, id, p)
  BY DEF Housed
<1>4. TimedOut(d, id)' <=> TimedOut(d, id)
  BY DEF TimedOut
<1>5. ASSUME Doing(d, S, u, id, j)
      PROVE  Doing(d, S, u, id, j)'
  <2>1. CASE ~waiting[d]
    BY <1>1, <1>2, <1>3, <1>5, <2>1 DEF Doing
  <2>2. CASE waiting[d] /\ pc[r] = "done"
    <3>1. Settled(r, S, u, id, j, b)
      BY <1>1, <1>5, <2>2 DEF Doing
    <3>2. HeadersOf(r)' = HeadersOf(r)
      BY <1>1, <2>2 DEF HeadersOf
    <3>3. Settled(r, S, u, id, j, b)'
      BY <1>1, <1>3, <2>2, <3>1, <3>2 DEF Settled
    <3>4. QED
      BY <1>1, <1>2, <2>2, <3>3 DEF Doing
  <2>3. CASE waiting[d] /\ pc[r] # "done"
    <3>1. Awaiting(r, S, u, id, j, b)
      BY <1>1, <1>5, <2>3 DEF Doing
    <3>2. Sending(r, S, u, id, j)'
      BY <1>1, <2>3, <3>1 DEF Awaiting, Sending, Place
    <3>3. Awaiting(r, S, u, id, j, b)'
      BY <1>1, <1>3, <2>3, <3>1, <3>2 DEF Awaiting
    <3>4. QED
      BY <1>1, <1>2, <2>3, <3>3 DEF Doing
  <2>4. QED
    BY <2>1, <2>2, <2>3
<1>6. QED
  BY <1>1, <1>2, <1>3, <1>4, <1>5 DEF Position

\* Runner c stands at step j of its n-th case.
Stands(c, n, j, S, u, id) ==
  /\ n = at[c].case /\ j = at[c].step /\ n \in Nat
  /\ S = Steps(c, n) /\ u = Uuid(c, n) /\ id = Id(c, n)
  /\ Case(c).steps = S /\ Case(c).id = id /\ Step(c) = S[j]
  /\ Sound(S, u, id) /\ Position(c, n, S, u, id)
  /\ j \in 1..Len(S) /\ j \in 1..Ending(id, S)
  /\ Doing(c, S, u, id, j)

LEMMA AtCase ==
  ASSUME SuitesTypeInv, RunInv, NEW c \in Runners, ~Finished(c)
  PROVE  \E n \in 1..Len(Cases(c)), j \in 1..4 :
           \E S, u, id : Stands(c, n, j, S, u, id)
<1>1. selected \in [Runners -> Selections]
  BY DEF SuitesTypeInv, SuitesTypeOK
<1>2. PICK l \in 0..42 : l = Len(Cases(c))
  BY <1>1, CasesAreKnown DEF CasesKnown
<1>3. PICK n \in 1..l : n = at[c].case
  BY <1>2 DEF SuitesTypeInv, Underway, Finished
<1>4. PICK S, u, id : S = Steps(c, n) /\ u = Uuid(c, n) /\ id = Id(c, n)
  OBVIOUS
<1>5. Sound(S, u, id) /\ Position(c, n, S, u, id)
  BY <1>1, <1>2, <1>4, CasesAreSound DEF RunInv
<1>6. PICK j \in 1..Ending(id, S) : j = at[c].step
  BY <1>3, <1>5 DEF Position
<1>7. j \in 1..Len(S) /\ j \in 1..4
  <2>1. PICK e \in 1..4 : e = Ending(id, S)
    BY <1>5, Endings
  <2>2. QED
    BY <1>5, <2>1, Endings
<1>8. Doing(c, S, u, id, j)
  BY <1>3, <1>5, <1>6 DEF Position
<1>9. Case(c).steps = S /\ Case(c).id = id /\ Step(c) = S[j]
  BY <1>3, <1>4, <1>6 DEF Case, Step, Steps, Id
<1>10. Stands(c, n, j, S, u, id)
  BY <1>2, <1>3, <1>4, <1>5, <1>6, <1>7, <1>8, <1>9 DEF Stands
<1>11. QED
  BY <1>2, <1>3, <1>7, <1>10

LEMMA SendKeeps ==
  ASSUME SuitesTypeInv, RunInv, NEW c \in Runners, Send(c)
  PROVE  RunInv'
<1>1. ~Finished(c) /\ ~waiting[c]
  BY DEF Send
<1>2. PICK n \in 1..Len(Cases(c)), j \in 1..4 : \E S, u, id : Stands(c, n, j, S, u, id)
  BY <1>1, AtCase
<1>3. PICK S, u, id : Stands(c, n, j, S, u, id)
  BY <1>2
<1>4. /\ n = at[c].case /\ j = at[c].step /\ n \in Nat
      /\ S = Steps(c, n) /\ u = Uuid(c, n) /\ id = Id(c, n)
      /\ Case(c).steps = S /\ Case(c).id = id /\ Step(c) = S[j]
      /\ Sound(S, u, id) /\ Position(c, n, S, u, id)
      /\ j \in 1..Len(S) /\ j \in 1..Ending(id, S)
      /\ Doing(c, S, u, id, j)
  BY <1>3 DEF Stands
<1>5. PICK x \in Nat, r \in Requests : x = sent[c] /\ r = <<c, x + 1>>
  BY SendArrives DEF SuitesTypeInv, SuitesTypeOK
<1>6. /\ pc' = [pc EXCEPT ![r] = "authz"] /\ req' = [req EXCEPT ![r] = Line(S[j])]
      /\ UNCHANGED <<store, target, resp, selected, at, failed, slow>>
      /\ waiting' = [waiting EXCEPT ![c] = TRUE]
      /\ sent' = [sent EXCEPT ![c] = x + 1]
  BY <1>4, <1>5, SendArrives
<1>7. /\ pc'[r] = "authz" /\ req'[r] = Line(S[j])
      /\ waiting'[c] /\ sent'[c] = x + 1
      /\ \A q \in Requests \ {r} : pc'[q] = pc[q] /\ req'[q] = req[q]
      /\ \A d \in Runners \ {c} : waiting'[d] = waiting[d] /\ sent'[d] = sent[d]
  BY <1>5, <1>6 DEF SuitesTypeInv, SuitesTypeOK, TypeOK
<1>8. /\ \A d : Cases(d)' = Cases(d)
      /\ \A d, m : Id(d, m)' = Id(d, m) /\ Steps(d, m)' = Steps(d, m)
                   /\ Uuid(d, m)' = Uuid(d, m)
  BY <1>6, SameCases
<1>9. Sending(r, S, u, id, j)'
  BY <1>4, <1>7 DEF Sending
<1>10. Root \in DOMAIN store' /\ Owned'
  BY <1>6, <1>8 DEF RunInv, Owned
<1>11. ASSUME NEW q \in Requests PROVE Asking(q)'
  <2>1. PICK d \in Runners, y \in Nat \ {0} : q = <<d, y>> /\ d = q[1] /\ y = q[2]
    BY SuitesAssumption
  <2>2. CASE q = r
    <3>1. d = c /\ y = x + 1
      BY <1>5, <2>1, <2>2
    <3>2. Current(c)' = r
      BY <1>5, <1>7 DEF Current
    <3>3. Asked(r, c, n, S, u, id, j)'
      BY <1>4, <1>6, <1>7, <1>9, <3>2 DEF Asked
    <3>4. pc'[q] # "new" /\ ~(q[2] > sent'[d])
      BY <1>7, <2>1, <2>2, <3>1
    <3>5. QED
      BY <1>4, <1>8, <2>1, <2>2, <3>1, <3>3, <3>4 DEF Asking
  <2>3. CASE q # r
    <3>1. Asking(q) /\ pc'[q] = pc[q] /\ req'[q] = req[q]
      BY <1>7, <2>3 DEF RunInv
    <3>2. \A m, T, v, i, h : Asked(q, d, m, T, v, i, h) => Asked(q, d, m, T, v, i, h)'
      <4>1. \A m, T, v, i, h : Sending(q, T, v, i, h) => Sending(q, T, v, i, h)'
        BY <1>6, <3>1 DEF Sending, Place
      <4>2. waiting[d] => waiting'[d] /\ Current(d)' = Current(d)
        BY <1>1, <1>7 DEF Current
      <4>3. QED
        BY <1>6, <3>1, <4>1, <4>2 DEF Asked, TimedOut
    <3>3. q[2] > sent'[d] <=> q[2] > sent[d]
      <4>1. CASE d = c
        <5>1. y # x + 1
          BY <1>5, <2>1, <2>3, <4>1
        <5>2. QED
          BY <1>5, <1>7, <2>1, <4>1, <5>1
      <4>2. CASE d # c
        BY <1>7, <4>2
      <4>3. QED
        BY <4>1, <4>2
    <3>4. QED
      BY <1>8, <2>1, <3>1, <3>2, <3>3 DEF Asking
  <2>4. QED
    BY <2>2, <2>3
<1>12. ASSUME NEW d \in Runners, NEW m \in 1..Len(Cases(d))
       PROVE  Position(d, m, Steps(d, m), Uuid(d, m), Id(d, m))'
  <2>1. PICK T, v, i : T = Steps(d, m) /\ v = Uuid(d, m) /\ i = Id(d, m)
    OBVIOUS
  <2>2. Position(d, m, T, v, i)
    BY <2>1 DEF RunInv
  <2>3. CASE d # c
    <3>1. waiting[d] => Current(d) \in Requests /\ Current(d) # r
      BY <1>5, <2>3 DEF SuitesTypeInv, Underway, Current
    <3>2. Position(d, m, T, v, i)'
      BY <1>6, <1>7, <2>2, <2>3, <3>1, PositionKept
    <3>3. QED
      BY <1>8, <2>1, <3>2
  <2>4. CASE d = c /\ m # n
    <3>1. Housed(T, v, i, Ending(i, T)) => Housed(T, v, i, Ending(i, T))'
      BY <1>6 DEF Housed
    <3>2. Position(d, m, T, v, i)'
      BY <1>4, <1>6, <2>2, <2>4, <3>1 DEF Position, TimedOut
    <3>3. QED
      BY <1>8, <2>1, <3>2
  <2>5. CASE d = c /\ m = n
    <3>1. T = S /\ v = u /\ i = id
      BY <1>4, <2>1, <2>5
    <3>2. PICK b : b = <<c, x>>
      OBVIOUS
    <3>3. /\ Housed(S, u, id, j - 1)
          /\ Finds(S, j) => store[CaseKey(S)] = Fresh(S, j - 1, b)
      BY <1>1, <1>4, <1>5, <3>2 DEF Doing, Current
    <3>4. Housed(S, u, id, j - 1)'
      BY <1>6, <3>3 DEF Housed
    <3>5. Awaiting(r, S, u, id, j, b)'
      BY <1>6, <1>7, <1>9, <1>10, <3>3, <3>4 DEF Awaiting
    <3>6. Current(c)' = r /\ b = <<c, sent'[c] - 1>>
      BY <1>5, <1>7, <3>2 DEF Current
    <3>7. Doing(c, S, u, id, j)'
      BY <1>7, <3>5, <3>6 DEF Doing
    <3>8. Position(c, n, S, u, id)'
      <4>1. /\ ~(n < at[c].case) /\ ~(at[c].case < n) /\ at[c].step = j
            /\ UNCHANGED <<at, failed, slow>>
        BY <1>4, <1>6
      <4>2. Position(c, n, S, u, id)
        BY <1>4
      <4>3. QED
        BY <1>4, <3>7, <4>1, <4>2 DEF Position, TimedOut
    <3>9. QED
      BY <1>8, <2>1, <2>5, <3>1, <3>8
  <2>6. QED
    BY <2>3, <2>4, <2>5
<1>13. QED
  BY <1>8, <1>10, <1>11, <1>12 DEF RunInv

\* What Advance does at step j of l of a case.
Moved(c, ok, n, j, l, id) ==
  /\ ok /\ j < l => at'[c].case = n /\ at'[c].step = j + 1
  /\ ~(ok /\ j < l) => at'[c].case = n + 1 /\ at'[c].step = 1
  /\ failed'[c] = (IF ok THEN failed[c] ELSE failed[c] \cup {id})
  /\ ~waiting'[c]
  /\ \A d \in Runners \ {c} : /\ at'[d] = at[d] /\ failed'[d] = failed[d]
                              /\ waiting'[d] = waiting[d]

LEMMA Advanced ==
  ASSUME SuitesTypeInv, NEW c \in Runners, NEW ok, Advance(c, ok),
         NEW n \in Nat, NEW j \in 1..4, NEW l \in 1..4, NEW id,
         n = at[c].case, j = at[c].step, l = Len(Case(c).steps), id = Case(c).id
  PROVE  Moved(c, ok, n, j, l, id)
<1>1. /\ at \in [Runners -> [case: Nat \ {0}, step: 1..4]]
      /\ failed \in [Runners -> SUBSET CaseIds] /\ waiting \in [Runners -> BOOLEAN]
  BY DEF SuitesTypeInv, SuitesTypeOK
<1>2. at' = [at EXCEPT ![c] = IF ok /\ j < l THEN [case |-> n, step |-> j + 1]
                                             ELSE [case |-> n + 1, step |-> 1]]
  <2>1. at' = [at EXCEPT ![c] =
                 IF ok /\ at[c].step < Len(Case(c).steps)
                 THEN [case |-> at[c].case, step |-> at[c].step + 1]
                 ELSE [case |-> at[c].case + 1, step |-> 1]]
    BY DEF Advance
  <2>2. QED
    BY <2>1
<1>3. failed' = [failed EXCEPT ![c] = IF ok THEN failed[c] ELSE failed[c] \cup {id}]
  BY DEF Advance
<1>4. waiting' = [waiting EXCEPT ![c] = FALSE]
  BY DEF Advance
<1>5. CASE ok /\ j < l
  <2>1. at' = [at EXCEPT ![c] = [case |-> n, step |-> j + 1]]
    BY <1>2, <1>5
  <2>2. QED
    BY <1>1, <1>3, <1>4, <1>5, <2>1 DEF Moved
<1>6. CASE ~(ok /\ j < l)
  <2>1. at' = [at EXCEPT ![c] = [case |-> n + 1, step |-> 1]]
    BY <1>2, <1>6
  <2>2. QED
    BY <1>1, <1>3, <1>4, <1>6, <2>1 DEF Moved
<1>7. QED
  BY <1>5, <1>6

\* The requests and the store stay as they are when a runner goes on.
LEMMA RunnerGoesOn ==
  ASSUME SuitesTypeInv, RunInv, NEW c \in Runners, UNCHANGED <<vars, selected, sent>>,
         NEW n \in 1..Len(Cases(c)), NEW S, NEW u, NEW id, NEW j \in 1..4,
         n = at[c].case, S = Steps(c, n), u = Uuid(c, n), id = Id(c, n),
         \A d \in Runners : at'[d].case \in Nat /\ at[d].case <= at'[d].case,
         \A d \in Runners : slow[d] \subseteq slow'[d],
         \A d \in Runners \ {c} : waiting'[d] = waiting[d],
         pc[Current(c)] = "done" \/ (TimedOut(c, id)' /\ Sending(Current(c), S, u, id, j))
  PROVE  /\ Root \in DOMAIN store' /\ Owned'
         /\ \A q \in Requests : Asking(q)'
<1>1. /\ selected \in [Runners -> Selections]
      /\ \A d \in Runners : at[d].case \in Nat
  BY DEF SuitesTypeInv, SuitesTypeOK
<1>2. /\ UNCHANGED <<selected, sent, store, pc, req, target, resp>>
      /\ \A d : Current(d)' = Current(d)
  BY DEF vars, Current
<1>3. /\ \A d : Cases(d)' = Cases(d)
      /\ \A d, m : Id(d, m)' = Id(d, m) /\ Steps(d, m)' = Steps(d, m)
                   /\ Uuid(d, m)' = Uuid(d, m)
  BY <1>2, SameCases
<1>4. \A d \in Runners : \A m \in 1..Len(Cases(d)) :
        m <= at[d].case => m <= at'[d].case
  <2>1. ASSUME NEW d \in Runners, NEW m \in 1..Len(Cases(d)), m <= at[d].case
        PROVE  m <= at'[d].case
    <3>1. PICK l \in 0..42 : l = Len(Cases(d))
      BY <1>1, CasesAreKnown DEF CasesKnown
    <3>2. m \in Nat
      BY <3>1
    <3>3. QED
      BY <1>1, <2>1, <3>2
  <2>2. QED
    BY <2>1
<1>5. Root \in DOMAIN store' /\ Owned'
  BY <1>2, <1>3, <1>4 DEF RunInv, Owned
<1>6. \A d \in Runners : \A i : TimedOut(d, i) => TimedOut(d, i)'
  BY DEF TimedOut
<1>7. ASSUME NEW q \in Requests PROVE Asking(q)'
  <2>1. PICK d \in Runners : d = q[1]
    BY SuitesAssumption
  <2>2. Asking(q)
    BY DEF RunInv
  <2>3. \A T, v, i, h : Sending(q, T, v, i, h) => Sending(q, T, v, i, h)'
    BY <1>2 DEF Sending, Place
  <2>4. ASSUME pc[q] # "new"
        PROVE  \E m \in 1..Len(Cases(d)), h \in 1..4 :
                 Asked(q, d, m, Steps(d, m), Uuid(d, m), Id(d, m), h)'
    <3>1. PICK m \in 1..Len(Cases(d)), h \in 1..4 :
            Asked(q, d, m, Steps(d, m), Uuid(d, m), Id(d, m), h)
      BY <2>1, <2>2, <2>4 DEF Asking
    <3>2. PICK T, v, i : T = Steps(d, m) /\ v = Uuid(d, m) /\ i = Id(d, m)
      OBVIOUS
    <3>3. Asked(q, d, m, T, v, i, h)
      BY <3>1, <3>2
    <3>4. m <= at'[d].case /\ Sending(q, T, v, i, h)'
      BY <1>4, <2>3, <3>3 DEF Asked
    <3>5. CASE d = c /\ q = Current(c) /\ pc[q] # "done"
      <4>1. TimedOut(c, id)' /\ Sending(q, S, u, id, j)'
        BY <2>3, <3>5
      <4>2. n <= at'[c].case
        OBVIOUS
      <4>3. Asked(q, c, n, S, u, id, j)'
        BY <4>1, <4>2 DEF Asked
      <4>4. QED
        BY <1>3, <3>5, <4>3
    <3>6. CASE ~(d = c /\ q = Current(c) /\ pc[q] # "done")
      <4>1. \/ pc[q] \in {"done", "lost"} \/ TimedOut(d, i)
            \/ (waiting[d] /\ q = Current(d) /\ d # c)
        BY <3>3, <3>6 DEF Asked
      <4>2. \/ pc'[q] \in {"done", "lost"} \/ TimedOut(d, i)'
            \/ (waiting'[d] /\ q = Current(d)')
        BY <1>2, <1>6, <4>1
      <4>3. Asked(q, d, m, T, v, i, h)'
        BY <3>4, <4>2 DEF Asked
      <4>4. QED
        BY <1>3, <3>2, <4>3
    <3>7. QED
      BY <3>5, <3>6
  <2>5. QED
    BY <1>2, <1>3, <2>1, <2>2, <2>4 DEF Asking
<1>8. QED
  BY <1>5, <1>7

\* A runner that goes on to its next case, after it was answered or gave up.
LEMMA NextCase ==
  ASSUME SuitesTypeInv, RunInv, NEW c \in Runners, waiting[c],
         UNCHANGED <<vars, selected, sent>>,
         NEW n \in 1..Len(Cases(c)), n \in Nat, NEW S, NEW u, NEW id, NEW j \in 1..4,
         n = at[c].case, S = Steps(c, n), u = Uuid(c, n), id = Id(c, n),
         at'[c].case = n + 1, at'[c].step = 1, ~waiting'[c],
         \A d \in Runners \ {c} : /\ at'[d] = at[d] /\ failed'[d] = failed[d]
                                  /\ waiting'[d] = waiting[d] /\ slow'[d] = slow[d],
         \A i : i # id => (i \in failed'[c] <=> i \in failed[c]),
         \A i, b : i # id => (<<i, b>> \in slow'[c] <=> <<i, b>> \in slow[c]),
         slow[c] \subseteq slow'[c],
         id \in failed'[c] <=> id \in Refused \/ <<id, FALSE>> \in slow'[c],
         TimedOut(c, id)' \/ Housed(S, u, id, Ending(id, S)),
         pc[Current(c)] = "done" \/ (TimedOut(c, id)' /\ Sending(Current(c), S, u, id, j))
  PROVE  RunInv'
<1>1. /\ selected \in [Runners -> Selections] /\ Current(c) \in Requests
      /\ \A d \in Runners : waiting[d] => Current(d) \in Requests
  BY DEF SuitesTypeInv, SuitesTypeOK, Underway
<1>2. /\ UNCHANGED <<selected, sent, store, pc, req, target, resp>>
      /\ \A d : Current(d)' = Current(d)
  BY DEF vars, Current
<1>3. /\ \A d : Cases(d)' = Cases(d)
      /\ \A d, m : Id(d, m)' = Id(d, m) /\ Steps(d, m)' = Steps(d, m)
                   /\ Uuid(d, m)' = Uuid(d, m)
  BY <1>2, SameCases
<1>4. /\ Root \in DOMAIN store' /\ Owned'
      /\ \A q \in Requests : Asking(q)'
  <2>1. \A d \in Runners : at'[d].case \in Nat /\ at[d].case <= at'[d].case
    <3>1. \A d \in Runners : at[d].case \in Nat
      BY DEF SuitesTypeInv, SuitesTypeOK
    <3>2. at'[c].case \in Nat /\ at[c].case <= at'[c].case
      OBVIOUS
    <3>3. QED
      BY <3>1, <3>2
  <2>2. \A d \in Runners : slow[d] \subseteq slow'[d]
    OBVIOUS
  <2>3. QED
    BY <2>1, <2>2, RunnerGoesOn
<1>5. \A T, v, i, p : Housed(T, v, i, p) => Housed(T, v, i, p)'
  BY <1>2 DEF Housed
<1>6. ASSUME NEW m \in 1..Len(Cases(c)), m # n
      PROVE  Position(c, m, Steps(c, m), Uuid(c, m), Id(c, m))'
  <2>1. PICK T, v, i : T = Steps(c, m) /\ v = Uuid(c, m) /\ i = Id(c, m)
    OBVIOUS
  <2>2. Position(c, m, T, v, i)
    BY <2>1 DEF RunInv
  <2>3. /\ m \in Nat /\ i # id
    <3>1. PICK l \in 0..42 : l = Len(Cases(c))
      BY <1>1, CasesAreKnown DEF CasesKnown
    <3>2. QED
      BY <1>1, <1>6, <2>1, <3>1, CasesAreKnown DEF CasesKnown
  <2>4. /\ i \in failed'[c] <=> i \in failed[c]
        /\ <<i, FALSE>> \in slow'[c] <=> <<i, FALSE>> \in slow[c]
        /\ TimedOut(c, i)' <=> TimedOut(c, i)
    BY <2>3 DEF TimedOut
  <2>5. CASE m < n
    <3>1. /\ m < at[c].case /\ m < at'[c].case
          /\ m # at'[c].case /\ ~(m >= at'[c].case)
      BY <2>3, <2>5
    <3>2. /\ i \in failed'[c] <=> i \in Refused \/ <<i, FALSE>> \in slow'[c]
          /\ TimedOut(c, i)' \/ Housed(T, v, i, Ending(i, T))'
      BY <1>5, <2>2, <2>4, <3>1 DEF Position
    <3>3. Position(c, m, T, v, i)'
      BY <3>1, <3>2 DEF Position
    <3>4. QED
      BY <1>3, <2>1, <3>3
  <2>6. CASE m > n
    <3>1. i \notin failed'[c] /\ ~TimedOut(c, i)'
      BY <2>2, <2>4, <2>6, <2>3 DEF Position
    <3>2. ~(m < at'[c].case) /\ (m = at'[c].case => m = n + 1)
      BY <2>3, <2>6
    <3>3. Sound(T, v, i)
      BY <1>1, <2>1, CasesAreSound
    <3>4. \A k \in DOMAIN store : ~Inside(k, v)
      <4>1. ASSUME NEW k \in DOMAIN store, Inside(k, v) PROVE FALSE
        <5>1. k # Root
          BY <3>3, <4>1, KeysOfCase DEF Sound
        <5>2. PICK d \in Runners : \E y \in 1..Len(Cases(d)) :
                y <= at[d].case /\ Inside(k, Uuid(d, y))
          BY <5>1 DEF RunInv, Owned
        <5>3. PICK y \in 1..Len(Cases(d)) :
                y <= at[d].case /\ Inside(k, Uuid(d, y))
          BY <5>2
        <5>4. d = c /\ y = m
          <6>1. Uuid(c, m) = Uuid(d, y)
            BY <2>1, <4>1, <5>3 DEF Inside
          <6>2. QED
            BY <1>1, <6>1, UuidsDistinct
        <5>5. QED
          BY <2>3, <2>6, <5>3, <5>4
      <4>2. QED
        BY <4>1
    <3>5. Housed(T, v, i, 1 - 1)'
      <4>1. Housed(T, v, i, 0)
        BY <3>3, <3>4, HousedFresh
      <4>2. Housed(T, v, i, 1 - 1)
        BY <4>1
      <4>3. QED
        BY <1>5, <4>2
    <3>6. Doing(c, T, v, i, 1)'
      BY <3>5 DEF Doing, Finds
    <3>7. 1 \in 1..Ending(i, T)
      <4>1. PICK e \in 1..4 : e = Ending(i, T)
        BY <3>3, Endings
      <4>2. QED
        BY <4>1
    <3>8. Position(c, m, T, v, i)'
      BY <3>1, <3>2, <3>6, <3>7 DEF Position
    <3>9. QED
      BY <1>3, <2>1, <3>8
  <2>7. QED
    BY <1>6, <2>3, <2>5, <2>6
<1>7. Position(c, n, S, u, id)'
  BY <1>5 DEF Position
<1>8. ASSUME NEW d \in Runners, NEW m \in 1..Len(Cases(d))
       PROVE  Position(d, m, Steps(d, m), Uuid(d, m), Id(d, m))'
  <2>1. CASE d # c
    <3>1. PICK T, v, i : T = Steps(d, m) /\ v = Uuid(d, m) /\ i = Id(d, m)
      OBVIOUS
    <3>2. Position(d, m, T, v, i)
      BY <3>1 DEF RunInv
    <3>3. Position(d, m, T, v, i)'
      BY <1>2, <2>1, <3>2, PositionKept
    <3>4. QED
      BY <1>3, <3>1, <3>3
  <2>2. CASE d = c
    BY <1>3, <1>6, <1>7, <2>2
  <2>3. QED
    BY <2>1, <2>2
<1>9. QED
  BY <1>3, <1>4, <1>8 DEF RunInv

\* Which body a step expects.
LEMMA BodyExpected ==
  ASSUME NEW S, NEW u, NEW id, CaseFits(S, u, id), NEW j \in 1..Len(S),
         ~S[j].cleanup
  PROVE  S[j].body \in {None, Empty, j - 1}
<1>1. CASE id \in Refused /\ j = 2
  BY <1>1 DEF CaseFits, PlaceFits
<1>2. CASE ~(id \in Refused /\ j = 2)
  <2>1. Modest(S, j) /\ WellFormed(S[j])
    BY <1>2, RefusedSteps DEF CaseFits, StepFits
  <2>2. QED
    BY <2>1 DEF Modest, Undemanding, WellFormed
<1>3. QED
  BY <1>1, <1>2

\* The verdict on an answered step.
LEMMA Judged ==
  ASSUME SuitesTypeInv, NEW c \in Runners, NEW S, NEW u, NEW id, NEW j \in 1..4,
         j \in 1..Len(S), Sound(S, u, id), Step(c) = S[j], j = at[c].step,
         Settled(Current(c), S, u, id, j, <<c, sent[c] - 1>>)
  PROVE  (Step(c).cleanup \/ Satisfied(c)) <=> ~(id \in Refused /\ j = 2)
<1> DEFINE s == S[j]
           x == IF s.body = Empty THEN Empty ELSE SentBy(c, s.body)
           y == IF s.body = Empty THEN Empty ELSE <<c, sent[c] - 1>>
<1>1. PICK a, h : a = resp[Current(c)] /\ h = HeadersOf(Current(c))
  OBVIOUS
<1>2. Satisfied(c) <=> Meets(s, a, x, h)
  BY <1>1 DEF Satisfied, Meets
<1>3. (s.cleanup \/ Meets(s, a, y, h)) <=> ~(id \in Refused /\ j = 2)
  BY <1>1 DEF Settled, Right
<1>4. ASSUME ~s.cleanup
      PROVE  s.body # None => x = y
  <2>1. s.body \in {None, Empty, j - 1}
    BY <1>4, BodyExpected DEF Sound
  <2>2. SentBy(c, j - 1) = <<c, sent[c] - 1>>
    <3>1. sent[c] - j + (j - 1) = sent[c] - 1
      BY DEF SuitesTypeInv, SuitesTypeOK
    <3>2. QED
      BY <3>1 DEF SentBy
  <2>3. QED
    BY <2>1, <2>2
<1> HIDE DEF x, y
<1>5. ~s.cleanup => (Meets(s, a, x, h) <=> Meets(s, a, y, h))
  BY <1>4 DEF Meets
<1>6. QED
  BY <1>2, <1>3, <1>5

LEMMA ProceedKeeps ==
  ASSUME SuitesTypeInv, RunInv, NEW c \in Runners, Proceed(c)
  PROVE  RunInv'
<1>1. /\ waiting[c] /\ resp[Current(c)] # None
      /\ UNCHANGED <<vars, selected, sent, slow>>
      /\ Current(c) \in Requests /\ ~Finished(c)
  BY DEF Proceed, SuitesTypeInv, Underway
<1>2. PICK n \in 1..Len(Cases(c)), j \in 1..4 : \E S, u, id : Stands(c, n, j, S, u, id)
  BY <1>1, AtCase
<1>3. PICK S, u, id : Stands(c, n, j, S, u, id)
  BY <1>2
<1>4. /\ n = at[c].case /\ j = at[c].step /\ n \in Nat
      /\ S = Steps(c, n) /\ u = Uuid(c, n) /\ id = Id(c, n)
      /\ Case(c).steps = S /\ Case(c).id = id /\ Step(c) = S[j]
      /\ Sound(S, u, id) /\ Position(c, n, S, u, id)
      /\ j \in 1..Len(S) /\ j \in 1..Ending(id, S)
      /\ Doing(c, S, u, id, j)
  BY <1>3 DEF Stands
<1>5. PICK l \in 1..4 : l = Len(S)
  BY <1>4, Endings
<1>6. pc[Current(c)] = "done"
  BY <1>1 DEF SuitesTypeInv, Phases
<1>7. Settled(Current(c), S, u, id, j, <<c, sent[c] - 1>>)
  BY <1>1, <1>4, <1>6 DEF Doing
<1>8. PICK ok \in BOOLEAN : ok <=> ~(id \in Refused /\ j = 2)
  OBVIOUS
<1>9. Advance(c, ok)
  <2>1. (Step(c).cleanup \/ Satisfied(c)) <=> ok
    BY <1>4, <1>7, <1>8, Judged
  <2>2. Advance(c, Step(c).cleanup \/ Satisfied(c))
    BY DEF Proceed
  <2>3. QED
    BY <2>1, <2>2 DEF Advance
<1>10. /\ ok /\ j < l => at'[c].case = n /\ at'[c].step = j + 1
       /\ ~(ok /\ j < l) => at'[c].case = n + 1 /\ at'[c].step = 1
       /\ failed'[c] = (IF ok THEN failed[c] ELSE failed[c] \cup {id})
       /\ ~waiting'[c]
       /\ \A d \in Runners \ {c} : /\ at'[d] = at[d] /\ failed'[d] = failed[d]
                                   /\ waiting'[d] = waiting[d]
  <2>1. /\ n \in Nat /\ n = at[c].case /\ j = at[c].step
        /\ l = Len(Case(c).steps) /\ id = Case(c).id
    BY <1>4, <1>5
  <2>2. Moved(c, ok, n, j, l, id)
    BY <1>9, <2>1, Advanced
  <2>3. QED
    BY <2>2 DEF Moved
<1>11. id \in Refused => l = 3
  BY <1>4, <1>5 DEF Sound, CaseFits, PlaceFits
<1>12. id \notin failed[c] /\ ~TimedOut(c, id)
  BY <1>4 DEF Position
<1>13. CASE ok /\ j < l
  <2>1. /\ Root \in DOMAIN store' /\ Owned'
        /\ \A q \in Requests : Asking(q)'
    <3>1. \A d \in Runners : at'[d].case \in Nat /\ at[d].case <= at'[d].case
      <4>1. \A d \in Runners : at[d].case \in Nat
        BY DEF SuitesTypeInv, SuitesTypeOK
      <4>2. at'[c].case \in Nat /\ at[c].case <= at'[c].case
        BY <1>4, <1>10, <1>13
      <4>3. QED
        BY <1>10, <4>1, <4>2
    <3>2. \A d \in Runners : slow[d] \subseteq slow'[d]
      BY <1>1
    <3>3. QED
      BY <1>1, <1>4, <1>6, <1>10, <3>1, <3>2, RunnerGoesOn
  <2>2. UNCHANGED <<selected, sent, slow, store, pc, req, target, resp>>
    BY <1>1 DEF vars
  <2>3. /\ \A d : Cases(d)' = Cases(d)
        /\ \A d, m : Id(d, m)' = Id(d, m) /\ Steps(d, m)' = Steps(d, m)
                     /\ Uuid(d, m)' = Uuid(d, m)
    BY <2>2, SameCases
  <2>4. \A T, v, i, p : Housed(T, v, i, p) => Housed(T, v, i, p)'
    BY <2>2 DEF Housed
  <2>5. ASSUME NEW d \in Runners, NEW m \in 1..Len(Cases(d))
        PROVE  Position(d, m, Steps(d, m), Uuid(d, m), Id(d, m))'
    <3>1. PICK T, v, i : T = Steps(d, m) /\ v = Uuid(d, m) /\ i = Id(d, m)
      OBVIOUS
    <3>2. Position(d, m, T, v, i)
      BY <3>1 DEF RunInv
    <3>3. CASE d # c
      <4>1. Position(d, m, T, v, i)'
        BY <1>10, <2>2, <3>2, <3>3, PositionKept
      <4>2. QED
        BY <2>3, <3>1, <4>1
    <3>4. CASE d = c /\ m # n
      <4>1. Position(d, m, T, v, i)'
        BY <1>4, <1>10, <1>13, <2>2, <2>4, <3>2, <3>4 DEF Position, TimedOut
      <4>2. QED
        BY <2>3, <3>1, <4>1
    <3>5. CASE d = c /\ m = n
      <4>1. Housed(S, u, id, j)' /\ j + 1 - 1 = j
        BY <1>7, <2>4 DEF Settled
      <4>2. Finds(S, j + 1) => store'[CaseKey(S)] = Fresh(S, j, Current(c)')
        <5>1. S[j].method = "PUT" => store[CaseKey(S)] = Fresh(S, j, Current(c))
          BY <1>7 DEF Settled
        <5>2. QED
          BY <2>2, <4>1, <5>1 DEF Finds, Current
      <4>3. Doing(c, S, u, id, j + 1)'
        BY <1>10, <4>1, <4>2 DEF Doing
      <4>4. j + 1 \in 1..Ending(id, S)
        BY <1>4, <1>5, <1>8, <1>11, <1>13 DEF Ending
      <4>5. /\ at'[c].case = n /\ at'[c].step = j + 1 /\ ~(n < at'[c].case)
            /\ id \notin failed'[c] /\ slow' = slow
        BY <1>4, <1>10, <1>12, <1>13, <2>2
      <4>6. Position(c, n, S, u, id)'
        BY <1>12, <4>3, <4>4, <4>5 DEF Position, TimedOut
      <4>7. QED
        BY <1>4, <2>3, <3>5, <4>6
    <3>6. QED
      BY <3>3, <3>4, <3>5
  <2>6. QED
    BY <2>1, <2>3, <2>5 DEF RunInv
<1>14. CASE ~(ok /\ j < l)
  <2>1. j = Ending(id, S)
    BY <1>4, <1>5, <1>8, <1>11, <1>14 DEF Ending
  <2>2. Housed(S, u, id, Ending(id, S))
    BY <1>7, <2>1 DEF Settled
  <2>3. id \in failed'[c] <=> id \in Refused \/ <<id, FALSE>> \in slow'[c]
    <3>1. <<id, FALSE>> \notin slow'[c]
      BY <1>1, <1>12 DEF TimedOut
    <3>2. id \in Refused <=> ~ok
      BY <1>8, <2>1 DEF Ending
    <3>3. QED
      BY <1>10, <1>12, <3>1, <3>2
  <2>4. /\ at'[c].case = n + 1 /\ at'[c].step = 1
        /\ \A i : i # id => (i \in failed'[c] <=> i \in failed[c])
        /\ \A i, b : i # id => (<<i, b>> \in slow'[c] <=> <<i, b>> \in slow[c])
        /\ \A d \in Runners \ {c} : slow'[d] = slow[d]
        /\ slow[c] \subseteq slow'[c]
    BY <1>1, <1>10, <1>14
  <2>5. /\ n = at[c].case /\ n \in Nat
        /\ S = Steps(c, n) /\ u = Uuid(c, n) /\ id = Id(c, n)
    BY <1>4
  <2>6. /\ waiting[c] /\ UNCHANGED <<vars, selected, sent>>
        /\ ~waiting'[c]
        /\ \A d \in Runners \ {c} : /\ at'[d] = at[d] /\ failed'[d] = failed[d]
                                    /\ waiting'[d] = waiting[d] /\ slow'[d] = slow[d]
    BY <1>1, <1>10
  <2>7. TimedOut(c, id)' \/ Housed(S, u, id, Ending(id, S))
    BY <2>2
  <2>8. pc[Current(c)] = "done" \/ (TimedOut(c, id)' /\ Sending(Current(c), S, u, id, j))
    BY <1>6
  <2>9. QED
    BY <2>3, <2>4, <2>5, <2>6, <2>7, <2>8, NextCase
<1>15. QED
  BY <1>13, <1>14

LEMMA TimeOutKeeps ==
  ASSUME SuitesTypeInv, RunInv, NEW c \in Runners, TimeOut(c)
  PROVE  RunInv'
<1>1. /\ waiting[c] /\ UNCHANGED <<vars, selected, sent>>
      /\ Current(c) \in Requests /\ ~Finished(c)
      /\ slow \in [Runners -> SUBSET (CaseIds \X BOOLEAN)]
  BY DEF TimeOut, SuitesTypeInv, SuitesTypeOK, Underway
<1>2. PICK n \in 1..Len(Cases(c)), j \in 1..4 : \E S, u, id : Stands(c, n, j, S, u, id)
  BY <1>1, AtCase
<1>3. PICK S, u, id : Stands(c, n, j, S, u, id)
  BY <1>2
<1>4. /\ n = at[c].case /\ j = at[c].step /\ n \in Nat
      /\ S = Steps(c, n) /\ u = Uuid(c, n) /\ id = Id(c, n)
      /\ Case(c).steps = S /\ Case(c).id = id /\ Step(c) = S[j]
      /\ Sound(S, u, id) /\ Position(c, n, S, u, id)
      /\ j \in 1..Len(S) /\ j \in 1..Ending(id, S)
      /\ Doing(c, S, u, id, j)
  BY <1>3 DEF Stands
<1>5. PICK l \in 1..4 : l = Len(S)
  BY <1>4, Endings
<1>6. PICK ok \in BOOLEAN : ok = S[j].cleanup
  BY <1>4 DEF Sound, CaseFits, StepFits
<1>7. Advance(c, ok) /\ slow' = [slow EXCEPT ![c] = slow[c] \cup {<<id, ok>>}]
  BY <1>4, <1>6 DEF TimeOut
<1>8. /\ ok => j = l /\ id \notin Refused
  <2>1. ok => j = l
    BY <1>4, <1>5, <1>6 DEF Sound, CaseFits, StepFits
  <2>2. id \in Refused => l = 3
    BY <1>4, <1>5 DEF Sound, CaseFits, PlaceFits
  <2>3. QED
    BY <1>4, <2>1, <2>2 DEF Ending
<1>9. /\ at'[c].case = n + 1 /\ at'[c].step = 1
      /\ failed'[c] = (IF ok THEN failed[c] ELSE failed[c] \cup {id})
      /\ ~waiting'[c]
      /\ \A d \in Runners \ {c} : /\ at'[d] = at[d] /\ failed'[d] = failed[d]
                                  /\ waiting'[d] = waiting[d]
  <2>1. /\ n \in Nat /\ n = at[c].case /\ j = at[c].step
        /\ l = Len(Case(c).steps) /\ id = Case(c).id
    BY <1>4, <1>5
  <2>2. Moved(c, ok, n, j, l, id)
    BY <1>7, <2>1, Advanced
  <2>3. ~(ok /\ j < l)
    BY <1>8
  <2>4. QED
    BY <2>2, <2>3 DEF Moved
<1>10. id \notin failed[c] /\ ~TimedOut(c, id)
  BY <1>4 DEF Position
<1>11. /\ slow'[c] = slow[c] \cup {<<id, ok>>}
       /\ \A d \in Runners \ {c} : slow'[d] = slow[d]
  BY <1>1, <1>7
<1>12. TimedOut(c, id)'
  BY <1>11 DEF TimedOut
<1>13. id \in failed'[c] <=> id \in Refused \/ <<id, FALSE>> \in slow'[c]
  BY <1>8, <1>9, <1>10, <1>11 DEF TimedOut
<1>14. /\ \A i : i # id => (i \in failed'[c] <=> i \in failed[c])
       /\ \A i, b : i # id => (<<i, b>> \in slow'[c] <=> <<i, b>> \in slow[c])
       /\ slow[c] \subseteq slow'[c]
  BY <1>9, <1>11
<1>15. pc[Current(c)] = "done" \/ Sending(Current(c), S, u, id, j)
  <2>1. waiting[c] /\ Doing(c, S, u, id, j)
    BY <1>1, <1>4
  <2>2. QED
    BY <2>1 DEF Doing, Awaiting
<1>16. /\ n = at[c].case /\ n \in Nat
       /\ S = Steps(c, n) /\ u = Uuid(c, n) /\ id = Id(c, n)
  BY <1>4
<1>17. /\ waiting[c] /\ UNCHANGED <<vars, selected, sent>>
       /\ at'[c].case = n + 1 /\ at'[c].step = 1 /\ ~waiting'[c]
       /\ \A d \in Runners \ {c} : /\ at'[d] = at[d] /\ failed'[d] = failed[d]
                                   /\ waiting'[d] = waiting[d] /\ slow'[d] = slow[d]
  BY <1>1, <1>9, <1>11
<1>18. TimedOut(c, id)' \/ Housed(S, u, id, Ending(id, S))
  BY <1>12
<1>19. pc[Current(c)] = "done" \/ (TimedOut(c, id)' /\ Sending(Current(c), S, u, id, j))
  BY <1>12, <1>15
<1>20. QED
  BY <1>13, <1>14, <1>16, <1>17, <1>18, <1>19, NextCase

-----------------------------------------------------------------------------
(*                              The runs                                   *)

LEMMA RunInit == SuitesInit => RunInv
<1> SUFFICES ASSUME SuitesInit PROVE RunInv
  OBVIOUS
<1>1. /\ DOMAIN store = {Root} /\ pc = [r \in Requests |-> "new"]
      /\ selected \in [Runners -> Selections]
      /\ \A c \in Runners : /\ at[c].case = 1 /\ at[c].step = 1 /\ ~waiting[c]
                            /\ sent[c] = 0 /\ failed[c] = {} /\ slow[c] = {}
  BY DEF SuitesInit, Init
<1>2. \A r \in Requests : Asking(r)
  <2>1. \A r \in Requests : r[1] \in Runners /\ r[2] > 0
    BY SuitesAssumption
  <2>2. QED
    BY <1>1, <2>1 DEF Asking
<1>3. ASSUME NEW c \in Runners, NEW n \in 1..Len(Cases(c))
      PROVE  Position(c, n, Steps(c, n), Uuid(c, n), Id(c, n))
  <2>1. PICK S, u, id : S = Steps(c, n) /\ u = Uuid(c, n) /\ id = Id(c, n)
    OBVIOUS
  <2>2. Sound(S, u, id)
    BY <1>1, <2>1, CasesAreSound
  <2>3. n \in Nat \ {0}
    <3>1. PICK l \in 0..42 : l = Len(Cases(c))
      BY <1>1, CasesAreKnown DEF CasesKnown
    <3>2. QED
      BY <3>1
  <2>4. Housed(S, u, id, 1 - 1)
    <3>1. \A k \in DOMAIN store : ~Inside(k, u)
      BY <1>1, <2>2, KeysOfCase DEF Sound
    <3>2. Housed(S, u, id, 0)
      BY <2>2, <3>1, HousedFresh
    <3>3. QED
      BY <3>2
  <2>5. Doing(c, S, u, id, 1)
    BY <1>1, <2>4 DEF Doing, Finds
  <2>6. 1 \in 1..Ending(id, S)
    <3>1. PICK e \in 1..4 : e = Ending(id, S)
      BY <2>2, Endings
    <3>2. QED
      BY <3>1
  <2>7. /\ ~(n < at[c].case) /\ at[c].step = 1
        /\ id \notin failed[c] /\ ~TimedOut(c, id)
    <3>1. /\ at[c].case = 1 /\ at[c].step = 1
          /\ failed[c] = {} /\ slow[c] = {}
      BY <1>1
    <3>2. ~(n < 1)
      BY <2>3
    <3>3. ~TimedOut(c, id)
      BY <3>1 DEF TimedOut
    <3>4. QED
      BY <3>1, <3>2, <3>3
  <2>8. Position(c, n, S, u, id)
    BY <2>5, <2>6, <2>7 DEF Position
  <2>9. QED
    BY <2>1, <2>8
<1>4. QED
  BY <1>1, <1>2, <1>3 DEF RunInv, Owned

LEMMA RunStep == SuitesTypeInv /\ RunInv /\ [SuitesNext]_allVars => RunInv'
<1> SUFFICES ASSUME SuitesTypeInv, RunInv, [SuitesNext]_allVars PROVE RunInv'
  OBVIOUS
<1>1. ASSUME NEW c \in Runners, Send(c) PROVE RunInv'
  BY <1>1, SendKeeps
<1>2. ASSUME NEW c \in Runners, Proceed(c) PROVE RunInv'
  BY <1>2, ProceedKeeps
<1>3. ASSUME NEW c \in Runners, TimeOut(c) PROVE RunInv'
  BY <1>3, TimeOutKeeps
<1>4. ASSUME NEW r \in Requests, ServerStep(r) PROVE RunInv'
  BY <1>4, ServerKeeps
<1>5. CASE UNCHANGED allVars
  <2>1. UNCHANGED <<store, pc, req, target, resp, auto,
                    selected, at, waiting, sent, failed, slow>>
    BY <1>5 DEF allVars, vars, runner
  <2>2. /\ \A d : Cases(d)' = Cases(d) /\ Current(d)' = Current(d)
        /\ \A d, m : Id(d, m)' = Id(d, m) /\ Steps(d, m)' = Steps(d, m)
                     /\ Uuid(d, m)' = Uuid(d, m)
    BY <2>1, SameCases DEF Current
  <2>3. ASSUME NEW c \in Runners, NEW n \in 1..Len(Cases(c))
        PROVE  Position(c, n, Steps(c, n), Uuid(c, n), Id(c, n))'
    <3>1. PICK S, u, id : S = Steps(c, n) /\ u = Uuid(c, n) /\ id = Id(c, n)
      OBVIOUS
    <3>2. Position(c, n, S, u, id)
      BY <3>1 DEF RunInv
    <3>3. Position(c, n, S, u, id)'
      BY <2>1, <3>2, PositionKept
    <3>4. QED
      BY <2>2, <3>1, <3>3
  <2>4. ASSUME NEW r \in Requests PROVE Asking(r)'
    <3>1. Asking(r)
      BY DEF RunInv
    <3>2. \A S, u, id, j : Sending(r, S, u, id, j) => Sending(r, S, u, id, j)'
      BY <2>1 DEF Sending, Place
    <3>3. \A c, n, S, u, id, j :
            Asked(r, c, n, S, u, id, j) => Asked(r, c, n, S, u, id, j)'
      BY <2>1, <2>2, <3>2 DEF Asked, TimedOut
    <3>4. QED
      BY <2>1, <2>2, <3>1, <3>3 DEF Asking
  <2>5. Root \in DOMAIN store' /\ Owned'
    BY <2>1, <2>2 DEF RunInv, Owned
  <2>6. QED
    BY <2>2, <2>3, <2>4, <2>5 DEF RunInv
<1>6. QED
  BY <1>1, <1>2, <1>3, <1>4, <1>5, SuitesSteps

LEMMA RunCorrect == SuitesSpec => [](SuitesTypeInv /\ RunInv)
<1>1. SuitesInit => SuitesTypeInv /\ RunInv
  BY SuitesTypeInit, RunInit
<1>2. SuitesTypeInv /\ RunInv /\ [SuitesNext]_allVars => (SuitesTypeInv /\ RunInv)'
  BY SuitesTypeStep, RunStep
<1>3. QED
  BY <1>1, <1>2, PTL DEF SuitesSpec

\* The cases that are over, as the theorems speak of them.
LEMMA CaseOver ==
  ASSUME SuitesTypeInv, RunInv, NEW c \in Runners, NEW n \in 1..at[c].case - 1
  PROVE  \E S, u, id :
           /\ n \in 1..Len(Cases(c)) /\ n \in Nat
           /\ S = Steps(c, n) /\ id = Id(c, n) /\ id = <<id[1], id[2]>>
           /\ u = <<c, id[1], id[2]>> /\ u = Uuid(c, n)
           /\ Sound(S, u, id)
           /\ id \in failed[c] <=> id \in Refused \/ <<id, FALSE>> \in slow[c]
           /\ TimedOut(c, id) \/ Housed(S, u, id, Ending(id, S))
<1>1. selected \in [Runners -> Selections]
  BY DEF SuitesTypeInv, SuitesTypeOK
<1>2. PICK l \in 0..42 : l = Len(Cases(c))
  BY <1>1, CasesAreKnown DEF CasesKnown
<1>3. PICK m \in 1..l + 1 : m = at[c].case
  BY <1>2 DEF SuitesTypeInv, Underway
<1>4. n \in 1..l /\ n < m
  BY <1>2, <1>3
<1>5. PICK S, u, id : S = Steps(c, n) /\ u = Uuid(c, n) /\ id = Id(c, n)
  OBVIOUS
<1>6. Sound(S, u, id) /\ Position(c, n, S, u, id)
  BY <1>1, <1>2, <1>4, <1>5, CasesAreSound DEF RunInv
<1>7. id = <<id[1], id[2]>>
  BY <1>1, <1>2, <1>4, <1>5, CasesAreKnown DEF CasesKnown
<1>8. /\ id \in failed[c] <=> id \in Refused \/ <<id, FALSE>> \in slow[c]
      /\ TimedOut(c, id) \/ Housed(S, u, id, Ending(id, S))
  BY <1>3, <1>4, <1>6 DEF Position
<1>9. n \in 1..Len(Cases(c)) /\ n \in Nat
  BY <1>2, <1>4
<1>10. u = <<c, id[1], id[2]>>
  BY <1>5 DEF Uuid
<1>11. QED
  BY <1>5, <1>6, <1>7, <1>8, <1>9, <1>10

(***************************************************************************)
(* Every case that is over is reported as "not ok" if and only if it is    *)
(* one of the two of wac that this server cannot pass, or a request of it  *)
(* timed out before its cleanup: runners do not disturb one another.       *)
(***************************************************************************)
THEOREM VerdictsRight == SuitesSpec => []Verdicts
<1>1. SuitesTypeInv /\ RunInv => Verdicts
  <2> SUFFICES ASSUME SuitesTypeInv, RunInv, NEW c \in Runners,
                      NEW n \in 1..at[c].case - 1
               PROVE  LET id == Cases(c)[n].id IN
                        id \in failed[c] <=>
                          \/ id \in {<<"wac", 2>>, <<"wac", 3>>}
                          \/ <<id, FALSE>> \in slow[c]
    BY DEF Verdicts
  <2>1. PICK id : /\ id = Id(c, n)
                  /\ id \in failed[c] <=> id \in Refused \/ <<id, FALSE>> \in slow[c]
    BY CaseOver
  <2>2. QED
    BY <2>1 DEF Id, Refused
<1>2. QED
  BY <1>1, RunCorrect, PTL

(***************************************************************************)
(* The documents of a case that passed are gone, whatever timed-out        *)
(* requests of other cases the server still carries out.                   *)
(***************************************************************************)
THEOREM PassedCasesCleanUp == SuitesSpec => []DocumentsOfPassedCasesGone
<1>1. SuitesTypeInv /\ RunInv => DocumentsOfPassedCasesGone
  <2> SUFFICES ASSUME SuitesTypeInv, RunInv, NEW c \in Runners,
                      NEW n \in 1..at[c].case - 1
               PROVE  LET id == Cases(c)[n].id IN
                        \/ id \in failed[c] \/ <<id, TRUE>> \in slow[c]
                        \/ id = <<"containers", 3>>
                        \/ \A k \in DOMAIN store :
                             k.dir \/ k.path[1] # <<c, id[1], id[2]>>
    BY DEF DocumentsOfPassedCasesGone
  <2>1. PICK S, u, id :
          /\ id = Id(c, n) /\ u = <<c, id[1], id[2]>> /\ Sound(S, u, id)
          /\ id \in failed[c] <=> id \in Refused \/ <<id, FALSE>> \in slow[c]
          /\ TimedOut(c, id) \/ Housed(S, u, id, Ending(id, S))
    BY CaseOver
  <2>2. ASSUME id \notin failed[c], <<id, TRUE>> \notin slow[c],
               id # <<"containers", 3>>, NEW k \in DOMAIN store,
               ~k.dir, k.path[1] = u
        PROVE  FALSE
    <3>1. id \notin Refused /\ Housed(S, u, id, Len(S))
      BY <2>1, <2>2 DEF TimedOut, Ending
    <3>2. k.path # <<>> /\ k.dir \in BOOLEAN
      <4>1. k \in Key
        BY DEF SuitesTypeInv, SuitesTypeOK, TypeOK
      <4>2. QED
        BY <2>2, <4>1 DEF Key
    <3>3. Inside(k, u)
      BY <2>2, <3>2 DEF Inside
    <3>4. k # Container(<<u>>)
      BY <2>2 DEF Container
    <3>5. k = CaseKey(S)
      BY <2>2, <3>1, <3>3, <3>4 DEF Housed
    <3>6. k # Root
      BY <2>2 DEF Root, Container
    <3>7. Present(S, Len(S))
      BY <3>1, <3>5, <3>6 DEF Housed
    <3>8. QED
      BY <2>1, <3>1, <3>5, <3>6, <3>7 DEF Present, Sound, CaseFits, PlaceFits
  <2>3. QED
    BY <2>1, <2>2 DEF Id
<1>2. QED
  BY <1>1, RunCorrect, PTL

\* What a case that is over has left, none of whose requests timed out.
LEMMA Leftover ==
  ASSUME NEW S, NEW u, NEW id, Sound(S, u, id), Housed(S, u, id, Ending(id, S)),
         id = <<id[1], id[2]>>
  PROVE  /\ id # <<"containers", 3>> =>
              \A k : k \in DOMAIN store /\ Inside(k, u) <=> k \in Residue(u, id)
         /\ id = <<"containers", 3>> =>
              \E r \in Requests :
                \A k : k \in DOMAIN store /\ Inside(k, u) <=> k = Document(<<u, r>>)
<1> DEFINE K == CaseKey(S)
<1>1. /\ PlaceFits(S, u, id) /\ u \in Names /\ File \in Names
      /\ K = Root \/ K \in Keys(u)
  BY DEF Sound, CaseFits, PlaceFits
<1>2. PICK l \in 1..4 : l = Len(S)
  BY DEF Sound, CaseFits
<1>3. /\ Inside(Container(<<u>>), u) /\ Inside(Document(<<u>>), u)
      /\ Inside(Document(<<u, File>>), u)
      /\ \A r \in Requests : Inside(Document(<<u, r>>), u)
      /\ ~Inside(Root, u)
      /\ Container(<<u>>) # Root /\ Document(<<u>>) # Root
      /\ Document(<<u, File>>) # Root /\ Document(<<u, File>>) # Document(<<u>>)
      /\ Document(<<u, File>>) # Container(<<u>>)
  BY <1>1, KeysOfCase, SlugAssumption
<1>4. CASE id = <<"containers", 3>>
  <2>1. /\ id \notin Refused /\ l = 3 /\ K = Container(<<u>>) /\ S[3].method = "DELETE"
    BY <1>1, <1>2, <1>4 DEF PlaceFits, Refused
  <2>2. Housed(S, u, id, 3)
    BY <1>2, <2>1 DEF Ending
  <2>3. ~Present(S, 3)
    BY <2>1, PresenceSteps
  <2>4. K \notin DOMAIN store
    BY <1>3, <2>1, <2>2, <2>3 DEF Housed
  <2>5. PICK r \in Requests : \A q \in Requests :
          Document(<<u, q>>) \in DOMAIN store <=> q = r
    BY <1>4, <2>2 DEF Housed
  <2>6. ASSUME NEW k \in DOMAIN store, Inside(k, u)
        PROVE  k = Document(<<u, r>>)
    <3>1. \E q \in Requests : k = Document(<<u, q>>)
      BY <1>3, <2>1, <2>2, <2>4, <2>6 DEF Housed
    <3>2. QED
      BY <2>5, <3>1
  <2>7. QED
    BY <1>3, <1>4, <2>5, <2>6
<1>5. CASE id \in Refused
  <2>1. /\ id # <<"containers", 3>> /\ K = Document(<<u>>) /\ l = 3
        /\ S[1].method = "PUT" /\ S[2].method = "GET"
    BY <1>1, <1>2, <1>5 DEF PlaceFits, Refused
  <2>2. Housed(S, u, id, 2)
    BY <1>5 DEF Ending
  <2>3. Present(S, 2)
    <3>1. Present(S, 1) /\ (Present(S, 2) <=> Present(S, 2 - 1))
      BY <2>1, PresenceSteps
    <3>2. QED
      BY <3>1
  <2>4. \A k : k \in DOMAIN store /\ Inside(k, u) <=> k = Document(<<u>>)
    BY <1>3, <2>1, <2>2, <2>3 DEF Housed
  <2>5. Residue(u, id) = {Document(<<u>>)}
    BY <1>5 DEF Residue, Refused
  <2>6. QED
    BY <2>1, <2>4, <2>5
<1>6. CASE id \notin Refused /\ id # <<"containers", 3>> /\ K = Document(<<u, File>>)
  <2>1. Housed(S, u, id, l) /\ ~Present(S, l) /\ l >= 1
    BY <1>1, <1>2, <1>3, <1>6 DEF Ending, Present, PlaceFits
  <2>2. K \notin DOMAIN store
    BY <1>3, <1>6, <2>1 DEF Housed
  <2>3. \A k : k \in DOMAIN store /\ Inside(k, u)
                 <=> k = Container(<<u>>) /\ S[1].method = "PUT"
    BY <1>3, <1>6, <2>1, <2>2 DEF Housed
  <2>4. /\ id[1] = "resource-crud" \/ id = <<"error-responses", 4>>
        /\ S[1].method = "PUT" <=> id[1] # "resource-crud" \/ id[2] \notin {3, 6}
    BY <1>1, <1>6 DEF PlaceFits
  <2>5. Residue(u, id) = IF S[1].method = "PUT" THEN {Container(<<u>>)} ELSE {}
    <3>1. CASE S[1].method = "PUT"
      BY <1>6, <2>4, <3>1 DEF Residue, Refused
    <3>2. CASE S[1].method # "PUT"
      BY <1>6, <2>4, <3>2 DEF Residue, Refused
    <3>3. QED
      BY <3>1, <3>2
  <2>6. QED
    BY <1>6, <2>3, <2>5
<1>7. CASE id \notin Refused /\ id # <<"containers", 3>> /\ K # Document(<<u, File>>)
  <2>1. Housed(S, u, id, l) /\ (K # Root => ~Present(S, l))
    BY <1>1, <1>2, <1>7 DEF Ending, Present, PlaceFits
  <2>2. \A k : ~(k \in DOMAIN store /\ Inside(k, u))
    BY <1>3, <1>7, <2>1 DEF Housed
  <2>3. Residue(u, id) = {}
    <3>1. id[1] # "resource-crud" /\ id # <<"error-responses", 4>>
      BY <1>1, <1>7 DEF PlaceFits
    <3>2. QED
      BY <1>7, <3>1 DEF Residue, Refused
  <2>4. QED
    BY <1>7, <2>2, <2>3
<1>8. QED
  BY <1>4, <1>5, <1>6, <1>7

(***************************************************************************)
(* Of runs without timeouts, whatever suites they select and however they  *)
(* interleave, the server is left the containers of resource_crud and      *)
(* error_responses, the documents of the two failing cases of wac, one     *)
(* child for every containers case that POSTs, and nothing else.           *)
(***************************************************************************)
THEOREM LeftoversKnown == SuitesSpec => []LeftBehind
<1>1. SuitesTypeInv /\ RunInv => LeftBehind
  <2> SUFFICES ASSUME SuitesTypeInv, RunInv, Over, \A c \in Runners : slow[c] = {}
               PROVE  LeftBehind
    BY DEF LeftBehind
  <2> DEFINE ran == {x \in Runners \X (1..60) : x[2] <= Len(Cases(x[1]))}
             id(x) == Plan[x[1]][selected[x[1]]][x[2]].id
             uuid(x) == <<x[1], id(x)[1], id(x)[2]>>
             children == {x \in ran : id(x) = <<"containers", 3>>}
  <2>1. selected \in [Runners -> Selections]
    BY DEF SuitesTypeInv, SuitesTypeOK
  <2>2. ASSUME NEW x \in ran
        PROVE  /\ x[1] \in Runners /\ x[2] \in 1..Len(Cases(x[1]))
               /\ x = <<x[1], x[2]>> /\ uuid(x) = Uuid(x[1], x[2])
               /\ id(x) # <<"containers", 3>> =>
                    \A k : k \in DOMAIN store /\ Inside(k, uuid(x))
                             <=> k \in Residue(uuid(x), id(x))
               /\ id(x) = <<"containers", 3>> =>
                    \E r \in Requests :
                      \A k : k \in DOMAIN store /\ Inside(k, uuid(x))
                               <=> k = Document(<<uuid(x), r>>)
    <3>1. PICK c \in Runners, n \in 1..60 : /\ x = <<c, n>> /\ n <= Len(Cases(c))
                                            /\ x[1] = c /\ x[2] = n
      <4>1. x \in Runners \X (1..60) /\ x[2] <= Len(Cases(x[1]))
        BY <2>2
      <4>2. PICK c \in Runners, n \in 1..60 : x = <<c, n>>
        BY <4>1
      <4>3. x[1] = c /\ x[2] = n
        BY <4>2
      <4>4. QED
        BY <4>1, <4>2, <4>3
    <3>2. PICK l \in 0..42 : l = Len(Cases(c))
      BY <2>1, CasesAreKnown DEF CasesKnown
    <3>3. PICK m \in Nat : m = at[c].case /\ m > l
      BY <3>2 DEF Over, Finished, SuitesTypeInv, SuitesTypeOK
    <3>4. n \in 1..l /\ n \in 1..at[c].case - 1
      BY <3>1, <3>2, <3>3
    <3>5. PICK S, u, i : /\ S = Steps(c, n) /\ i = Id(c, n) /\ i = <<i[1], i[2]>>
                         /\ u = <<c, i[1], i[2]>> /\ u = Uuid(c, n) /\ Sound(S, u, i)
                         /\ TimedOut(c, i) \/ Housed(S, u, i, Ending(i, S))
      BY <3>4, CaseOver
    <3>6. Housed(S, u, i, Ending(i, S))
      BY <3>5 DEF TimedOut
    <3>7. id(x) = i /\ uuid(x) = u
      BY <3>1, <3>5 DEF Id, Cases
    <3>8. /\ i # <<"containers", 3>> =>
                \A k : k \in DOMAIN store /\ Inside(k, u) <=> k \in Residue(u, i)
          /\ i = <<"containers", 3>> =>
                \E r \in Requests :
                  \A k : k \in DOMAIN store /\ Inside(k, u) <=> k = Document(<<u, r>>)
      <4>1. Sound(S, u, i) /\ i = <<i[1], i[2]>>
        BY <3>5
      <4>2. QED
        BY <3>6, <4>1, Leftover
    <3> HIDE DEF id, uuid
    <3>9. QED
      BY <3>1, <3>2, <3>4, <3>5, <3>7, <3>8
  <2>3. ASSUME NEW x \in children
        PROVE  Cardinality({k \in DOMAIN store : k.path # <<>>
                              /\ k.path[1] = uuid(x) /\ k.path[2] \in Requests}) = 1
    <3>1. x \in ran /\ id(x) = <<"containers", 3>>
      BY <2>3
    <3>2. PICK u : u = uuid(x)
      OBVIOUS
    <3>3. PICK r \in Requests :
            \A k : k \in DOMAIN store /\ Inside(k, u) <=> k = Document(<<u, r>>)
      <4> HIDE DEF ran, id, uuid
      <4>1. QED
        BY <2>2, <3>1, <3>2
    <3>4. Document(<<u, r>>).path[2] = r
      BY DEF Document
    <3>5. {k \in DOMAIN store : k.path # <<>>
             /\ k.path[1] = u /\ k.path[2] \in Requests} = {Document(<<u, r>>)}
      BY <3>3, <3>4 DEF Inside
    <3>6. QED
      BY <3>2, <3>5, FS_Singleton
  <2>4. {k \in DOMAIN store :
           ~\E x \in children : k.path # <<>> /\ k.path[1] = uuid(x)}
          = {Root} \cup UNION {Residue(uuid(x), id(x)) : x \in ran}
    <3>1. ASSUME NEW x \in ran, NEW y \in ran, uuid(x) = uuid(y)
          PROVE  x = y
      <4> HIDE DEF ran, id, uuid
      <4>1. PICK c \in Runners, d \in Runners, m \in 1..Len(Cases(x[1])),
                 n \in 1..Len(Cases(y[1])) :
              /\ c = x[1] /\ d = y[1] /\ m = x[2] /\ n = y[2]
              /\ x = <<c, m>> /\ y = <<d, n>>
              /\ uuid(x) = Uuid(c, m) /\ uuid(y) = Uuid(d, n)
        BY <2>2
      <4>2. m \in 1..Len(Cases(c)) /\ n \in 1..Len(Cases(d))
        BY <4>1
      <4>3. Uuid(c, m) = Uuid(d, n)
        BY <3>1, <4>1
      <4>4. c = d /\ m = n
        BY <2>1, <4>2, <4>3, UuidsDistinct
      <4>5. QED
        BY <4>1, <4>4
    <3>2. ASSUME NEW k \in DOMAIN store, k # Root
          PROVE  \E x \in ran : Inside(k, uuid(x))
      <4>1. PICK c \in Runners : \E n \in 1..Len(Cases(c)) : Inside(k, Uuid(c, n))
        BY <3>2 DEF RunInv, Owned
      <4>2. PICK n \in 1..Len(Cases(c)) : Inside(k, Uuid(c, n))
        BY <4>1
      <4>3. PICK l \in 0..42 : l = Len(Cases(c))
        BY <2>1, CasesAreKnown DEF CasesKnown
      <4>4. <<c, n>> \in ran
        <5>1. n \in 1..60 /\ n <= Len(Cases(c))
          <6>1. n \in 1..l
            BY <4>3
          <6>2. n \in 1..60 /\ n <= l
            BY <6>1
          <6>3. QED
            BY <4>3, <6>2, Zenon
        <5>2. <<c, n>> \in Runners \X (1..60) /\ <<c, n>>[1] = c /\ <<c, n>>[2] = n
          BY <5>1
        <5>3. <<c, n>>[2] <= Len(Cases(<<c, n>>[1]))
          BY <5>1, <5>2
        <5>4. QED
          BY <5>2, <5>3
      <4>5. uuid(<<c, n>>) = Uuid(c, n)
        BY DEF Uuid, Id, Cases
      <4>6. QED
        BY <4>2, <4>4, <4>5
    <3>4. Root \in DOMAIN store /\ \A v : ~Inside(Root, v)
      BY DEF RunInv, Inside, Root, Container
    <3>5. \A x \in children : x \in ran /\ id(x) = <<"containers", 3>>
      OBVIOUS
    <3>6. \A x \in ran : id(x) = <<"containers", 3>> =>
                           x \in children /\ Residue(uuid(x), id(x)) = {}
      <4>1. \A v : Residue(v, <<"containers", 3>>) = {}
        BY DEF Residue
      <4> HIDE DEF ran, id, uuid
      <4>2. QED
        BY <4>1
    <3> HIDE DEF ran, id, uuid, children
    <3>7. ASSUME NEW k \in DOMAIN store, k # Root,
                 ~\E x \in children : Inside(k, uuid(x))
          PROVE  \E x \in ran : k \in Residue(uuid(x), id(x))
      <4>1. PICK x \in ran : Inside(k, uuid(x))
        BY <3>2, <3>7
      <4>2. id(x) # <<"containers", 3>>
        BY <3>6, <3>7, <4>1
      <4>3. QED
        BY <2>2, <4>1, <4>2
    <3>8. ASSUME NEW x \in ran, NEW k \in Residue(uuid(x), id(x))
          PROVE  k \in DOMAIN store /\ ~\E y \in children : Inside(k, uuid(y))
      <4>1. id(x) # <<"containers", 3>>
        BY <3>6, <3>8
      <4>2. k \in DOMAIN store /\ Inside(k, uuid(x))
        BY <2>2, <3>8, <4>1
      <4>3. ASSUME NEW y \in children, Inside(k, uuid(y)) PROVE FALSE
        <5>1. uuid(x) = uuid(y) /\ y \in ran
          BY <3>5, <4>2, <4>3 DEF Inside
        <5>2. x = y
          BY <3>1, <5>1
        <5>3. QED
          BY <3>5, <4>1, <4>3, <5>2
      <4>4. QED
        BY <4>2, <4>3
    <3>9. {k \in DOMAIN store : ~\E x \in children : Inside(k, uuid(x))}
            = {Root} \cup UNION {Residue(uuid(x), id(x)) : x \in ran}
      BY <3>4, <3>7, <3>8
    <3>10. QED
      BY <3>9 DEF Inside
  <2>5. QED
    BY <2>3, <2>4 DEF LeftBehind
<1>2. QED
  BY <1>1, RunCorrect, PTL

=============================================================================

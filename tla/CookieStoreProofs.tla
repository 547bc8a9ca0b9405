--------------------------- MODULE CookieStoreProofs ---------------------------
(***************************************************************************)
(* Theorems about CookieStore, for any tasks, cookies and time to live.    *)
(***************************************************************************)
EXTENDS CookieStore, TLAPS

-----------------------------------------------------------------------------
(***************************************************************************)
(* The properties are not inductive.  They need that the times tasks hold  *)
(* have passed and that no expiry is further off than the TTL; and, of a   *)
(* task about a cookie that is still there, that it saw an expiry when it  *)
(* began, and that one it saw pass has passed unless a refresh revived it. *)
(***************************************************************************)
Accounted ==
  \A c \in Clients : task[c] # None =>
    \/ task[c].op \in {"get", "refresh"} /\ task[c].cookie \in drawn
    \/ /\ task[c].op \in {"prune", "stamp", "insert"}
       /\ task[c].cookie = None /\ task[c].account \in Accounts

TimesPast ==
  /\ \A c \in Clients : task[c] # None => task[c].now <= clock
  /\ \A k \in DOMAIN cookies : cookies[k].expires_at <= clock + Ttl

SawDecides ==
  \A c \in Clients : task[c] # None =>
    \A k \in DOMAIN cookies : task[c].cookie = k =>
      /\ task[c].saw # None
      /\ task[c].saw <= task[c].now + Ttl
      /\ task[c].saw <= task[c].now =>
           cookies[k].expires_at <= task[c].now \/ k \in revived

IInv == TypeOK /\ Accounted /\ TimesPast /\ SawDecides /\ ExpiredRefused

\* What the state of a well-typed store holds.
LEMMA Typed ==
  ASSUME CookieAssumption, TypeOK
  PROVE  /\ clock \in Nat /\ Ttl \in Nat /\ Ttl > 0
         /\ None \notin Nat /\ None \notin Cookies
         /\ DOMAIN cookies \subseteq drawn /\ drawn \subseteq Cookies
         /\ \A k \in DOMAIN cookies :
              /\ cookies[k] \in Entry
              /\ cookies[k].account_id \in Accounts /\ cookies[k].expires_at \in Nat
         /\ \A c \in Clients : task[c] # None =>
              /\ task[c] \in Task /\ task[c].now \in Nat
              /\ task[c].saw \in Nat \cup {None}
BY DEF CookieAssumption, TypeOK, Entry, Task

LEMMA InitIInv == ASSUME CookieAssumption PROVE Init => IInv
<1> SUFFICES ASSUME Init PROVE IInv
  OBVIOUS
<1>1. TypeOK
  BY DEF Init, TypeOK
<1>2. QED
  BY <1>1 DEF Init, IInv, Accounted, TimesPast, SawDecides, ExpiredRefused

LEMMA StepIInv == ASSUME CookieAssumption PROVE IInv /\ [Next]_vars => IInv'
<1> SUFFICES ASSUME IInv, [Next]_vars PROVE IInv'
  OBVIOUS
<1>0. TypeOK /\ Accounted /\ TimesPast /\ SawDecides /\ ExpiredRefused
  BY DEF IInv
<1>t. /\ clock \in Nat /\ Ttl \in Nat /\ Ttl > 0
      /\ None \notin Nat /\ None \notin Cookies
      /\ DOMAIN cookies \subseteq drawn /\ drawn \subseteq Cookies
      /\ \A k \in DOMAIN cookies :
           /\ cookies[k] \in Entry
           /\ cookies[k].account_id \in Accounts /\ cookies[k].expires_at \in Nat
      /\ \A c \in Clients : task[c] # None =>
           /\ task[c] \in Task /\ task[c].now \in Nat
           /\ task[c].saw \in Nat \cup {None}
  BY <1>0, Typed
\* What a step that only takes tasks and cookies away keeps.
<1>e. ASSUME UNCHANGED <<clock, drawn, revived>>,
             DOMAIN cookies' \subseteq DOMAIN cookies,
             \A k \in DOMAIN cookies' : cookies'[k] = cookies[k],
             \A c \in Clients : task'[c] # None => task'[c] = task[c]
      PROVE  Accounted' /\ TimesPast' /\ SawDecides'
  <2>1. Accounted' /\ TimesPast'
    BY <1>0, <1>e DEF Accounted, TimesPast
  <2>2. SawDecides'
    BY <1>0, <1>e DEF SawDecides
  <2>3. QED
    BY <2>1, <2>2
<1>1. CASE Tick
  <2> USE <1>1 DEF Tick
  <2>1. TypeOK' /\ Accounted' /\ SawDecides' /\ ExpiredRefused'
    BY <1>0, <1>t DEF TypeOK, Accounted, SawDecides, ExpiredRefused
  <2>2. TimesPast'
    <3>1. \A c \in Clients : task[c] # None => task[c].now <= clock + 1
      BY <1>0, <1>t DEF TimesPast
    <3>2. \A k \in DOMAIN cookies : cookies[k].expires_at <= (clock + 1) + Ttl
      BY <1>0, <1>t DEF TimesPast
    <3>3. QED
      BY <3>1, <3>2 DEF TimesPast
  <2>3. QED
    BY <2>1, <2>2 DEF IInv
<1>2. ASSUME NEW c \in Clients, NEW op, NEW k, NEW a, Begin(c, op, k, a),
             \/ op \in {"get", "refresh"} /\ k \in drawn /\ a = None
             \/ op = "prune" /\ k = None /\ a \in Accounts
      PROVE  IInv'
  <2> USE <1>2 DEF Begin
  <2> DEFINE saw == IF k \in DOMAIN cookies THEN cookies[k].expires_at ELSE None
             t == [op |-> op, now |-> clock, cookie |-> k, account |-> a, saw |-> saw]
  <2>1. /\ saw \in Nat \cup {None}
        /\ k \in DOMAIN cookies => saw = cookies[k].expires_at /\ saw \in Nat
    BY <1>t
  <2> HIDE DEF saw
  <2>2. t \in Task
    BY <1>t, <2>1 DEF Task
  <2>3. t.op = op /\ t.now = clock /\ t.cookie = k /\ t.account = a /\ t.saw = saw
    OBVIOUS
  <2>4. task' = [task EXCEPT ![c] = t]
    BY DEF saw
  <2> HIDE DEF t
  <2>5. task'[c] = t /\ \A d \in Clients \ {c} : task'[d] = task[d]
    BY <1>0, <2>4 DEF TypeOK
  <2>6. TypeOK'
    BY <1>0, <2>2, <2>4 DEF TypeOK
  <2>7. Accounted'
    BY <1>0, <2>3, <2>5 DEF Accounted
  <2>8. TimesPast'
    <3>1. \A d \in Clients : task'[d] # None => task'[d].now <= clock
      BY <1>0, <1>t, <2>3, <2>5 DEF TimesPast
    <3>2. QED
      BY <1>0, <3>1 DEF TimesPast
  <2>9. SawDecides'
    <3>1. ASSUME NEW x \in DOMAIN cookies, t.cookie = x
          PROVE  /\ t.saw # None /\ t.saw <= t.now + Ttl
                 /\ t.saw <= t.now => cookies[x].expires_at <= t.now \/ x \in revived
      <4>1. x = k /\ t.saw = cookies[x].expires_at /\ t.saw \in Nat /\ t.now = clock
        BY <2>1, <2>3, <3>1
      <4>2. cookies[x].expires_at <= clock + Ttl
        BY <1>0 DEF TimesPast
      <4>3. QED
        BY <1>t, <4>1, <4>2
    <3>2. QED
      BY <1>0, <2>5, <3>1 DEF SawDecides
  <2>10. ExpiredRefused'
    BY <1>0 DEF ExpiredRefused, TypeOK
  <2>11. QED
    BY <2>6, <2>7, <2>8, <2>9, <2>10 DEF IInv
<1>3. ASSUME NEW c \in Clients, prune(c) PROVE IInv'
  <2> USE <1>3 DEF prune, Doing
  <2>0. task[c] # None /\ task[c] \in Task /\ task[c].op = "prune"
    BY <1>t
  <2>1. /\ DOMAIN cookies' \subseteq DOMAIN cookies
        /\ \A k \in DOMAIN cookies' : cookies'[k] = cookies[k]
        /\ cookies' \in [DOMAIN cookies' -> Entry]
    BY <1>0 DEF Keep, TypeOK
  <2>2. /\ task'[c] \in Task /\ task'[c].op = "stamp"
        /\ task'[c].now = task[c].now /\ task'[c].saw = task[c].saw
        /\ task'[c].cookie = task[c].cookie /\ task'[c].account = task[c].account
        /\ \A d \in Clients \ {c} : task'[d] = task[d]
        /\ task' \in [Clients -> {None} \cup Task]
    <3> DEFINE t == [task[c] EXCEPT !.op = "stamp"]
    <3>1. /\ t \in Task /\ t.op = "stamp" /\ t.now = task[c].now
          /\ t.saw = task[c].saw /\ t.cookie = task[c].cookie
          /\ t.account = task[c].account
      BY <2>0 DEF Task
    <3>2. task' = [task EXCEPT ![c] = t]
      OBVIOUS
    <3> HIDE DEF t
    <3>3. task'[c] = t /\ \A d \in Clients \ {c} : task'[d] = task[d]
      BY <1>0, <3>2 DEF TypeOK
    <3>4. QED
      BY <1>0, <3>1, <3>2, <3>3 DEF TypeOK
  <2>3. TypeOK'
    BY <1>0, <2>1, <2>2 DEF TypeOK
  <2>4. Accounted' /\ TimesPast'
    BY <1>0, <2>0, <2>1, <2>2 DEF Accounted, TimesPast
  <2>5. SawDecides'
    BY <1>0, <2>0, <2>1, <2>2 DEF SawDecides
  <2>6. ExpiredRefused'
    BY <1>0 DEF ExpiredRefused
  <2>7. QED
    BY <2>3, <2>4, <2>5, <2>6 DEF IInv
<1>4. ASSUME NEW c \in Clients, Stamp(c) PROVE IInv'
  <2> USE <1>4 DEF Stamp, Doing
  <2>0. task[c] # None /\ task[c] \in Task /\ task[c].op = "stamp"
    BY <1>t
  <2>1. task[c].cookie = None /\ task[c].account \in Accounts
    BY <1>0, <2>0 DEF Accounted
  <2> DEFINE t == [task[c] EXCEPT !.op = "insert", !.now = clock]
  <2>2. /\ t \in Task /\ t.op = "insert" /\ t.now = clock /\ t.cookie = None
        /\ t.account \in Accounts
    BY <1>t, <2>0, <2>1 DEF Task
  <2>3. task' = [task EXCEPT ![c] = t]
    OBVIOUS
  <2> HIDE DEF t
  <2>4. task'[c] = t /\ \A d \in Clients \ {c} : task'[d] = task[d]
    BY <1>0, <2>3 DEF TypeOK
  <2>5. TypeOK'
    BY <1>0, <2>2, <2>3 DEF TypeOK
  <2>a. /\ UNCHANGED <<cookies, clock, drawn, revived>>
        /\ task'[c].op = "insert" /\ task'[c].now = clock
        /\ task'[c].cookie = None /\ task'[c].account \in Accounts
    BY <2>2, <2>4
  <2>6. Accounted'
    BY ONLY <1>0, <2>a, <2>4 DEF Accounted
  <2>7. TimesPast'
    <3>1. \A d \in Clients : task'[d] # None => task'[d].now <= clock
      BY ONLY <1>0, <1>t, <2>a, <2>4 DEF TimesPast
    <3>2. QED
      BY <1>0, <3>1 DEF TimesPast
  <2>8. SawDecides'
    <3>1. None \notin DOMAIN cookies
      BY <1>t
    <3>2. QED
      BY <1>0, <2>2, <2>4, <3>1 DEF SawDecides
  <2>9. ExpiredRefused'
    BY <1>0 DEF ExpiredRefused
  <2>10. QED
    BY <2>5, <2>6, <2>7, <2>8, <2>9 DEF IInv
<1>5. ASSUME NEW c \in Clients, NEW k \in Cookies, generate(c, k) PROVE IInv'
  <2> USE <1>5 DEF generate, Doing, End
  <2>0. /\ task[c] # None /\ task[c] \in Task /\ task[c].op = "insert"
        /\ task[c].now \in Nat /\ task[c].account \in Accounts
        /\ task[c].now <= clock
    BY <1>0, <1>t DEF Accounted, TimesPast
  <2> DEFINE entry == [account_id |-> task[c].account,
                       expires_at |-> task[c].now + Ttl]
  <2>1. entry \in Entry /\ entry.expires_at = task[c].now + Ttl
    BY <1>t, <2>0 DEF Entry
  <2>2. cookies' = Put(cookies, k, entry) /\ k \notin DOMAIN cookies
    BY <1>t
  <2> HIDE DEF entry
  <2>3. /\ DOMAIN cookies' = DOMAIN cookies \cup {k}
        /\ cookies'[k] = entry
        /\ \A x \in DOMAIN cookies : cookies'[x] = cookies[x]
        /\ cookies' \in [DOMAIN cookies' -> Entry]
    <3>1. cookies \in [DOMAIN cookies -> Entry]
      BY <1>0 DEF TypeOK
    <3>2. QED
      BY ONLY <2>1, <2>2, <3>1 DEF Put
  <2>4. task'[c] = None /\ \A d \in Clients \ {c} : task'[d] = task[d]
    BY <1>0 DEF TypeOK
  <2>5. TypeOK'
    BY <1>0, <2>3 DEF TypeOK
  <2>6. Accounted'
    BY <1>0, <2>4 DEF Accounted
  <2>7. TimesPast'
    <3>1. entry.expires_at <= clock + Ttl
      BY <1>t, <2>0, <2>1
    <3>2. QED
      BY <1>0, <2>3, <2>4, <3>1 DEF TimesPast
  <2>8. SawDecides'
    <3>1. ASSUME NEW d \in Clients, task'[d] # None PROVE task'[d] = task[d] /\ task[d].cookie # k
      <4>1. task'[d] = task[d] /\ task[d] # None
        BY <2>4, <3>1
      <4>2. QED
        BY <1>0, <1>t, <4>1 DEF Accounted
    <3>2. QED
      BY <1>0, <2>3, <3>1 DEF SawDecides
  <2>9. ExpiredRefused'
    BY <1>0 DEF ExpiredRefused
  <2>10. QED
    BY <2>5, <2>6, <2>7, <2>8, <2>9 DEF IInv
<1>6. ASSUME NEW c \in Clients, get(c) PROVE IInv'
  <2> USE <1>6 DEF get, Doing, End
  <2> DEFINE k == task[c].cookie
             found == [cookie |-> k, saw |-> task[c].saw, since |-> task[c].now]
  <2>0. task[c] # None /\ task[c] \in Task /\ task[c].now \in Nat
    BY <1>t
  <2>1. /\ \A d \in Clients : task'[d] # None => task'[d] = task[d]
        /\ task' \in [Clients -> {None} \cup Task]
    BY <1>0 DEF TypeOK
  <2>2. /\ served'[c] = IF Live(c) THEN found ELSE None
        /\ \A d \in Clients \ {c} : served'[d] = served[d]
        /\ served' = [served EXCEPT ![c] = IF Live(c) THEN found ELSE None]
    BY <1>0 DEF TypeOK
  <2>3. /\ found.cookie = k /\ found.saw = task[c].saw /\ found.since = task[c].now
        /\ Live(c) => k \in Cookies
        /\ Live(c) => found \in [cookie: Cookies, saw: Nat \cup {None}, since: Nat]
    BY <1>t, <2>0 DEF Live
  <2>4. Live(c) => /\ k \in DOMAIN cookies
                   /\ cookies[k].expires_at > task[c].now
                   /\ cookies[k].expires_at \in Nat
    BY <1>t DEF Live
  <2>5. Live(c) => /\ task[c].saw # None
                   /\ task[c].saw <= task[c].now => k \in revived
    BY <1>0, <2>0, <2>4 DEF SawDecides
  <2> HIDE DEF found
  <2>6. TypeOK'
    BY <1>0, <2>1, <2>2, <2>3 DEF TypeOK
  <2>7. ExpiredRefused'
    <3>1. ASSUME NEW d \in Clients, served'[d] # None
          PROVE  /\ served'[d].saw # None
                 /\ served'[d].saw <= served'[d].since => served'[d].cookie \in revived
      <4>1. CASE d = c
        <5>1. Live(c) /\ served'[c] = found
          BY <2>2, <3>1, <4>1
        <5>2. QED
          BY <2>3, <2>5, <4>1, <5>1
      <4>2. CASE d # c
        BY <1>0, <2>2, <3>1, <4>2 DEF ExpiredRefused
      <4>3. QED
        BY <4>1, <4>2
    <3>2. QED
      BY <3>1 DEF ExpiredRefused
  <2>8. Accounted' /\ TimesPast' /\ SawDecides'
    BY <1>e, <2>1
  <2>9. QED
    BY <2>6, <2>7, <2>8 DEF IInv
<1>7. ASSUME NEW c \in Clients, refresh(c) PROVE IInv'
  <2> USE <1>7 DEF Doing, End
  <2> DEFINE k == task[c].cookie
  <2>0. /\ task[c] # None /\ task[c] \in Task /\ task[c].now \in Nat
        /\ task[c].now <= clock
        /\ task' = [task EXCEPT ![c] = None]
        /\ UNCHANGED <<clock, served, drawn>>
    BY <1>0, <1>t DEF refresh, TimesPast
  <2>1. /\ \A d \in Clients : task'[d] # None => task'[d] = task[d]
        /\ task' \in [Clients -> {None} \cup Task]
    BY <1>0, <2>0 DEF TypeOK
  <2>2. CASE ~Live(c)
    <3>1. UNCHANGED <<cookies, revived>>
      BY <2>2 DEF refresh
    <3>2. TypeOK' /\ ExpiredRefused'
      BY <1>0, <2>0, <2>1, <3>1 DEF TypeOK, ExpiredRefused
    <3>3. Accounted' /\ TimesPast' /\ SawDecides'
      BY <1>e, <2>0, <2>1, <3>1
    <3>4. QED
      BY <3>2, <3>3 DEF IInv
  <2>3. CASE Live(c)
    <3>1. /\ cookies' = [cookies EXCEPT ![k].expires_at = task[c].now + Ttl]
          /\ revived' = IF cookies[k].expires_at <= clock
                        THEN revived \cup {k} ELSE revived
      BY <2>3 DEF refresh
    <3>2. k \in DOMAIN cookies /\ cookies[k] \in Entry /\ k \in drawn
      BY <1>t, <2>3 DEF Live
    <3> HIDE DEF k
    <3> DEFINE e == [cookies[k] EXCEPT !.expires_at = task[c].now + Ttl]
    <3>3. e \in Entry /\ e.expires_at = task[c].now + Ttl
      BY <1>t, <2>0, <3>2 DEF Entry
    <3>4. cookies' = [cookies EXCEPT ![k] = e]
      BY <3>1
    <3> HIDE DEF e
    <3>5. /\ DOMAIN cookies' = DOMAIN cookies
          /\ cookies' \in [DOMAIN cookies -> Entry]
          /\ cookies'[k].expires_at = task[c].now + Ttl
          /\ \A x \in DOMAIN cookies \ {k} : cookies'[x] = cookies[x]
      BY <1>0, <3>2, <3>3, <3>4 DEF TypeOK
    <3>6. revived \subseteq revived' /\ revived' \subseteq drawn
      BY <1>0, <3>1, <3>2 DEF TypeOK
    <3>7. TypeOK'
      BY <1>0, <2>0, <2>1, <3>5, <3>6 DEF TypeOK
    <3>8. Accounted' /\ ExpiredRefused'
      BY <1>0, <2>0, <2>1, <3>6 DEF Accounted, ExpiredRefused
    <3>9. TimesPast'
      <4>1. \A x \in DOMAIN cookies : cookies'[x].expires_at <= clock + Ttl
        BY <1>0, <1>t, <2>0, <3>5 DEF TimesPast
      <4>2. QED
        BY <1>0, <2>0, <2>1, <3>5, <4>1 DEF TimesPast
    <3>10. SawDecides'
      <4> SUFFICES ASSUME NEW d \in Clients, task'[d] # None,
                          NEW x \in DOMAIN cookies, task[d].cookie = x
                   PROVE  /\ task[d].saw # None
                          /\ task[d].saw <= task[d].now + Ttl
                          /\ task[d].saw <= task[d].now =>
                               \/ cookies'[x].expires_at <= task[d].now
                               \/ x \in revived'
        BY <2>1, <3>5 DEF SawDecides
      <4>1. task[d] # None
        BY <2>1
      <4>2. /\ task[d].saw # None
            /\ task[d].saw <= task[d].now + Ttl
            /\ task[d].saw <= task[d].now =>
                 cookies[x].expires_at <= task[d].now \/ x \in revived
        BY <1>0, <4>1 DEF SawDecides
      <4>3. cookies[x].expires_at <= task[d].now => cookies[x].expires_at <= clock
        BY <1>0, <1>t, <4>1 DEF TimesPast
      <4>4. QED
        BY <3>1, <3>5, <3>6, <4>2, <4>3
    <3>11. QED
      BY <3>7, <3>8, <3>9, <3>10 DEF IInv
  <2>4. QED
    BY <2>2, <2>3
<1>8. ASSUME NEW k \in Cookies, delete(k) PROVE IInv'
  <2> USE <1>8 DEF delete
  <2>1. /\ DOMAIN cookies' \subseteq DOMAIN cookies
        /\ \A x \in DOMAIN cookies' : cookies'[x] = cookies[x]
        /\ cookies' \in [DOMAIN cookies' -> Entry]
    BY <1>0 DEF Keep, TypeOK
  <2>2. TypeOK' /\ ExpiredRefused'
    BY <1>0, <2>1 DEF TypeOK, ExpiredRefused
  <2>3. Accounted' /\ TimesPast' /\ SawDecides'
    BY <1>e, <2>1
  <2>4. QED
    BY <2>2, <2>3 DEF IInv
<1>9. CASE UNCHANGED vars
  BY <1>0, <1>9 DEF vars, IInv, TypeOK, Accounted, TimesPast, SawDecides, ExpiredRefused
<1>10. QED
  <2>1. CASE Next
    BY <1>1, <1>2, <1>3, <1>4, <1>5, <1>6, <1>7, <1>8, <2>1 DEF Next
  <2>2. QED
    BY <1>9, <2>1

\* Everything the theorems need of a behaviour.
LEMMA Invariants == ASSUME CookieAssumption PROVE Spec => []IInv
<1>1. Init => IInv
  BY InitIInv
<1>2. IInv /\ [Next]_vars => IInv'
  BY StepIInv
<1>3. QED
  BY <1>1, <1>2, PTL DEF Spec

(***************************************************************************)
(* Every state has its type.                                               *)
(***************************************************************************)
THEOREM CookiesTyped == ASSUME CookieAssumption PROVE Spec => []TypeOK
<1>1. IInv => TypeOK
  BY DEF IInv
<1>2. QED
  BY <1>1, Invariants, PTL

(***************************************************************************)
(* get refuses a cookie that was gone or had expired when the call began,  *)
(* unless a late refresh has revived it.                                   *)
(***************************************************************************)
THEOREM ExpiredIsRefused == ASSUME CookieAssumption PROVE Spec => []ExpiredRefused
<1>1. IInv => ExpiredRefused
  BY DEF IInv
<1>2. QED
  BY <1>1, Invariants, PTL

(***************************************************************************)
(* What refresh has set stands: an expiry moves back only by a refresh     *)
(* that began before it was written, and a cookie that is still good goes  *)
(* by delete alone.                                                        *)
(***************************************************************************)
THEOREM RefreshStands == ASSUME CookieAssumption PROVE Spec => RefreshHolds
<1> DEFINE Good(k) ==
      LET expiry == cookies[k].expires_at IN
      /\ k \in DOMAIN cookies' /\ cookies'[k].expires_at < expiry
           => \E c \in Clients :
                /\ Doing(c, "refresh") /\ task'[c] = None
                /\ task[c].cookie = k /\ task[c].saw # expiry
      /\ k \notin DOMAIN cookies' /\ expiry > clock
           => \A c \in Clients : task'[c] = task[c]
<1>1. ASSUME CookieAssumption, IInv, [Next]_vars
      PROVE  [\A k \in DOMAIN cookies : Good(k)]_vars
  <2> SUFFICES ASSUME Next, NEW k \in DOMAIN cookies PROVE Good(k)
    BY <1>1
  <2>0. TypeOK /\ TimesPast /\ SawDecides
    BY <1>1 DEF IInv
  <2>t. /\ clock \in Nat /\ Ttl \in Nat
        /\ DOMAIN cookies \subseteq drawn
        /\ \A x \in DOMAIN cookies : cookies[x] \in Entry /\ cookies[x].expires_at \in Nat
        /\ \A c \in Clients : task[c] # None =>
             task[c] \in Task /\ task[c].now \in Nat /\ task[c].saw \in Nat \cup {None}
    BY <1>1, <2>0, Typed
  <2>a. cookies' = cookies => Good(k)
    BY <2>t
  <2>1. ASSUME NEW c \in Clients, prune(c) PROVE Good(k)
    <3>1. task[c] # None /\ task[c].now <= clock /\ task[c].now \in Nat
      BY <2>0, <2>1, <2>t DEF prune, Doing, TimesPast
    <3> DEFINE good == {x \in DOMAIN cookies : cookies[x].expires_at > task[c].now}
    <3>2. cookies' = Keep(cookies, good)
      BY <2>1 DEF prune
    <3>3. cookies \in [DOMAIN cookies -> Entry]
      BY <2>0 DEF TypeOK
    <3>4. /\ DOMAIN cookies' = DOMAIN cookies \cap good
          /\ \A x \in DOMAIN cookies' : cookies'[x] = cookies[x]
      BY ONLY <3>2, <3>3 DEF Keep
    <3>5. k \in DOMAIN cookies' => ~(cookies'[k].expires_at < cookies[k].expires_at)
      BY <2>t, <3>4
    <3>6. k \notin DOMAIN cookies' => ~(cookies[k].expires_at > clock)
      BY <2>t, <3>1, <3>4
    <3>7. QED
      BY <3>5, <3>6
  <2>2. ASSUME NEW c \in Clients, NEW x \in Cookies, generate(c, x) PROVE Good(k)
    <3>1. x # k
      BY <2>2, <2>t DEF generate
    <3>2. k \in DOMAIN cookies' /\ cookies'[k] = cookies[k]
      BY <2>2, <3>1 DEF generate, Put
    <3>3. QED
      BY <2>t, <3>2
  <2>3. ASSUME NEW c \in Clients, refresh(c) PROVE Good(k)
    <3>1. CASE ~Live(c)
      BY <2>3, <2>a, <3>1 DEF refresh
    <3>2. CASE Live(c)
      <4>1. /\ cookies' = [cookies EXCEPT ![task[c].cookie].expires_at = task[c].now + Ttl]
            /\ task' = [task EXCEPT ![c] = None] /\ Doing(c, "refresh")
        BY <2>3, <3>2 DEF refresh, End
      <4>2. task[c] # None /\ task'[c] = None /\ DOMAIN cookies' = DOMAIN cookies
        BY <2>0, <4>1 DEF Doing, TypeOK
      <4>3. CASE task[c].cookie # k
        <5>1. cookies'[k] = cookies[k]
          BY <4>1, <4>3
        <5>2. QED
          BY <2>t, <4>2, <5>1
      <4>4. CASE task[c].cookie = k
        <5>1. cookies'[k].expires_at = task[c].now + Ttl
          BY <2>t, <4>1, <4>4 DEF Entry
        <5>2. task[c].saw <= task[c].now + Ttl
          BY <2>0, <4>2, <4>4 DEF SawDecides
        <5>3. cookies'[k].expires_at < cookies[k].expires_at
                => task[c].saw # cookies[k].expires_at
          BY <2>t, <4>2, <5>1, <5>2
        <5>4. QED
          BY <4>1, <4>2, <4>4, <5>3
      <4>5. QED
        BY <4>3, <4>4
    <3>3. QED
      BY <3>1, <3>2
  <2>4. ASSUME NEW x \in Cookies, delete(x) PROVE Good(k)
    <3>1. task' = task /\ \A y \in DOMAIN cookies' : y \in DOMAIN cookies /\ cookies'[y] = cookies[y]
      BY <2>4 DEF delete, Keep
    <3>2. QED
      BY <2>t, <3>1
  <2>5. CASE cookies' = cookies
    BY <2>5, <2>a
  <2>6. QED
    BY <2>1, <2>2, <2>3, <2>4, <2>5 DEF Next, Tick, Begin, Stamp, get
<1>2. QED
  BY <1>1, Invariants, PTL DEF Spec, RefreshHolds
=============================================================================

----------------------------- MODULE CookieStore -----------------------------
(***************************************************************************)
(* BaseCookieStore (identity/src/account.rs): cookies with an expiry,      *)
(* behind one RwLock.  get, refresh and prune read the clock before they   *)
(* wait for the lock, so that a task may look at an entry, or write one,   *)
(* with a time that has passed.                                            *)
(***************************************************************************)
EXTENDS Naturals, FiniteSets

CONSTANTS
  Clients,    \* the tasks that share the store
  Cookies,    \* the UUIDs generate draws; bound on the cookies
  Accounts,
  Ttl,        \* how long a cookie lives
  MaxTime,    \* bound on the clock
  None

\* Of the constants.
CookieAssumption ==
  /\ Ttl \in Nat \ {0} /\ MaxTime \in Nat
  /\ None \notin Nat /\ None \notin Cookies

VARIABLES
  cookies,    \* CookieEntry by cookie
  clock,
  task,       \* what a task in the middle of an operation holds
  served,     \* the cookie its last get returned the account of
  drawn,      \* history: the cookies generated
  revived     \* history: those a refresh kept beyond an expiry it had missed

vars == <<cookies, clock, task, served, drawn, revived>>

-----------------------------------------------------------------------------
Entry == [account_id: Accounts, expires_at: Nat]

\* now is the time the task has read, saw the expiry of its cookie then
\* (history): None when the cookie was not there.
Task == [op: {"prune", "stamp", "insert", "get", "refresh"}, now: Nat,
         cookie: Cookies \cup {None}, account: Accounts \cup {None},
         saw: Nat \cup {None}]

Put(m, k, v) == [x \in DOMAIN m \cup {k} |-> IF x = k THEN v ELSE m[x]]
Keep(m, ks)  == [x \in DOMAIN m \cap ks |-> m[x]]

Init ==
  /\ cookies = [k \in {} |-> None]
  /\ clock = 0
  /\ task = [c \in Clients |-> None]
  /\ served = [c \in Clients |-> None]
  /\ drawn = {} /\ revived = {}

Tick ==
  /\ clock < MaxTime
  /\ clock' = clock + 1
  /\ UNCHANGED <<cookies, task, served, drawn, revived>>

\* An operation begins with Instant::now().
Begin(c, op, k, a) ==
  /\ task[c] = None
  /\ task' = [task EXCEPT ![c] =
       [op |-> op, now |-> clock, cookie |-> k, account |-> a,
        saw |-> IF k \in DOMAIN cookies THEN cookies[k].expires_at ELSE None]]
  /\ served' = [served EXCEPT ![c] = None]
  /\ UNCHANGED <<cookies, clock, drawn, revived>>

Doing(c, op) == task[c] # None /\ task[c].op = op
End(c) == task' = [task EXCEPT ![c] = None]

\* generate, in three: prune, expires_at, and the insert.
prune(c) ==
  /\ Doing(c, "prune")
  /\ cookies' = Keep(cookies, {k \in DOMAIN cookies :
                                 cookies[k].expires_at > task[c].now})
  /\ task' = [task EXCEPT ![c].op = "stamp"]
  /\ UNCHANGED <<clock, served, drawn, revived>>

Stamp(c) ==
  /\ Doing(c, "stamp")
  /\ task' = [task EXCEPT ![c].op = "insert", ![c].now = clock]
  /\ UNCHANGED <<cookies, clock, served, drawn, revived>>

generate(c, k) ==
  /\ Doing(c, "insert")
  /\ k \notin drawn
  /\ cookies' = Put(cookies, k, [account_id |-> task[c].account,
                                 expires_at |-> task[c].now + Ttl])
  /\ End(c)
  /\ drawn' = drawn \cup {k}
  /\ UNCHANGED <<clock, served, revived>>

\* The cookie of the task is there and had not expired by its clock.
Live_Present(c) == task[c].cookie \in DOMAIN cookies   \* faulty: any of them
Live(c) ==
  LET k == task[c].cookie IN
    k \in DOMAIN cookies /\ cookies[k].expires_at > task[c].now

get(c) ==
  /\ Doing(c, "get")
  /\ End(c)
  /\ served' = [served EXCEPT ![c] =
       IF Live(c) THEN [cookie |-> task[c].cookie, saw |-> task[c].saw,
                        since |-> task[c].now]
                  ELSE None]
  /\ UNCHANGED <<cookies, clock, drawn, revived>>

refresh_Shortens(c) ==   \* faulty: the least expiry in place of the TTL
  LET k == task[c].cookie IN
    /\ Doing(c, "refresh")
    /\ End(c)
    /\ Live(c)
    /\ cookies' = [cookies EXCEPT ![k].expires_at = task[c].now + 1]
    /\ UNCHANGED <<clock, served, drawn, revived>>

refresh(c) ==
  LET k == task[c].cookie IN
    /\ Doing(c, "refresh")
    /\ End(c)
    /\ \/ /\ Live(c)
          /\ cookies' = [cookies EXCEPT ![k].expires_at = task[c].now + Ttl]
          /\ revived' = IF cookies[k].expires_at <= clock
                        THEN revived \cup {k} ELSE revived
       \/ ~Live(c) /\ UNCHANGED <<cookies, revived>>
    /\ UNCHANGED <<clock, served, drawn>>

delete(k) ==
  /\ k \in DOMAIN cookies
  /\ cookies' = Keep(cookies, Cookies \ {k})
  /\ UNCHANGED <<clock, task, served, drawn, revived>>

\* Bound: no more calls of generate begin than there are cookies to draw.
Spare ==
  Cardinality(drawn)
    + Cardinality({c \in Clients : task[c] # None /\ task[c].cookie = None})
    < Cardinality(Cookies)

Next ==
  \/ Tick
  \/ \E c \in Clients :
       \/ Spare /\ \E a \in Accounts : Begin(c, "prune", None, a)
       \/ \E k \in drawn, op \in {"get", "refresh"} : Begin(c, op, k, None)
       \/ prune(c) \/ Stamp(c) \/ get(c) \/ refresh(c)
       \/ \E k \in Cookies : generate(c, k)
  \/ \E k \in Cookies : delete(k)

Spec == Init /\ [][Next]_vars

-----------------------------------------------------------------------------
TypeOK ==
  /\ DOMAIN cookies \subseteq drawn /\ drawn \subseteq Cookies
  /\ cookies \in [DOMAIN cookies -> Entry]
  /\ clock \in Nat
  /\ task \in [Clients -> {None} \cup Task]
  /\ served \in [Clients -> {None} \cup
       [cookie: Cookies, saw: Nat \cup {None}, since: Nat]]
  /\ revived \subseteq drawn

(***************************************************************************)
(* get refuses what is unknown or has expired.  A cookie that was gone     *)
(* when the call began is never served; one that had expired then, only if *)
(* a refresh that had begun in time was late to write.                     *)
(***************************************************************************)
ExpiredRefused ==
  \A c \in Clients :
    served[c] # None =>
      /\ served[c].saw # None
      /\ served[c].saw <= served[c].since => served[c].cookie \in revived

(***************************************************************************)
(* refresh resets the TTL: an expiry moves back only by a refresh that had *)
(* begun before that expiry was written, and a cookie that is still good   *)
(* goes by delete alone, whatever time those who prune have read.          *)
(***************************************************************************)
RefreshHolds ==
  [][\A k \in DOMAIN cookies :
       LET expiry == cookies[k].expires_at IN
       /\ k \in DOMAIN cookies' /\ cookies'[k].expires_at < expiry
            => \E c \in Clients :
                 /\ Doing(c, "refresh") /\ task'[c] = None
                 /\ task[c].cookie = k /\ task[c].saw # expiry
       /\ k \notin DOMAIN cookies' /\ expiry > clock
            => \A c \in Clients : task'[c] = task[c]]_vars
=============================================================================

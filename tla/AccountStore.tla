----------------------------- MODULE AccountStore -----------------------------
(***************************************************************************)
(* BaseAccountStore (identity/src/account.rs): accounts behind one RwLock, *)
(* and pruning of those that never got a login.  prune_expired reads the   *)
(* clock before it waits for the lock; create lets go of the lock between  *)
(* pruning and inserting, get_setting between pruning and looking.         *)
(***************************************************************************)
EXTENDS Naturals, FiniteSets

CONSTANTS
  Clients,     \* the tasks that share the store
  Ids,         \* the UUIDs create draws; bound on the accounts
  Values,      \* what the one setting modelled may hold
  Expiry,      \* how long an account without a login is kept
  MaxTime,     \* bound on the clock
  MaxLogins,   \* bound on the logins of an account
  None

\* Of the constants.
AccountAssumption ==
  /\ Expiry \in Nat /\ MaxTime \in Nat /\ MaxLogins \in Nat
  /\ None \notin Ids /\ None \notin Values

VARIABLES
  accounts,   \* AccountRow by id
  clock,
  task,       \* what a task in the middle of create or get_setting holds
  served,     \* the account, and its setting, its last get_setting found
  linked,     \* history: the ids increment_login_count has returned Ok for
  drawn,      \* history: the ids of all accounts ever
  deleted     \* history: the ids delete has returned Ok for

vars == <<accounts, clock, task, served, linked, drawn, deleted>>

-----------------------------------------------------------------------------
Row == [logins: Nat, setting: Values \cup {None}, created_at: Nat]

\* id is the account get_setting is about, None for create; now is the time
\* the task has read; idle is history, see Idle.
Task == [step: {"prune", "look", "stamp", "insert"}, id: Ids \cup {None},
         now: Nat, idle: SUBSET Ids]

Put(m, k, v) == [x \in DOMAIN m \cup {k} |-> IF x = k THEN v ELSE m[x]]
Keep(m, ks)  == [x \in DOMAIN m \cap ks |-> m[x]]

\* The accounts that, at this moment, ought to be cleaned up.
Idle == {id \in DOMAIN accounts :
           accounts[id].logins = 0 /\ accounts[id].created_at + Expiry <= clock}

Init ==
  /\ accounts = [id \in {} |-> None]
  /\ clock = 0
  /\ task = [c \in Clients |-> None]
  /\ served = [c \in Clients |-> None]
  /\ linked = {} /\ drawn = {} /\ deleted = {}

Tick ==
  /\ clock < MaxTime
  /\ clock' = clock + 1
  /\ UNCHANGED <<accounts, task, served, linked, drawn, deleted>>

history == <<linked, drawn, deleted>>

\* create (of None) or get_setting begins: prune_expired reads the clock.
Begin(c, id) ==
  /\ task[c] = None
  /\ task' = [task EXCEPT ![c] =
                [step |-> "prune", id |-> id, now |-> clock, idle |-> Idle]]
  /\ served' = [served EXCEPT ![c] = None]
  /\ UNCHANGED <<accounts, clock, history>>

At(c, step) == task[c] # None /\ task[c].step = step

Goto(c, step) == task' = [task EXCEPT ![c].step = step]

\* duration_since saturates: what was created after now has no age.
Age(row, now) == IF now > row.created_at THEN now - row.created_at ELSE 0

Elapsed_Strict(row, now) == Age(row, now) > Expiry  \* faulty: an instant late
Elapsed_Wraps(row, now) ==    \* faulty: the difference wraps around
  now < row.created_at \/ Age(row, now) >= Expiry

Elapsed(row, now) == Age(row, now) >= Expiry

prune_expired(c) ==
  /\ At(c, "prune")
  /\ accounts' = Keep(accounts,
       {id \in DOMAIN accounts : ~(/\ accounts[id].logins = 0
                                   /\ Elapsed(accounts[id], task[c].now))})
  /\ Goto(c, IF task[c].id = None THEN "stamp" ELSE "look")
  /\ UNCHANGED <<clock, served, history>>

\* get_setting, under its own read lock.
get_setting(c) ==
  /\ At(c, "look")
  /\ task' = [task EXCEPT ![c] = None]
  /\ served' = [served EXCEPT ![c] =
       LET id == task[c].id IN
       IF id \notin DOMAIN accounts THEN None
       ELSE [id |-> id, setting |-> accounts[id].setting,
             idle |-> id \in task[c].idle]]
  /\ UNCHANGED <<accounts, clock, history>>

\* create reads the clock again for created_at, ...
Stamp(c) ==
  /\ At(c, "stamp")
  /\ task' = [task EXCEPT ![c].step = "insert", ![c].now = clock]
  /\ UNCHANGED <<accounts, clock, served, history>>

\* ... waits for the lock once more, and inserts.
create(c, id) ==
  /\ At(c, "insert")
  /\ id \notin drawn
  /\ accounts' = Put(accounts, id, [logins |-> 0, setting |-> None,
                                    created_at |-> task[c].now])
  /\ task' = [task EXCEPT ![c] = None]
  /\ drawn' = drawn \cup {id}
  /\ UNCHANGED <<clock, served, linked, deleted>>

\* What the next three bail on changes nothing and is no step.
increment_login_count(id) ==
  /\ id \in DOMAIN accounts /\ accounts[id].logins < MaxLogins
  /\ accounts' = [accounts EXCEPT ![id].logins = @ + 1]
  /\ linked' = linked \cup {id}
  /\ UNCHANGED <<clock, task, served, drawn, deleted>>

decrement_login_count_ToZero(id) ==   \* faulty: the last login can go
  /\ id \in DOMAIN accounts /\ accounts[id].logins > 0
  /\ accounts' = [accounts EXCEPT ![id].logins = @ - 1]
  /\ UNCHANGED <<clock, task, served, history>>

decrement_login_count(id) ==
  /\ id \in DOMAIN accounts /\ accounts[id].logins > 1
  /\ accounts' = [accounts EXCEPT ![id].logins = @ - 1]
  /\ UNCHANGED <<clock, task, served, history>>

update_setting_Upserts(id, v) ==   \* faulty: no account is needed
  /\ id \in drawn
  /\ accounts' = Put(accounts, id, [logins |-> 0, setting |-> v,
                                    created_at |-> clock])
  /\ UNCHANGED <<clock, task, served, history>>

update_setting(id, v) ==
  /\ id \in DOMAIN accounts
  /\ accounts' = [accounts EXCEPT ![id].setting = v]
  /\ UNCHANGED <<clock, task, served, history>>

delete(id) ==
  /\ id \in DOMAIN accounts
  /\ accounts' = Keep(accounts, Ids \ {id})
  /\ deleted' = deleted \cup {id}
  /\ UNCHANGED <<clock, task, served, linked, drawn>>

\* Bound: no more calls of create begin than there are ids to draw.
Spare ==
  Cardinality(drawn)
    + Cardinality({c \in Clients : task[c] # None /\ task[c].id = None})
    < Cardinality(Ids)

Next ==
  \/ Tick
  \/ \E c \in Clients :
       \/ \E id \in Ids : Begin(c, id)
       \/ Spare /\ Begin(c, None)
       \/ prune_expired(c) \/ get_setting(c) \/ Stamp(c)
       \/ \E id \in Ids : create(c, id)
  \/ \E id \in Ids :
       \/ increment_login_count(id) \/ decrement_login_count(id) \/ delete(id)
       \/ \E v \in Values : update_setting(id, v)

Spec == Init /\ [][Next]_vars

-----------------------------------------------------------------------------
TypeOK ==
  /\ DOMAIN accounts \subseteq drawn \ deleted
  /\ accounts \in [DOMAIN accounts -> Row]
  /\ clock \in Nat
  /\ task \in [Clients -> {None} \cup Task]
  /\ served \in [Clients -> {None} \cup
       [id: Ids, setting: Values \cup {None}, idle: BOOLEAN]]
  /\ linked \cup deleted \subseteq drawn /\ drawn \subseteq Ids

(***************************************************************************)
(* An account that has got a login is never without one again, and stays   *)
(* until delete is called for it: no task that decided on pruning earlier, *)
(* and no sequence of counts, takes it away.                               *)
(***************************************************************************)
LinkedAccountsLive ==
  \A id \in linked \ deleted :
    id \in DOMAIN accounts /\ accounts[id].logins >= 1

(***************************************************************************)
(* get_setting answers for an account that had outlived its expiry without *)
(* a login when the call began only if it has got one since, although it   *)
(* looks under another lock than it prunes.                                *)
(***************************************************************************)
IdleNotServed ==
  \A c \in Clients :
    served[c] # None /\ served[c].idle => served[c].id \in linked

(***************************************************************************)
(* Pruning never takes an account before its expiry, whenever the clock    *)
(* was read: what goes without delete had no login and was old enough.     *)
(***************************************************************************)
NeverPrunedEarly ==
  [][\A id \in DOMAIN accounts \ DOMAIN accounts' :
       id \in Idle \/ id \in deleted']_vars
=============================================================================

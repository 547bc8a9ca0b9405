-------------------------- MODULE AccountStoreProofs --------------------------
(***************************************************************************)
(* Theorems about AccountStore, for any tasks, ids and expiry.             *)
(***************************************************************************)
EXTENDS AccountStore, TLAPS

-----------------------------------------------------------------------------
LEMMA PutFacts ==
  ASSUME NEW m, NEW k, NEW v
  PROVE  /\ DOMAIN Put(m, k, v) = DOMAIN m \cup {k}
         /\ Put(m, k, v)[k] = v
         /\ \A x \in DOMAIN m \ {k} : Put(m, k, v)[x] = m[x]
BY DEF Put

LEMMA PutTyped ==
  ASSUME NEW m, NEW k, NEW v, NEW S, v \in S, m \in [DOMAIN m -> S]
  PROVE  Put(m, k, v) \in [DOMAIN m \cup {k} -> S]
BY DEF Put

LEMMA KeepFacts ==
  ASSUME NEW m, NEW ks
  PROVE  /\ DOMAIN Keep(m, ks) = DOMAIN m \cap ks
         /\ \A x \in DOMAIN Keep(m, ks) : Keep(m, ks)[x] = m[x]
BY DEF Keep

LEMMA KeepTyped ==
  ASSUME NEW m, NEW ks, NEW S, m \in [DOMAIN m -> S]
  PROVE  Keep(m, ks) \in [DOMAIN m \cap ks -> S]
BY DEF Keep

\* What the rows of a well-typed store hold.
LEMMA Rows ==
  ASSUME TypeOK, NEW id \in DOMAIN accounts
  PROVE  /\ accounts[id] \in Row
         /\ accounts[id].logins \in Nat /\ accounts[id].created_at \in Nat
         /\ accounts[id].setting \in Values \cup {None}
         /\ id \in Ids /\ id \in drawn /\ id \notin deleted
BY DEF TypeOK, Row

\* What a task in the middle of an operation holds.
LEMMA Tasks ==
  ASSUME TypeOK, NEW c \in Clients, task[c] # None
  PROVE  task[c] \in Task /\ task[c].now \in Nat /\ task[c].idle \subseteq Ids
BY DEF TypeOK, Task

-----------------------------------------------------------------------------
(***************************************************************************)
(* The properties are not inductive.  That what is pruned was old enough   *)
(* needs that the times tasks and rows hold have passed; that what was     *)
(* idle is not served needs that pruning has dealt with it by then.        *)
(***************************************************************************)
TimesPast ==
  /\ \A c \in Clients : task[c] # None => task[c].now <= clock
  /\ \A id \in DOMAIN accounts : accounts[id].created_at <= clock

LoginsAreLinks ==
  \A id \in DOMAIN accounts : accounts[id].logins # 0 => id \in linked

IdleDealtWith ==
  \A c \in Clients : task[c] # None =>
    \A id \in task[c].idle :
      /\ id \in drawn
      /\ id \in DOMAIN accounts =>
           \/ id \in linked
           \/ /\ task[c].step = "prune"
              /\ accounts[id].created_at + Expiry <= task[c].now

IInv ==
  /\ TypeOK /\ TimesPast /\ LoginsAreLinks /\ IdleDealtWith
  /\ LinkedAccountsLive /\ IdleNotServed

LEMMA InitIInv == ASSUME AccountAssumption PROVE Init => IInv
<1> SUFFICES ASSUME Init PROVE IInv
  OBVIOUS
<1>1. TypeOK
  BY DEF Init, TypeOK
<1>2. QED
  BY <1>1 DEF Init, IInv, TimesPast, LoginsAreLinks, IdleDealtWith,
              LinkedAccountsLive, IdleNotServed

\* Age says what it should of times that are numbers.
LEMMA ElapsedMeans ==
  ASSUME AccountAssumption, NEW row \in Row, NEW now \in Nat,
         row.created_at <= clock, now <= clock, clock \in Nat
  PROVE  /\ Elapsed(row, now) => row.created_at + Expiry <= clock
         /\ row.created_at + Expiry <= now => Elapsed(row, now)
BY DEF AccountAssumption, Row, Elapsed, Age

\* What a row that stays keeps: the steps that change rows one by one.
RowsStand ==
  /\ DOMAIN accounts' \subseteq DOMAIN accounts
  /\ \A id \in DOMAIN accounts' :
       /\ accounts'[id].created_at = accounts[id].created_at
       /\ accounts'[id].logins # 0 =>
            accounts[id].logins # 0 \/ id \in linked'

LEMMA StepIInv == ASSUME AccountAssumption PROVE IInv /\ [Next]_vars => IInv'
<1> SUFFICES ASSUME IInv, [Next]_vars PROVE IInv'
  OBVIOUS
<1> USE DEF IInv
<1>0. TypeOK /\ clock \in Nat /\ Expiry \in Nat
  BY DEF TypeOK, AccountAssumption
<1>b. \A x \in linked \ deleted : x \in DOMAIN accounts /\ accounts[x].logins # 0
  BY <1>0, Rows DEF LinkedAccountsLive
\* The invariants but the type, of a step that takes no account in.
<1>a. ASSUME TypeOK', UNCHANGED clock, RowsStand, UNCHANGED <<task, served, drawn>>,
             linked \subseteq linked', linked' \subseteq linked \cup DOMAIN accounts',
             \A id \in DOMAIN accounts : id \in DOMAIN accounts' \/ id \in deleted',
             \A id \in linked' \ deleted' : id \in DOMAIN accounts' => accounts'[id].logins # 0,
             deleted \subseteq deleted'
      PROVE  IInv'
  <2>1. TimesPast'
    BY <1>a DEF TimesPast, RowsStand
  <2>2. LoginsAreLinks'
    BY <1>a DEF LoginsAreLinks, RowsStand
  <2>3. IdleDealtWith'
    BY <1>a DEF IdleDealtWith, RowsStand
  <2>4. LinkedAccountsLive'
    <3> SUFFICES ASSUME NEW id \in linked' \ deleted'
                 PROVE  id \in DOMAIN accounts' /\ accounts'[id].logins >= 1
      BY DEF LinkedAccountsLive
    <3>1. id \in DOMAIN accounts'
      BY <1>a DEF LinkedAccountsLive
    <3>2. accounts'[id].logins # 0
      BY <1>a, <3>1
    <3>3. accounts'[id] \in Row
      BY <1>a, <3>1 DEF TypeOK
    <3>4. QED
      BY <3>1, <3>2, <3>3 DEF Row
  <2>5. IdleNotServed'
    BY <1>a DEF IdleNotServed
  <2>6. QED
    BY <1>a, <2>1, <2>2, <2>3, <2>4, <2>5
<1>1. CASE Tick
  <2> USE <1>1 DEF Tick
  <2>1. TypeOK'
    BY DEF TypeOK
  <2>2. TimesPast'
    <3>1. ASSUME NEW c \in Clients, task[c] # None PROVE task[c].now <= clock + 1
      BY <1>0, <3>1, Tasks DEF TimesPast
    <3>2. ASSUME NEW id \in DOMAIN accounts PROVE accounts[id].created_at <= clock + 1
      BY <1>0, Rows DEF TimesPast
    <3>3. QED
      BY <3>1, <3>2 DEF TimesPast
  <2>3. QED
    BY <2>1, <2>2
    DEF LoginsAreLinks, IdleDealtWith, LinkedAccountsLive, IdleNotServed
<1>2. ASSUME NEW c \in Clients, NEW id \in Ids \cup {None}, Begin(c, id) PROVE IInv'
  <2> USE <1>2 DEF Begin, history
  <2> DEFINE t == [step |-> "prune", id |-> id, now |-> clock, idle |-> Idle]
  <2>1. Idle \subseteq DOMAIN accounts /\ Idle \subseteq Ids
    BY <1>0 DEF Idle, TypeOK
  <2>2. t \in Task
    BY <1>0, <2>1 DEF Task
  <2>3. TypeOK'
    BY <2>2 DEF TypeOK
  <2>4. TimesPast'
    BY <1>0 DEF TimesPast, TypeOK
  <2>5. IdleDealtWith'
    BY <2>1 DEF IdleDealtWith, Idle, TypeOK
  <2>6. LoginsAreLinks' /\ LinkedAccountsLive' /\ IdleNotServed'
    BY DEF LoginsAreLinks, LinkedAccountsLive, IdleNotServed, TypeOK
  <2>7. QED
    BY <2>3, <2>4, <2>5, <2>6
<1>3. ASSUME NEW c \in Clients, prune_expired(c) PROVE IInv'
  <2> USE <1>3 DEF prune_expired, history
  <2>0. task[c] # None /\ task[c].step = "prune" /\ task[c] \in Task
    BY <1>0, Tasks DEF At
  <2> DEFINE old == {id \in DOMAIN accounts : ~(/\ accounts[id].logins = 0
                                               /\ Elapsed(accounts[id], task[c].now))}
  <2>1. /\ DOMAIN accounts' = old
        /\ \A id \in old : accounts'[id] = accounts[id]
        /\ accounts' \in [old -> Row]
    <3>1. accounts' = Keep(accounts, old) /\ DOMAIN accounts \cap old = old
      OBVIOUS
    <3>2. accounts \in [DOMAIN accounts -> Row]
      BY <1>0 DEF TypeOK
    <3>3. accounts' \in [DOMAIN accounts \cap old -> Row]
      BY ONLY <3>1, <3>2, KeepTyped
    <3>4. /\ DOMAIN accounts' = DOMAIN accounts \cap old
          /\ \A id \in DOMAIN accounts' : accounts'[id] = accounts[id]
      BY ONLY <3>1, KeepFacts
    <3>5. QED
      BY ONLY <3>1, <3>3, <3>4
  <2>2. /\ \A d \in Clients \ {c} : task'[d] = task[d]
        /\ task'[c] \in Task
        /\ task'[c].step # "prune"
        /\ task'[c].now = task[c].now /\ task'[c].idle = task[c].idle
    BY <1>0, <2>0 DEF Goto, TypeOK, Task
  <2>3. TypeOK'
    <3>1. task' \in [Clients -> {None} \cup Task]
      BY <1>0, <2>2 DEF Goto, TypeOK
    <3>2. QED
      BY <1>0, <2>1, <3>1 DEF TypeOK
  <2>4. TimesPast'
    <3>1. \A d \in Clients : task'[d] # None =>
            task[d] # None /\ task'[d].now = task[d].now
      BY <2>0, <2>2
    <3>2. QED
      BY <2>1, <3>1 DEF TimesPast
  <2>5. LoginsAreLinks'
    BY <2>1 DEF LoginsAreLinks
  <2>6. IdleDealtWith'
    <3> SUFFICES ASSUME NEW d \in Clients, task'[d] # None, NEW id \in task'[d].idle
                 PROVE  /\ id \in drawn
                        /\ id \in old =>
                             \/ id \in linked
                             \/ /\ task'[d].step = "prune"
                                /\ accounts[id].created_at + Expiry <= task'[d].now
      BY <2>1 DEF IdleDealtWith
    <3>1. CASE d # c
      BY <2>2, <3>1 DEF IdleDealtWith
    <3>2. CASE d = c
      <4>1. id \in drawn /\ (id \in old =>
              \/ id \in linked
              \/ accounts[id].created_at + Expiry <= task[c].now)
        BY <2>0, <2>2, <3>2 DEF IdleDealtWith
      <4>2. ASSUME id \in old, accounts[id].created_at + Expiry <= task[c].now
            PROVE  id \in linked
        <5>1. Elapsed(accounts[id], task[c].now)
          BY <1>0, <2>0, <4>2, Rows, Tasks, ElapsedMeans DEF TimesPast
        <5>2. QED
          BY <4>2, <5>1 DEF LoginsAreLinks
      <4>3. QED
        BY <4>1, <4>2
    <3>3. QED
      BY <3>1, <3>2
  <2>7. LinkedAccountsLive'
    <3>1. \A id \in DOMAIN accounts : accounts[id].logins >= 1 => id \in old
      BY <1>0, Rows
    <3>2. QED
      BY <2>1, <3>1 DEF LinkedAccountsLive
  <2>8. IdleNotServed'
    BY DEF IdleNotServed
  <2>9. QED
    BY <2>3, <2>4, <2>5, <2>6, <2>7, <2>8
<1>4. ASSUME NEW c \in Clients, get_setting(c) PROVE IInv'
  <2> USE <1>4 DEF get_setting, history
  <2>0. task[c] # None /\ task[c].step = "look" /\ task[c] \in Task
    BY <1>0, Tasks DEF At
  <2>1. task' \in [Clients -> {None} \cup Task]
    BY <1>0 DEF TypeOK
  <2> DEFINE id == task[c].id
             found == [id |-> id, setting |-> accounts[id].setting,
                       idle |-> id \in task[c].idle]
  <2>2. /\ served'[c] = IF id \notin DOMAIN accounts THEN None ELSE found
        /\ \A d \in Clients \ {c} : served'[d] = served[d]
    BY <1>0 DEF TypeOK
  <2>3. TypeOK'
    <3>1. served'[c] \in {None} \cup
            [id: Ids, setting: Values \cup {None}, idle: BOOLEAN]
      <4>1. CASE id \notin DOMAIN accounts
        BY <2>2, <4>1
      <4>2. CASE id \in DOMAIN accounts
        <5>1. id \in Ids /\ accounts[id].setting \in Values \cup {None}
          BY <1>0, <4>2, Rows
        <5>2. (id \in task[c].idle) \in BOOLEAN
          OBVIOUS
        <5>3. found \in [id: Ids, setting: Values \cup {None}, idle: BOOLEAN]
          BY <5>1, <5>2
        <5> HIDE DEF found
        <5>4. QED
          BY <2>2, <4>2, <5>3
      <4>3. QED
        BY <4>1, <4>2
    <3>2. QED
      BY <1>0, <2>1, <3>1 DEF TypeOK
  <2>4. TimesPast' /\ LoginsAreLinks' /\ IdleDealtWith' /\ LinkedAccountsLive'
    BY <1>0 DEF TimesPast, LoginsAreLinks, IdleDealtWith, LinkedAccountsLive, TypeOK
  <2>5. IdleNotServed'
    <3>1. id \in DOMAIN accounts /\ id \in task[c].idle => id \in linked
      BY <2>0 DEF IdleDealtWith
    <3> SUFFICES ASSUME NEW d \in Clients, served'[d] # None, served'[d].idle
                 PROVE  served'[d].id \in linked
      BY DEF IdleNotServed
    <3>2. CASE d # c
      BY <2>2, <3>2 DEF IdleNotServed
    <3>3. CASE d = c
      <4>1. id \in DOMAIN accounts /\ served'[c] = found
        BY <2>2, <3>3
      <4>2. served'[c].id = id /\ served'[c].idle = (id \in task[c].idle)
        BY <4>1
      <4>3. QED
        BY <3>1, <3>3, <4>1, <4>2
    <3>4. QED
      BY <3>2, <3>3
  <2>6. QED
    BY <2>3, <2>4, <2>5
<1>5. ASSUME NEW c \in Clients, Stamp(c) PROVE IInv'
  <2> USE <1>5 DEF Stamp, history
  <2>0. task[c] # None /\ task[c].step = "stamp" /\ task[c] \in Task
    BY <1>0, Tasks DEF At
  <2>1. /\ \A d \in Clients \ {c} : task'[d] = task[d]
        /\ task'[c] \in Task
        /\ task'[c].now = clock /\ task'[c].idle = task[c].idle
    BY <1>0, <2>0 DEF TypeOK, Task
  <2>2. TypeOK'
    <3>1. task' \in [Clients -> {None} \cup Task]
      BY <1>0, <2>1 DEF TypeOK
    <3>2. QED
      BY <1>0, <3>1 DEF TypeOK
  <2>3. TimesPast'
    <3>1. \A d \in Clients \ {c} : task'[d] # None =>
            task[d] # None /\ task'[d].now = task[d].now
      BY <2>1
    <3>2. \A d \in Clients : task'[d] # None => task'[d].now <= clock
      <4>1. \A d \in Clients \ {c} : task'[d] # None => task'[d].now <= clock
        BY <3>1 DEF TimesPast
      <4>2. task'[c].now <= clock
        BY <1>0, <2>1
      <4>3. QED
        BY <4>1, <4>2
    <3>3. QED
      BY <3>2 DEF TimesPast
  <2>4. IdleDealtWith'
    <3>1. \A d \in Clients : task'[d] # None =>
            /\ task[d] # None /\ task'[d].idle = task[d].idle
            /\ d # c => task'[d] = task[d]
      BY <2>0, <2>1
    <3>2. QED
      BY <2>0, <3>1 DEF IdleDealtWith
  <2>5. LoginsAreLinks' /\ LinkedAccountsLive' /\ IdleNotServed'
    BY DEF LoginsAreLinks, LinkedAccountsLive, IdleNotServed
  <2>6. QED
    BY <2>2, <2>3, <2>4, <2>5
<1>6. ASSUME NEW c \in Clients, NEW id \in Ids, create(c, id) PROVE IInv'
  <2> USE <1>6 DEF create
  <2>0. task[c] # None /\ task[c] \in Task /\ task[c].now \in Nat /\ task[c].now <= clock
    BY <1>0, Tasks DEF At, TimesPast
  <2> DEFINE row == [logins |-> 0, setting |-> None, created_at |-> task[c].now]
  <2>1. row \in Row
    BY <2>0 DEF Row
  <2>2. /\ DOMAIN accounts' = DOMAIN accounts \cup {id}
        /\ accounts'[id] = row
        /\ \A x \in DOMAIN accounts \ {id} : accounts'[x] = accounts[x]
        /\ accounts' \in [DOMAIN accounts' -> Row]
    <3>1. accounts' = Put(accounts, id, row)
      OBVIOUS
    <3>2. accounts \in [DOMAIN accounts -> Row]
      BY <1>0 DEF TypeOK
    <3>3. accounts' \in [DOMAIN accounts \cup {id} -> Row]
      BY ONLY <2>1, <3>1, <3>2, PutTyped
    <3>4. /\ DOMAIN accounts' = DOMAIN accounts \cup {id}
          /\ accounts'[id] = row
          /\ \A x \in DOMAIN accounts \ {id} : accounts'[x] = accounts[x]
      <4> HIDE DEF row
      <4>1. QED
        BY ONLY <3>1 DEF Put
    <3>5. QED
      BY ONLY <3>3, <3>4
  <2>3. id \notin DOMAIN accounts /\ id \notin linked /\ id \notin deleted
    BY <1>0 DEF TypeOK
  <2>4. TypeOK'
    <3>1. task' \in [Clients -> {None} \cup Task]
      BY <1>0 DEF TypeOK
    <3>2. QED
      BY <1>0, <2>2, <2>3, <3>1 DEF TypeOK
  <2>5. TimesPast'
    BY <1>0, <2>0, <2>2, <2>3 DEF TimesPast, TypeOK
  <2>6. LoginsAreLinks' /\ LinkedAccountsLive' /\ IdleNotServed'
    BY <2>2, <2>3 DEF LoginsAreLinks, LinkedAccountsLive, IdleNotServed
  <2>7. IdleDealtWith'
    <3>1. \A d \in Clients : task'[d] # None => task'[d] = task[d]
      BY <1>0 DEF TypeOK
    <3>2. QED
      BY <2>2, <3>1 DEF IdleDealtWith
  <2>8. QED
    BY <2>4, <2>5, <2>6, <2>7
<1>7. ASSUME NEW id \in Ids, increment_login_count(id) PROVE IInv'
  <2> USE <1>7 DEF increment_login_count
  <2>1. accounts[id] \in Row /\ accounts[id].logins \in Nat /\ id \in drawn
    BY <1>0, Rows
  <2>2. /\ accounts' \in [DOMAIN accounts -> Row]
        /\ accounts'[id].logins = accounts[id].logins + 1
        /\ accounts'[id].created_at = accounts[id].created_at
        /\ \A x \in DOMAIN accounts \ {id} : accounts'[x] = accounts[x]
    BY <1>0, <2>1 DEF TypeOK, Row
  <2>3. TypeOK'
    BY <1>0, <2>1, <2>2 DEF TypeOK
  <2>4. RowsStand
    BY <2>2 DEF RowsStand
  <2>5. \A x \in linked' \ deleted' : x \in DOMAIN accounts' => accounts'[x].logins # 0
    BY <1>0, <2>1, <2>2, Rows DEF LinkedAccountsLive
  <2>6. DOMAIN accounts' = DOMAIN accounts
    BY <2>2
  <2>7. QED
    BY <1>a, <2>3, <2>4, <2>5, <2>6
<1>8. ASSUME NEW id \in Ids, decrement_login_count(id) PROVE IInv'
  <2> USE <1>8 DEF decrement_login_count, history
  <2>1. accounts[id] \in Row /\ accounts[id].logins \in Nat
    BY <1>0, Rows
  <2>2. /\ accounts' \in [DOMAIN accounts -> Row]
        /\ accounts'[id].logins = accounts[id].logins - 1
        /\ accounts'[id].created_at = accounts[id].created_at
        /\ \A x \in DOMAIN accounts \ {id} : accounts'[x] = accounts[x]
    BY <1>0, <2>1 DEF TypeOK, Row
  <2>3. TypeOK'
    BY <1>0, <2>2 DEF TypeOK
  <2>4. RowsStand
    BY <2>1, <2>2 DEF RowsStand
  <2>5. \A x \in linked' \ deleted' : x \in DOMAIN accounts' => accounts'[x].logins # 0
    BY <1>0, <2>1, <2>2, Rows DEF LinkedAccountsLive
  <2>6. DOMAIN accounts' = DOMAIN accounts
    BY <2>2
  <2>7. QED
    BY <1>a, <2>3, <2>4, <2>5, <2>6
<1>9. ASSUME NEW id \in Ids, NEW v \in Values, update_setting(id, v) PROVE IInv'
  <2> USE <1>9 DEF update_setting, history
  <2>1. accounts[id] \in Row
    BY <1>0, Rows
  <2>2. /\ accounts' \in [DOMAIN accounts -> Row]
        /\ accounts'[id].logins = accounts[id].logins
        /\ accounts'[id].created_at = accounts[id].created_at
        /\ \A x \in DOMAIN accounts \ {id} : accounts'[x] = accounts[x]
    BY <1>0, <2>1 DEF TypeOK, Row
  <2>3. TypeOK'
    BY <1>0, <2>2 DEF TypeOK
  <2>4. RowsStand
    BY <2>1, <2>2 DEF RowsStand
  <2>5. \A x \in linked' \ deleted' : x \in DOMAIN accounts' => accounts'[x].logins # 0
    BY <1>0, <2>1, <2>2, Rows DEF LinkedAccountsLive
  <2>6. DOMAIN accounts' = DOMAIN accounts
    BY <2>2
  <2>7. QED
    BY <1>a, <2>3, <2>4, <2>5, <2>6
<1>10. ASSUME NEW id \in Ids, delete(id) PROVE IInv'
  <2> USE <1>10 DEF delete
  <2>1. /\ DOMAIN accounts' = DOMAIN accounts \ {id}
        /\ \A x \in DOMAIN accounts' : accounts'[x] = accounts[x]
        /\ accounts' \in [DOMAIN accounts' -> Row]
    <3>1. accounts' = Keep(accounts, Ids \ {id})
      OBVIOUS
    <3>2. accounts \in [DOMAIN accounts -> Row] /\ DOMAIN accounts \subseteq Ids
      BY <1>0 DEF TypeOK
    <3>3. accounts' \in [DOMAIN accounts \cap (Ids \ {id}) -> Row]
      BY ONLY <3>1, <3>2, KeepTyped
    <3>4. QED
      BY ONLY <3>1, <3>2, <3>3, KeepFacts
  <2>2. TypeOK'
    BY <1>0, <2>1 DEF TypeOK
  <2>3. RowsStand
    BY <2>1 DEF RowsStand
  <2>4. \A x \in linked' \ deleted' : x \in DOMAIN accounts' => accounts'[x].logins # 0
    BY <1>b, <2>1
  <2>5. linked' \subseteq linked \cup DOMAIN accounts'
    OBVIOUS
  <2>6. QED
    BY <1>a, <2>1, <2>2, <2>3, <2>4, <2>5
<1>11. CASE UNCHANGED vars
  BY <1>11 DEF vars, TypeOK, TimesPast, LoginsAreLinks, IdleDealtWith,
               LinkedAccountsLive, IdleNotServed
<1>12. QED
  <2>1. CASE Next
    BY <1>1, <1>2, <1>3, <1>4, <1>5, <1>6, <1>7, <1>8, <1>9, <1>10, <2>1 DEF Next
  <2>2. QED
    BY <1>11, <2>1

\* Everything the theorems need of a behaviour.
LEMMA Invariants == ASSUME AccountAssumption PROVE Spec => []IInv
<1>1. Init => IInv
  BY InitIInv
<1>2. IInv /\ [Next]_vars => IInv'
  BY StepIInv
<1>3. QED
  BY <1>1, <1>2, PTL DEF Spec

(***************************************************************************)
(* Every state has its type.                                               *)
(***************************************************************************)
THEOREM AccountsTyped == ASSUME AccountAssumption PROVE Spec => []TypeOK
<1>1. IInv => TypeOK
  BY DEF IInv
<1>2. QED
  BY <1>1, Invariants, PTL

(***************************************************************************)
(* An account that has got a login is never without one, and stays until   *)
(* it is deleted (increment_, decrement_login_count, prune_expired).       *)
(***************************************************************************)
THEOREM LinkedAccountsSurvive ==
  ASSUME AccountAssumption PROVE Spec => []LinkedAccountsLive
<1>1. IInv => LinkedAccountsLive
  BY DEF IInv
<1>2. QED
  BY <1>1, Invariants, PTL

(***************************************************************************)
(* get_setting does not answer for an account that had expired without a   *)
(* login when the call began and has not got one since.                    *)
(***************************************************************************)
THEOREM IdleRefused == ASSUME AccountAssumption PROVE Spec => []IdleNotServed
<1>1. IInv => IdleNotServed
  BY DEF IInv
<1>2. QED
  BY <1>1, Invariants, PTL

(***************************************************************************)
(* prune_expired removes what had no login and was old enough, whenever    *)
(* its task read the clock.                                                *)
(***************************************************************************)
THEOREM PrunedInTime == ASSUME AccountAssumption PROVE Spec => NeverPrunedEarly
<1>1. ASSUME IInv, [Next]_vars
      PROVE  [\A id \in DOMAIN accounts \ DOMAIN accounts' :
                id \in Idle \/ id \in deleted']_vars
  <2> SUFFICES ASSUME Next, NEW id \in DOMAIN accounts \ DOMAIN accounts'
               PROVE  id \in Idle \/ id \in deleted'
    BY <1>1
  <2> USE <1>1 DEF IInv
  <2>0. TypeOK /\ clock \in Nat
    BY DEF TypeOK
  <2>1. CASE \E c \in Clients : prune_expired(c)
    <3>1. PICK c \in Clients : prune_expired(c)
      BY <2>1
    <3>2. task[c] # None
      BY <3>1 DEF prune_expired, At
    <3>a. task[c].now \in Nat /\ task[c].now <= clock
      BY <2>0, <3>2, Tasks DEF TimesPast
    <3>3. accounts[id].logins = 0 /\ Elapsed(accounts[id], task[c].now)
      <4> DEFINE old == {x \in DOMAIN accounts :
                           ~(/\ accounts[x].logins = 0
                             /\ Elapsed(accounts[x], task[c].now))}
      <4>1. accounts' = Keep(accounts, old)
        BY <3>1 DEF prune_expired
      <4>2. DOMAIN accounts' = DOMAIN accounts \cap old
        BY ONLY <4>1, KeepFacts
      <4>3. QED
        BY <4>2
    <3>4. accounts[id].created_at + Expiry <= clock
      BY <2>0, <3>a, <3>3, Rows, ElapsedMeans DEF TimesPast
    <3>5. QED
      BY <3>3, <3>4 DEF Idle
  <2>2. CASE \E x \in Ids : delete(x)
    <3>1. PICK x \in Ids : delete(x)
      BY <2>2
    <3>2. id = x
      BY <2>0, <3>1, KeepFacts, Rows DEF delete
    <3>3. QED
      BY <3>1, <3>2 DEF delete
  <2>3. CASE \E c \in Clients, x \in Ids : create(c, x)
    <3>1. PICK c \in Clients, x \in Ids : create(c, x)
      BY <2>3
    <3>2. DOMAIN accounts' = DOMAIN accounts \cup {x}
      BY <3>1, PutFacts DEF create
    <3>3. QED
      BY <3>2
  <2>4. CASE ~ \/ \E c \in Clients : prune_expired(c)
               \/ \E x \in Ids : delete(x)
               \/ \E c \in Clients, x \in Ids : create(c, x)
    <3>1. DOMAIN accounts' = DOMAIN accounts
      BY <2>0, <2>4 DEF Next, Tick, Begin, get_setting, Stamp, increment_login_count,
                  decrement_login_count, update_setting, TypeOK
    <3>2. QED
      BY <3>1
  <2>5. QED
    BY <2>1, <2>2, <2>3, <2>4
<1>2. QED
  BY <1>1, Invariants, PTL DEF Spec, NeverPrunedEarly
=============================================================================

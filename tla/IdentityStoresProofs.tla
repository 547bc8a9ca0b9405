------------------------- MODULE IdentityStoresProofs -------------------------
(***************************************************************************)
(* What is proved of each identity store holds of all of them together:    *)
(* every behaviour of IdentitySpec is one of each store's own Spec, seen   *)
(* through the variables of that store.  Accounts and cookies look at one  *)
(* clock, so a step of one can be a tick of the other.                     *)
(***************************************************************************)
EXTENDS IdentityStores, TLAPS

AccountThms == INSTANCE AccountStoreProofs WITH
  Ids <- AccountIds, task <- account_task, deleted <- account_deleted
CookieThms == INSTANCE CookieStoreProofs WITH
  task <- cookie_task, served <- cookie_served, drawn <- cookie_drawn

-----------------------------------------------------------------------------
(*               Client credentials, for any tasks, ids and labels          *)

\* What the maps of a well-typed store hold.
LEMMA TypedMaps ==
  ASSUME TypeOK
  PROVE  /\ \A l \in DOMAIN by_label : l \in Labels /\ by_label[l] \in Ids
         /\ \A i \in DOMAIN given : given[i].label \in Labels
BY DEF TypeOK, Token

-----------------------------------------------------------------------------
(***************************************************************************)
(* FoundIsHonest is not inductive.  What a search is about to fetch must   *)
(* have the label it asked for, which the index has to promise; and what   *)
(* is in the store must not have been deleted, which holds because no id   *)
(* is drawn twice and a delete removes the token before it returns.        *)
(***************************************************************************)
Pending ==
  \A c \in Clients :
    /\ pc[c] # "idle" => arg[c] \in DOMAIN given
    /\ pc[c] = "delete" => arg[c] \notin DOMAIN by_id
    /\ pc[c] = "find" => given[arg[c]].label = asked[c]

IndexHonest ==
  \A l \in DOMAIN by_label :
    by_label[l] \in DOMAIN given /\ given[by_label[l]].label = l

StoreFresh ==
  DOMAIN by_id \subseteq DOMAIN given /\ DOMAIN by_id \cap deleted = {}

FoundIsGiven ==
  \A c \in Clients : ret[c] # None => ret[c] \in DOMAIN given

IInv == TypeOK /\ Pending /\ IndexHonest /\ StoreFresh /\ FoundIsGiven /\ FoundIsHonest

LEMMA InitIInv == Init => IInv
<1> SUFFICES ASSUME Init PROVE IInv
  OBVIOUS
<1> USE DEF Init
<1>1. TypeOK
  BY SentinelAssumption DEF TypeOK, EmptyMap
<1>2. QED
  BY <1>1
  DEF IInv, Pending, IndexHonest, StoreFresh, FoundIsGiven, FoundIsHonest, EmptyMap

LEMMA StepIInv == IInv /\ [Next]_vars => IInv'
<1> SUFFICES ASSUME IInv, [Next]_vars PROVE IInv'
  OBVIOUS
<1> USE SentinelAssumption
    DEF IInv, Pending, IndexHonest, StoreFresh, FoundIsGiven, FoundIsHonest,
        store, search, history, Suspend, Resume
<1>1. ASSUME NEW c \in Clients, NEW id \in Ids, NEW t \in Token, create(c, id, t)
      PROVE  IInv'
  <2> USE <1>1 DEF create
  <2>1. /\ by_id' \in [DOMAIN by_id' -> Token] /\ DOMAIN by_id' = DOMAIN by_id \cup {id}
        /\ given' \in [DOMAIN given' -> Token] /\ DOMAIN given' = DOMAIN given \cup {id}
    BY DEF With, TypeOK
  <2>2. before' \in [DOMAIN given' -> SUBSET Ids]
    <3>1. created \cap deleted \in SUBSET Ids
      BY DEF TypeOK
    <3>2. QED
      BY <2>1, <3>1 DEF With, TypeOK
  <2>a. \A i \in DOMAIN given : given'[i] = given[i]
    BY DEF With, TypeOK
  <2>3. TypeOK'
    BY <2>1, <2>2 DEF TypeOK
  <2>4. Pending'
    BY <2>1, <2>a DEF TypeOK
  <2>5. IndexHonest' /\ FoundIsGiven' /\ FoundIsHonest'
    BY <2>1, <2>a
  <2>6. StoreFresh'
    BY <2>1 DEF TypeOK
  <2>7. QED
    BY <2>3, <2>4, <2>5, <2>6
<1>2. ASSUME NEW c \in Clients, IndexLabel(c) PROVE IInv'
  <2> USE <1>2 DEF IndexLabel
  <2>1. arg[c] \in DOMAIN given /\ arg[c] \in Ids /\ given[arg[c]].label \in Labels
    BY TypedMaps DEF TypeOK
  <2> DEFINE l == given[arg[c]].label
  <2>2. /\ by_label' \in [DOMAIN by_label' -> Ids]
        /\ DOMAIN by_label' = DOMAIN by_label \cup {l}
    BY <2>1 DEF With, TypeOK
  <2>a. /\ \A x \in DOMAIN by_label \ {l} : by_label'[x] = by_label[x]
        /\ by_label'[l] = arg[c]
    BY DEF With
  <2>3. TypeOK'
    BY <2>1, <2>2 DEF TypeOK
  <2>4. IndexHonest'
    BY <2>1, <2>2, <2>a
  <2>5. Pending' /\ StoreFresh' /\ FoundIsGiven' /\ FoundIsHonest'
    BY DEF TypeOK
  <2>6. QED
    BY <2>3, <2>4, <2>5
<1>3. ASSUME NEW c \in Clients, NEW id \in Ids, delete(c, id) PROVE IInv'
  <2> USE <1>3 DEF delete
  <2>1. by_id' \in [DOMAIN by_id' -> Token] /\ DOMAIN by_id' = DOMAIN by_id \ {id}
    BY DEF Without, TypeOK
  <2>2. TypeOK'
    BY <2>1 DEF TypeOK
  <2>3. Pending'
    BY <2>1 DEF TypeOK
  <2>4. QED
    BY <2>1, <2>2, <2>3
<1>4. ASSUME NEW c \in Clients, UnindexLabel(c) PROVE IInv'
  <2> USE <1>4 DEF UnindexLabel
  <2>1. arg[c] \in DOMAIN given \ DOMAIN by_id
    OBVIOUS
  <2>2. by_label' \in [DOMAIN by_label' -> Ids] /\ DOMAIN by_label' \subseteq DOMAIN by_label
    BY DEF Without, TypeOK
  <2>a. \A l \in DOMAIN by_label' : by_label'[l] = by_label[l]
    BY DEF Without
  <2>3. TypeOK'
    BY <2>1, <2>2 DEF TypeOK
  <2>4. IndexHonest' /\ StoreFresh' /\ FoundIsGiven' /\ FoundIsHonest'
    BY <2>1, <2>2, <2>a
  <2>5. Pending'
    BY DEF TypeOK
  <2>6. QED
    BY <2>3, <2>4, <2>5
<1>5. ASSUME NEW c \in Clients, NEW l \in Labels, find_by_label(c, l) PROVE IInv'
  <2> USE <1>5 DEF find_by_label, Ask
  <2>1. l \in DOMAIN by_label => by_label[l] \in Ids
    BY TypedMaps
  <2>2. TypeOK'
    BY <2>1 DEF TypeOK
  <2>3. Pending'
    BY DEF TypeOK
  <2>4. FoundIsGiven' /\ FoundIsHonest'
    BY DEF TypeOK
  <2>5. QED
    BY <2>2, <2>3, <2>4
<1>6. ASSUME NEW c \in Clients, Fetch(c) PROVE IInv'
  <2> USE <1>6 DEF Fetch
  <2>1. TypeOK'
    BY DEF TypeOK
  <2>2. Pending'
    BY DEF TypeOK
  <2>3. FoundIsGiven'
    BY DEF TypeOK
  <2>4. FoundIsHonest'
    BY DEF TypeOK
  <2>5. QED
    BY <2>1, <2>2, <2>3, <2>4
<1>7. CASE UNCHANGED vars
  BY <1>7 DEF vars, TypeOK
<1>8. QED
  BY <1>1, <1>2, <1>3, <1>4, <1>5, <1>6, <1>7 DEF Next, Exhausted

(***************************************************************************)
(* The type invariant of the credentials store.                            *)
(***************************************************************************)
LEMMA CredentialsTyped == Spec => []TypeOK
<1>1. IInv => TypeOK
  BY DEF IInv
<1>2. QED
  BY <1>1, InitIInv, StepIInv, PTL DEF Spec

(***************************************************************************)
(* find_by_label returns a token of that label, and none that was deleted  *)
(* before the search began.                                                *)
(***************************************************************************)
THEOREM SearchesAreHonest == Spec => []FoundIsHonest
<1>1. IInv => FoundIsHonest
  BY DEF IInv
<1>2. QED
  BY <1>1, InitIInv, StepIInv, PTL DEF Spec

-----------------------------------------------------------------------------
(***************************************************************************)
(* LabelResolves is not inductive.  A lonely token keeps its label because *)
(* the others of that label have been created and deleted already, and the *)
(* second half of an operation is still to return: its token is neither,   *)
(* and no two tasks are in the same half of one token's life.              *)
(***************************************************************************)
NotYetReturned ==
  \A c \in Clients :
    /\ pc[c] = "create" => arg[c] \notin created
    /\ pc[c] = "delete" => arg[c] \notin deleted

OneTaskEach ==
  \A c, d \in Clients :
    c # d /\ pc[c] = pc[d] /\ pc[c] \in {"create", "delete"} => arg[c] # arg[d]

BeforeIsOver == \A id \in DOMAIN given : before[id] \subseteq created \cap deleted

LInv == NotYetReturned /\ OneTaskEach /\ BeforeIsOver /\ LabelResolves

\* A token no other of its label has overlapped.
Lonely(id) ==
  \A i \in DOMAIN given \ {id} :
    given[i].label = given[id].label => i \in before[id]

Resolves(id) ==
  given[id].label \in DOMAIN by_label /\ by_label[given[id].label] = id

LEMMA ResolvesAll ==
  LabelResolves <=> \A id \in DOMAIN by_id \cap created : Lonely(id) => Resolves(id)
BY DEF LabelResolves, Lonely, Resolves

LEMMA InitLInv == Init => LInv
BY DEF Init, LInv, NotYetReturned, OneTaskEach, BeforeIsOver, LabelResolves,
       EmptyMap

LEMMA StepLInv == IInv /\ LInv /\ [Next]_vars => LInv'
<1> SUFFICES ASSUME IInv, LInv, [Next]_vars PROVE LInv'
  OBVIOUS
<1>r. \A id \in DOMAIN by_id \cap created : Lonely(id) => Resolves(id)
  BY ResolvesAll DEF LInv
<1>s. (\A id \in DOMAIN by_id \cap created : Lonely(id) => Resolves(id))'
        => LabelResolves'
  BY DEF LabelResolves, Lonely, Resolves
<1> USE DEF IInv, TypeOK, Pending, StoreFresh, NotYetReturned, OneTaskEach,
        BeforeIsOver, store, search, history, Suspend, Resume
<1>1. ASSUME NEW c \in Clients, NEW n \in Ids, NEW t \in Token, create(c, n, t)
      PROVE  LInv'
  <2> USE <1>1 DEF create
  <2>1. /\ DOMAIN given' = DOMAIN given \cup {n} /\ n \notin DOMAIN given
        /\ \A i \in DOMAIN given : given'[i] = given[i]
        /\ DOMAIN by_id' = DOMAIN by_id \cup {n}
        /\ \A i \in DOMAIN given : before'[i] = before[i]
        /\ before'[n] = created \cap deleted
    BY DEF With
  <2>2. n \notin created /\ n \notin deleted
    BY <2>1
  <2>3. NotYetReturned' /\ OneTaskEach'
    BY <2>1, <2>2 DEF LInv
  <2>4. BeforeIsOver'
    BY <2>1 DEF LInv
  <2>5. ASSUME NEW i \in DOMAIN by_id' \cap created', Lonely(i)'
        PROVE  Resolves(i)'
    <3>1. i \in DOMAIN by_id \cap created /\ i # n
      BY <2>1, <2>2, <2>5
    <3>2. Lonely(i)
      BY <2>1, <2>5, <3>1 DEF Lonely
    <3>3. QED
      BY <1>r, <2>1, <3>1, <3>2 DEF Resolves
  <2>6. QED
    BY <1>s, <2>3, <2>4, <2>5 DEF LInv
<1>2. ASSUME NEW c \in Clients, IndexLabel(c) PROVE LInv'
  <2> USE <1>2 DEF IndexLabel
  <2> DEFINE a == arg[c]
             l == given[a].label
  <2>1. a \in DOMAIN given /\ a \notin created
    BY DEF LInv
  <2>2. /\ DOMAIN by_label' = DOMAIN by_label \cup {l} /\ by_label'[l] = a
        /\ \A x \in DOMAIN by_label \ {l} : by_label'[x] = by_label[x]
    BY DEF With
  <2>3. NotYetReturned' /\ OneTaskEach' /\ BeforeIsOver'
    BY <2>1 DEF LInv
  <2>4. ASSUME NEW i \in DOMAIN by_id' \cap created', Lonely(i)'
        PROVE  Resolves(i)'
    <3>1. CASE i = a
      BY <2>2, <3>1 DEF Resolves
    <3>2. CASE i # a
      <4>1. i \in DOMAIN by_id \cap created /\ Lonely(i)
        BY <2>4, <3>2 DEF Lonely
      <4>2. Resolves(i) /\ i \in DOMAIN given
        BY <1>r, <4>1
      <4>3. given[i].label # l
        BY <2>1, <3>2, <4>1, <4>2 DEF Lonely, LInv
      <4>4. QED
        BY <2>2, <4>2, <4>3 DEF Resolves
    <3>3. QED
      BY <3>1, <3>2
  <2>5. QED
    BY <1>s, <2>3, <2>4 DEF LInv
<1>3. ASSUME NEW c \in Clients, NEW n \in Ids, delete(c, n) PROVE LInv'
  <2> USE <1>3 DEF delete
  <2>1. DOMAIN by_id' \subseteq DOMAIN by_id /\ n \notin deleted
    BY DEF Without
  <2>2. NotYetReturned' /\ OneTaskEach' /\ BeforeIsOver'
    BY <2>1 DEF LInv
  <2>3. ASSUME NEW i \in DOMAIN by_id' \cap created', Lonely(i)'
        PROVE  Resolves(i)'
    BY <1>r, <2>1, <2>3 DEF Lonely, Resolves
  <2>4. QED
    BY <1>s, <2>2, <2>3 DEF LInv
<1>4. ASSUME NEW c \in Clients, UnindexLabel(c) PROVE LInv'
  <2> USE <1>4 DEF UnindexLabel
  <2> DEFINE a == arg[c]
             l == given[a].label
  <2>1. a \in DOMAIN given /\ a \notin deleted /\ a \notin DOMAIN by_id
    BY DEF LInv
  <2>2. /\ DOMAIN by_label' = DOMAIN by_label \ {l}
        /\ \A x \in DOMAIN by_label \ {l} : by_label'[x] = by_label[x]
    BY DEF Without
  <2>3. NotYetReturned' /\ OneTaskEach' /\ BeforeIsOver'
    BY <2>1 DEF LInv
  <2>4. ASSUME NEW i \in DOMAIN by_id' \cap created', Lonely(i)'
        PROVE  Resolves(i)'
    <3>1. i \in DOMAIN by_id \cap created /\ Lonely(i) /\ i # a
      BY <2>1, <2>4 DEF Lonely
    <3>2. Resolves(i) /\ i \in DOMAIN given
      BY <1>r, <3>1
    <3>3. given[i].label # l
      BY <2>1, <3>1, <3>2 DEF Lonely, LInv
    <3>4. QED
      BY <2>2, <3>2, <3>3 DEF Resolves
  <2>5. QED
    BY <1>s, <2>3, <2>4 DEF LInv
<1>5. ASSUME NEW c \in Clients,
             \/ \E l \in Labels : find_by_label(c, l)
             \/ Fetch(c)
      PROVE  LInv'
  <2>1. UNCHANGED <<store, history>>
    BY <1>5 DEF find_by_label, Fetch
  <2>2. \A d \in Clients :
          pc'[d] \in {"create", "delete"} => pc'[d] = pc[d] /\ arg'[d] = arg[d]
    BY <1>5 DEF find_by_label, Fetch
  <2>3. NotYetReturned' /\ OneTaskEach' /\ BeforeIsOver'
    BY <2>1, <2>2 DEF LInv
  <2>4. LabelResolves'
    BY <2>1 DEF LInv, LabelResolves
  <2>5. QED
    BY <2>3, <2>4 DEF LInv
<1>6. CASE UNCHANGED vars
  BY <1>6 DEF vars, LInv, LabelResolves
<1>7. QED
  BY <1>1, <1>2, <1>3, <1>4, <1>5, <1>6 DEF Next, Exhausted

(***************************************************************************)
(* A label can be used again once its token is gone: create, delete and a  *)
(* late delete of others never unindex the only token of a label.          *)
(***************************************************************************)
THEOREM LabelsResolve == Spec => []LabelResolves
<1>1. LInv => LabelResolves
  BY DEF LInv
<1>2. QED
  BY <1>1, InitIInv, StepIInv, InitLInv, StepLInv, PTL DEF Spec

-----------------------------------------------------------------------------
\* A token in the store has been indexed, or its create is not over.
StoredIsCreated ==
  \A id \in DOMAIN by_id :
    id \in created \/ \E c \in Clients : pc[c] = "create" /\ arg[c] = id

LEMMA StepStored == IInv /\ StoredIsCreated /\ [Next]_vars => StoredIsCreated'
<1> SUFFICES ASSUME IInv, StoredIsCreated, [Next]_vars PROVE StoredIsCreated'
  OBVIOUS
<1> USE DEF IInv, TypeOK, store, search, history, Suspend, Resume
<1>1. ASSUME NEW c \in Clients, NEW n \in Ids, NEW t \in Token, create(c, n, t)
      PROVE  StoredIsCreated'
  <2>1. /\ DOMAIN by_id' = DOMAIN by_id \cup {n} /\ UNCHANGED created
        /\ pc[c] = "idle" /\ pc'[c] = "create" /\ arg'[c] = n
        /\ \A d \in Clients \ {c} : pc'[d] = pc[d] /\ arg'[d] = arg[d]
    BY <1>1 DEF create, With
  <2>2. QED
    BY <2>1 DEF StoredIsCreated
<1>2. ASSUME NEW c \in Clients, IndexLabel(c) PROVE StoredIsCreated'
  <2>1. /\ UNCHANGED by_id /\ created' = created \cup {arg[c]}
        /\ \A d \in Clients \ {c} : pc'[d] = pc[d] /\ arg'[d] = arg[d]
    BY <1>2 DEF IndexLabel
  <2>2. QED
    BY <2>1 DEF StoredIsCreated
<1>3. ASSUME NEW c \in Clients,
             \/ \E n \in Ids : delete(c, n)
             \/ \E l \in Labels : find_by_label(c, l)
             \/ UnindexLabel(c) \/ Fetch(c)
      PROVE  StoredIsCreated'
  <2>1. /\ DOMAIN by_id' \subseteq DOMAIN by_id /\ UNCHANGED created
        /\ \A d \in Clients : pc[d] = "create" => pc'[d] = pc[d] /\ arg'[d] = arg[d]
    BY <1>3 DEF delete, find_by_label, UnindexLabel, Fetch, Without
  <2>2. QED
    BY <2>1 DEF StoredIsCreated
<1>4. CASE UNCHANGED vars
  BY <1>4 DEF vars, StoredIsCreated
<1>5. QED
  BY <1>1, <1>2, <1>3, <1>4 DEF Next, Exhausted

(***************************************************************************)
(* Where there is one account, a label that is unique per account does     *)
(* lead to its token, once the operations under way are over: it takes two *)
(* accounts that share a label for delete to take it from the newer token. *)
(***************************************************************************)
THEOREM OneAccountsLabelsResolve ==
  ASSUME \A a, b \in Accounts : a = b
  PROVE  Spec => []UniquePerAccountResolves
<1>1. ASSUME IInv, LabelResolves, StoredIsCreated PROVE UniquePerAccountResolves
  <2> SUFFICES ASSUME \A i, j \in DOMAIN given : given[i] = given[j] => i = j,
                      \A c \in Clients : pc[c] = "idle",
                      NEW id \in DOMAIN by_id
               PROVE  /\ given[id].label \in DOMAIN by_label
                      /\ by_label[given[id].label] \in DOMAIN by_id
    BY DEF UniquePerAccountResolves
  <2>1. id \in DOMAIN by_id \cap created /\ id \in DOMAIN given
    BY <1>1 DEF StoredIsCreated, IInv, StoreFresh
  <2>2. ASSUME NEW i \in DOMAIN given, given[i].label = given[id].label PROVE i = id
    <3>1. given[i] \in Token /\ given[id] \in Token
      BY <1>1, <2>1 DEF IInv, TypeOK
    <3>2. given[i].account = given[id].account
      BY <3>1 DEF Token
    <3>3. given[i] = given[id]
      BY <2>2, <3>1, <3>2 DEF Token
    <3>4. QED
      BY <2>1, <3>3
  <2>3. Lonely(id)
    BY <2>2 DEF Lonely
  <2>4. Resolves(id)
    BY <1>1, <2>1, <2>3, ResolvesAll
  <2>5. QED
    BY <2>4 DEF Resolves
<1>2. Init => StoredIsCreated
  BY DEF Init, StoredIsCreated, EmptyMap
<1>3. LInv => LabelResolves
  BY DEF LInv
<1>4. IInv /\ LabelResolves /\ StoredIsCreated => UniquePerAccountResolves
  BY <1>1
<1>5. QED
  BY <1>2, <1>3, <1>4, InitIInv, StepIInv, InitLInv, StepLInv, StepStored, PTL
  DEF Spec

-----------------------------------------------------------------------------
(*             Pods, for any tasks, pods, rows and WebIDs                  *)

\* What an insert does to the rows.
LEMMA RowInserted ==
  ASSUME PodSide!TypeOK, NEW r \in Rows, NEW p \in PodSide!Pair,
         NEW v \in BOOLEAN, PodSide!Insert(r, p, v)
  PROVE  /\ r \notin DOMAIN owners
         /\ DOMAIN owners' = DOMAIN owners \cup {r}
         /\ owners'[r].of = p
         /\ \A x \in DOMAIN owners : owners'[x] = owners[x]
         /\ owners' \in [DOMAIN owners' -> PodSide!Owner]
<1> DEFINE row == [of |-> p, visible |-> v]
<1>1. row \in PodSide!Owner /\ row.of = p
  BY DEF PodSide!Owner
<1> HIDE DEF row
<1>2. r \notin DOMAIN owners /\ owners' = PodSide!Put(owners, r, row)
  BY DEF PodSide!Insert, row
<1>3. owners \in [DOMAIN owners -> PodSide!Owner]
  BY DEF PodSide!TypeOK
<1>4. QED
  BY ONLY <1>1, <1>2, <1>3 DEF PodSide!Put

\* Who can be asked about has a pod, or is a stranger.
LEMMA KnownPairs ==
  ASSUME PodSide!TypeOK, NEW p \in PodSide!Known
  PROVE  p \in PodSide!Pair /\ p[1] \in DOMAIN pods \cup Strangers
<1>1. \A a, b : /\ PodSide!find_pods(a) \subseteq DOMAIN pods
                /\ PodSide!find_by_base_url(b) \subseteq DOMAIN pods
  BY DEF PodSide!find_pods, PodSide!find_by_base_url
<1>2. p \in (Strangers \cup DOMAIN pods) \X WebIds
  BY <1>1 DEF PodSide!Known
<1>3. QED
  BY <1>2 DEF PodSide!Pair, PodSide!TypeOK

-----------------------------------------------------------------------------
(***************************************************************************)
(* The properties are not inductive.  The row that a create has still to   *)
(* insert is the first of its pair, unless the pair was touched: nobody    *)
(* knew of the pod before, so that no row, no removal and no other create  *)
(* can be about it.                                                        *)
(***************************************************************************)
OnlyKnown ==
  /\ \A p \in pod_given : p[1] \in DOMAIN pods
  /\ \A p \in removed : p[1] \in DOMAIN pods \cup Strangers
  /\ \A r \in DOMAIN owners : owners[r].of[1] \in DOMAIN pods \cup Strangers

PendingOnce ==
  \A c, d \in Clients : pod_task[c] # None /\ pod_task[c] = pod_task[d] => c = d

PendingUntouched ==
  \A c \in Clients : pod_task[c] # None /\ pod_task[c] \notin raced =>
    /\ pod_task[c] \notin removed
    /\ \A r \in DOMAIN owners : owners[r].of # pod_task[c]

FirstRowKept ==
  \A p \in pod_given :
    PodSide!Pending(p) \/ p \in removed \/ \E r \in DOMAIN owners : owners[r].of = p

PodInv ==
  /\ PodSide!TypeOK /\ OnlyKnown /\ PendingOnce /\ PendingUntouched
  /\ PodSide!OneRowPerOwner /\ PodSide!RemovedIsNoOwner /\ FirstRowKept

LEMMA InitPodInv == PodSide!Init => PodInv
<1> SUFFICES ASSUME PodSide!Init PROVE PodInv
  OBVIOUS
<1>1. PodSide!TypeOK
  BY DEF PodSide!Init, PodSide!TypeOK
<1>2. QED
  BY <1>1 DEF PodSide!Init, PodInv, OnlyKnown, PendingOnce, PendingUntouched,
              PodSide!OneRowPerOwner, PodSide!RemovedIsNoOwner, FirstRowKept

LEMMA StepPodInv ==
  ASSUME PodSide!PodAssumption
  PROVE  PodInv /\ [PodSide!Next]_(PodSide!vars) => PodInv'
<1> SUFFICES ASSUME PodInv, [PodSide!Next]_(PodSide!vars) PROVE PodInv'
  OBVIOUS
<1>0. /\ PodSide!TypeOK /\ OnlyKnown /\ PendingOnce /\ PendingUntouched
      /\ PodSide!OneRowPerOwner /\ PodSide!RemovedIsNoOwner /\ FirstRowKept
  BY DEF PodInv
<1>a. /\ \A c \in Clients : pod_task[c] # None =>
                           pod_task[c] \in PodSide!Pair /\ pod_task[c] \in pod_given
      /\ \A p \in PodSide!Pair : p # None
      /\ \A r \in DOMAIN owners : owners[r].of \in PodSide!Pair
  BY <1>0 DEF PodSide!TypeOK, PodSide!PodAssumption, PodSide!Pair, PodSide!Owner
<1>1. ASSUME NEW c \in Clients, NEW p \in PodIds, NEW row \in PodSide!Pod,
             NEW w \in WebIds \cup {None}, PodSide!create(c, p, row, w)
      PROVE  PodInv'
  <2> USE <1>1 DEF PodSide!create
  <2>1. DOMAIN pods' = DOMAIN pods \cup {p} /\ pods' \in [DOMAIN pods' -> PodSide!Pod]
    <3>1. pods' = PodSide!Put(pods, p, row) /\ pods \in [DOMAIN pods -> PodSide!Pod]
      BY <1>0 DEF PodSide!TypeOK
    <3>2. QED
      BY ONLY <1>1, <3>1 DEF PodSide!Put
  <2>2. CASE w = None
    <3> USE <2>2
    <3>1. pod_task' = pod_task /\ pod_given' = pod_given
      OBVIOUS
    <3>2. PodSide!TypeOK'
      BY <1>0, <2>1, <3>1 DEF PodSide!TypeOK
    <3>3. OnlyKnown'
      BY <1>0, <2>1, <3>1 DEF OnlyKnown
    <3>4. /\ PendingOnce' /\ PendingUntouched' /\ PodSide!OneRowPerOwner'
          /\ PodSide!RemovedIsNoOwner' /\ FirstRowKept'
      BY <1>0, <3>1 DEF PendingOnce, PendingUntouched, PodSide!OneRowPerOwner,
                        PodSide!RemovedIsNoOwner, FirstRowKept, PodSide!RowsOf, PodSide!Pending
    <3>5. QED
      BY <3>2, <3>3, <3>4 DEF PodInv
  <2>3. CASE w # None
    <3> DEFINE q == <<p, w>>
    <3>1. q \in PodSide!Pair /\ q[1] = p /\ w \in WebIds
      BY <2>3 DEF PodSide!Pair
    <3> HIDE DEF q
    <3>2. pod_task' = [pod_task EXCEPT ![c] = q] /\ pod_given' = pod_given \cup {q}
      BY <2>3 DEF q
    <3>3. /\ pod_task'[c] = q /\ \A d \in Clients \ {c} : pod_task'[d] = pod_task[d]
          /\ pod_task' \in [Clients -> {None} \cup PodSide!Pair]
      BY <1>0, <3>1, <3>2 DEF PodSide!TypeOK
    <3>4. PodSide!TypeOK'
      BY <1>0, <2>1, <3>1, <3>2, <3>3 DEF PodSide!TypeOK
    <3>5. p \notin DOMAIN pods \cup Strangers
      BY DEF PodSide!PodAssumption
    <3>6. q \notin pod_given /\ q \notin removed /\ \A r \in DOMAIN owners : owners[r].of # q
      BY <1>0, <3>1, <3>5 DEF OnlyKnown
    <3>7. OnlyKnown'
      BY <1>0, <2>1, <3>1, <3>2 DEF OnlyKnown
    <3>8. PendingOnce'
      BY <1>0, <1>a, <3>3, <3>6 DEF PendingOnce
    <3>9. PendingUntouched'
      <4>1. \A d \in Clients : pod_task'[d] # None =>
                               pod_task'[d] = q \/ pod_task'[d] = pod_task[d]
        BY <3>3
      <4>2. QED
        BY <1>0, <3>6, <4>1, <3>3 DEF PendingUntouched
    <3>10. PodSide!OneRowPerOwner' /\ PodSide!RemovedIsNoOwner'
      BY <1>0 DEF PodSide!OneRowPerOwner, PodSide!RemovedIsNoOwner, PodSide!RowsOf
    <3>11. FirstRowKept'
      <4>1. ASSUME NEW x \in pod_given'
            PROVE  \/ \E d \in Clients : pod_task'[d] = x
                   \/ x \in removed
                   \/ \E r \in DOMAIN owners : owners[r].of = x
        <5>1. CASE x = q
          BY <3>3, <5>1
        <5>2. CASE x # q
          <6>1. x \in pod_given
            BY <3>2, <5>2
          <6>2. ASSUME NEW d \in Clients, pod_task[d] = x PROVE d # c
            BY <1>0, <6>2, <6>1, <1>a DEF PodSide!TypeOK
          <6>3. QED
            BY <1>0, <3>3, <6>1, <6>2 DEF FirstRowKept, PodSide!Pending
        <5>3. QED
          BY <5>1, <5>2
      <4>2. QED
        BY <4>1 DEF FirstRowKept, PodSide!Pending
    <3>12. QED
      BY <3>4, <3>7, <3>8, <3>9, <3>10, <3>11 DEF PodInv
  <2>4. QED
    BY <2>2, <2>3
<1>2. ASSUME NEW c \in Clients, NEW r \in Rows, PodSide!RecordOwner(c, r) PROVE PodInv'
  <2> USE <1>2 DEF PodSide!RecordOwner
  <2> DEFINE q == pod_task[c]
  <2>0. q # None /\ q \in PodSide!Pair /\ q \in pod_given
    BY <1>a
  <2>1. /\ r \notin DOMAIN owners
        /\ DOMAIN owners' = DOMAIN owners \cup {r}
        /\ owners'[r].of = q
        /\ \A x \in DOMAIN owners : owners'[x] = owners[x]
        /\ owners' \in [DOMAIN owners' -> PodSide!Owner]
    BY <1>0, <2>0, RowInserted
  <2>2. /\ pod_task'[c] = None /\ \A d \in Clients \ {c} : pod_task'[d] = pod_task[d]
        /\ pod_task' \in [Clients -> {None} \cup PodSide!Pair]
    BY <1>0 DEF PodSide!TypeOK
  <2>3. PodSide!TypeOK'
    BY <1>0, <2>1, <2>2 DEF PodSide!TypeOK
  <2>4. OnlyKnown'
    BY <1>0, <2>0, <2>1 DEF OnlyKnown
  <2>5. PendingOnce'
    BY <1>0, <2>2 DEF PendingOnce
  <2>6. PendingUntouched'
    <3>1. ASSUME NEW d \in Clients, pod_task'[d] # None
          PROVE  pod_task'[d] = pod_task[d] /\ pod_task[d] # q
      BY <1>0, <2>0, <2>2, <3>1 DEF PendingOnce
    <3>2. QED
      BY <1>0, <2>1, <3>1 DEF PendingUntouched
  <2>7. PodSide!OneRowPerOwner'
    BY <1>0, <2>0, <2>1 DEF PodSide!OneRowPerOwner, PendingUntouched
  <2>8. PodSide!RemovedIsNoOwner'
    BY <1>0, <2>0, <2>1 DEF PodSide!RemovedIsNoOwner, PodSide!RowsOf, PendingUntouched
  <2>9. FirstRowKept'
    <3>1. ASSUME NEW x \in pod_given, x # q
          PROVE  \/ \E d \in Clients : pod_task'[d] = x
                 \/ x \in removed
                 \/ \E s \in DOMAIN owners' : owners'[s].of = x
      <4>1. CASE \E d \in Clients : pod_task[d] = x
        BY <2>2, <3>1, <4>1
      <4>2. CASE x \in removed \/ \E s \in DOMAIN owners : owners[s].of = x
        BY <2>1, <4>2
      <4>3. QED
        BY <1>0, <4>1, <4>2 DEF FirstRowKept, PodSide!Pending
    <3>2. QED
      BY <2>1, <3>1 DEF FirstRowKept, PodSide!Pending
  <2>10. QED
    BY <2>3, <2>4, <2>5, <2>6, <2>7, <2>8, <2>9 DEF PodInv
<1>3. ASSUME NEW p \in PodSide!Known, NEW v \in BOOLEAN,
             PodSide!update_owner(p, v)
      PROVE  PodInv'
  <2> USE <1>3 DEF PodSide!update_owner
  <2>0. p \in PodSide!Pair /\ p[1] \in DOMAIN pods \cup Strangers
    BY <1>0, KnownPairs
  <2>1. /\ raced \subseteq raced' /\ raced' \subseteq raced \cup {p}
        /\ (\E c \in Clients : pod_task[c] = p) => p \in raced'
        /\ removed' = removed \ {p}
    BY DEF PodSide!Touch
  <2>2. PendingOnce' /\ pod_task' = pod_task /\ pod_given' = pod_given /\ pods' = pods
    BY <1>0 DEF PendingOnce
  <2>3. CASE PodSide!RowsOf(p) = {} /\ \E r \in Rows : PodSide!Insert(r, p, v)
    <3>1. PICK r \in Rows : PodSide!Insert(r, p, v)
      BY <2>3
    <3>2. /\ r \notin DOMAIN owners
          /\ DOMAIN owners' = DOMAIN owners \cup {r}
          /\ owners'[r].of = p
          /\ \A x \in DOMAIN owners : owners'[x] = owners[x]
          /\ owners' \in [DOMAIN owners' -> PodSide!Owner]
      BY <1>0, <2>0, <3>1, RowInserted
    <3>3. \A x \in DOMAIN owners : owners[x].of # p
      BY <2>3 DEF PodSide!RowsOf
    <3>4. PodSide!TypeOK'
      BY <1>0, <2>0, <2>1, <2>2, <3>2 DEF PodSide!TypeOK
    <3>5. OnlyKnown'
      BY <1>0, <2>0, <2>1, <2>2, <3>2 DEF OnlyKnown
    <3>6. PendingUntouched'
      BY <1>0, <2>1, <2>2, <3>2 DEF PendingUntouched
    <3>7. PodSide!OneRowPerOwner'
      BY <1>0, <2>1, <3>2, <3>3 DEF PodSide!OneRowPerOwner
    <3>8. PodSide!RemovedIsNoOwner'
      BY <1>0, <2>1, <3>2 DEF PodSide!RemovedIsNoOwner, PodSide!RowsOf
    <3>9. FirstRowKept'
      BY <1>0, <2>1, <2>2, <3>2 DEF FirstRowKept, PodSide!Pending
    <3>10. QED
      BY <2>2, <3>4, <3>5, <3>6, <3>7, <3>8, <3>9 DEF PodInv
  <2>4. CASE \E r \in PodSide!RowsOf(p) : owners' = [owners EXCEPT ![r].visible = v]
    <3>1. PICK r \in PodSide!RowsOf(p) : owners' = [owners EXCEPT ![r].visible = v]
      BY <2>4
    <3>2. /\ r \in DOMAIN owners /\ owners[r].of = p
          /\ owners' \in [DOMAIN owners -> PodSide!Owner]
          /\ \A x \in DOMAIN owners : owners'[x].of = owners[x].of
      BY <1>0, <3>1 DEF PodSide!RowsOf, PodSide!TypeOK, PodSide!Owner
    <3>3. DOMAIN owners' = DOMAIN owners
      BY <3>2
    <3>4. PodSide!TypeOK'
      BY <1>0, <2>0, <2>1, <2>2, <3>2, <3>3 DEF PodSide!TypeOK
    <3>5. OnlyKnown'
      BY <1>0, <2>1, <2>2, <3>2, <3>3 DEF OnlyKnown
    <3>6. PendingUntouched'
      BY <1>0, <2>1, <2>2, <3>2, <3>3 DEF PendingUntouched
    <3>7. PodSide!OneRowPerOwner'
      BY <1>0, <2>1, <3>2, <3>3 DEF PodSide!OneRowPerOwner
    <3>8. PodSide!RemovedIsNoOwner'
      BY <1>0, <2>1, <3>2, <3>3 DEF PodSide!RemovedIsNoOwner, PodSide!RowsOf
    <3>9. FirstRowKept'
      BY <1>0, <2>1, <2>2, <3>2, <3>3 DEF FirstRowKept, PodSide!Pending
    <3>10. QED
      BY <2>2, <3>4, <3>5, <3>6, <3>7, <3>8, <3>9 DEF PodInv
  <2>5. QED
    BY <2>3, <2>4
<1>4. ASSUME NEW p \in PodSide!Known, PodSide!remove_owner(p) PROVE PodInv'
  <2> USE <1>4 DEF PodSide!remove_owner
  <2>0. p \in PodSide!Pair /\ p[1] \in DOMAIN pods \cup Strangers
    BY <1>0, KnownPairs
  <2>1. /\ raced \subseteq raced' /\ raced' \subseteq raced \cup {p}
        /\ (\E c \in Clients : pod_task[c] = p) => p \in raced'
        /\ removed' = removed \cup {p}
    BY DEF PodSide!Touch
  <2>2. PendingOnce' /\ pod_task' = pod_task /\ pod_given' = pod_given /\ pods' = pods
    BY <1>0 DEF PendingOnce
  \* At most the rows of p go, and of these one goes if there is one.
  <2>3. /\ DOMAIN owners' \subseteq DOMAIN owners
        /\ owners' \in [DOMAIN owners' -> PodSide!Owner]
        /\ \A x \in DOMAIN owners' : owners'[x] = owners[x]
        /\ \A x \in DOMAIN owners : owners[x].of # p => x \in DOMAIN owners'
        /\ \/ PodSide!RowsOf(p) = {}
           \/ \E r \in PodSide!RowsOf(p) : DOMAIN owners' = DOMAIN owners \ {r}
    <3>1. CASE PodSide!RowsOf(p) = {} /\ UNCHANGED owners
      BY <1>0, <3>1 DEF PodSide!TypeOK
    <3>2. CASE \E r \in PodSide!RowsOf(p) : owners' = PodSide!Without(owners, r)
      BY <1>0, <3>2 DEF PodSide!TypeOK, PodSide!RowsOf, PodSide!Without
    <3>3. QED
      BY <3>1, <3>2
  <2>4. PodSide!TypeOK'
    BY <1>0, <2>0, <2>1, <2>2, <2>3 DEF PodSide!TypeOK
  <2>5. OnlyKnown'
    BY <1>0, <2>0, <2>1, <2>2, <2>3 DEF OnlyKnown
  <2>6. PendingUntouched'
    BY <1>0, <2>1, <2>2, <2>3 DEF PendingUntouched
  <2>7. PodSide!OneRowPerOwner'
    BY <1>0, <2>1, <2>3 DEF PodSide!OneRowPerOwner
  <2>8. PodSide!RemovedIsNoOwner'
    <3>1. ASSUME NEW q \in removed, q # p
          PROVE  q \in raced' \/ \A x \in DOMAIN owners' : owners'[x].of # q
      BY <1>0, <2>1, <2>3, <3>1 DEF PodSide!RemovedIsNoOwner, PodSide!RowsOf
    <3>2. p \in raced' \/ \A x \in DOMAIN owners' : owners'[x].of # p
      BY <1>0, <2>1, <2>3 DEF PodSide!OneRowPerOwner, PodSide!RowsOf
    <3>3. QED
      BY <2>1, <3>1, <3>2 DEF PodSide!RemovedIsNoOwner, PodSide!RowsOf
  <2>9. FirstRowKept'
    BY <1>0, <2>1, <2>2, <2>3 DEF FirstRowKept, PodSide!Pending
  <2>10. QED
    BY <2>2, <2>4, <2>5, <2>6, <2>7, <2>8, <2>9 DEF PodInv
<1>5. CASE UNCHANGED PodSide!vars
  BY <1>0, <1>5 DEF PodSide!vars, PodInv, PodSide!TypeOK, OnlyKnown, PendingOnce,
                    PendingUntouched, PodSide!OneRowPerOwner, PodSide!RemovedIsNoOwner, FirstRowKept,
                    PodSide!RowsOf, PodSide!Pending
<1>6. QED
  <2>1. CASE PodSide!Next
    BY <1>1, <1>2, <1>3, <1>4, <2>1 DEF PodSide!Next
  <2>2. QED
    BY <1>5, <2>1

\* Everything the theorems need of a behaviour.
LEMMA PodInvariants == ASSUME PodSide!PodAssumption PROVE PodSide!Spec => []PodInv
<1>1. PodSide!Init => PodInv
  BY InitPodInv
<1>2. PodInv /\ [PodSide!Next]_(PodSide!vars) => PodInv'
  BY StepPodInv
<1>3. QED
  BY <1>1, <1>2, PTL DEF PodSide!Spec

-----------------------------------------------------------------------------
(*  The steps of IdentityStores are those the theorems are about.          *)

LEMMA AccountSpare == AccountSide!Spare <=> AccountThms!Spare
BY Zenon DEF AccountSide!Spare, AccountThms!Spare,
             AccountSide!Cardinality, AccountThms!Cardinality

LEMMA AccountSame == AccountSide!Next <=> AccountThms!Next
BY AccountSpare
   DEF AccountSide!Next, AccountThms!Next, AccountSide!Tick, AccountThms!Tick,
       AccountSide!Begin, AccountThms!Begin, AccountSide!history,
       AccountThms!history, AccountSide!Idle, AccountThms!Idle, AccountSide!At,
       AccountThms!At, AccountSide!Goto, AccountThms!Goto, AccountSide!Age,
       AccountThms!Age, AccountSide!Elapsed, AccountThms!Elapsed,
       AccountSide!prune_expired, AccountThms!prune_expired, AccountSide!Put,
       AccountThms!Put, AccountSide!Keep, AccountThms!Keep,
       AccountSide!get_setting, AccountThms!get_setting, AccountSide!Stamp,
       AccountThms!Stamp, AccountSide!create, AccountThms!create,
       AccountSide!increment_login_count, AccountThms!increment_login_count,
       AccountSide!decrement_login_count, AccountThms!decrement_login_count,
       AccountSide!update_setting, AccountThms!update_setting,
       AccountSide!delete, AccountThms!delete

LEMMA CookieSpare == CookieSide!Spare <=> CookieThms!Spare
BY Zenon DEF CookieSide!Spare, CookieThms!Spare,
             CookieSide!Cardinality, CookieThms!Cardinality

LEMMA CookieSame == CookieSide!Next <=> CookieThms!Next
BY CookieSpare
   DEF CookieSide!Next, CookieThms!Next, CookieSide!Tick, CookieThms!Tick,
       CookieSide!Begin, CookieThms!Begin, CookieSide!Doing, CookieThms!Doing,
       CookieSide!End, CookieThms!End, CookieSide!Live, CookieThms!Live,
       CookieSide!prune, CookieThms!prune, CookieSide!Stamp, CookieThms!Stamp,
       CookieSide!generate, CookieThms!generate, CookieSide!get, CookieThms!get,
       CookieSide!refresh, CookieThms!refresh, CookieSide!delete,
       CookieThms!delete, CookieSide!Put, CookieThms!Put, CookieSide!Keep,
       CookieThms!Keep

\* The clock is at rest, or it ticks.
Ticks == clock' = clock \/ (clock < MaxTime /\ clock' = clock + 1)

LEMMA ClockTicks ==
  /\ AccountSide!Next => Ticks
  /\ CookieSide!Next => Ticks
BY DEF Ticks, AccountSide!Next, AccountSide!Tick, AccountSide!Begin,
       AccountSide!prune_expired, AccountSide!get_setting, AccountSide!Stamp,
       AccountSide!create, AccountSide!increment_login_count,
       AccountSide!decrement_login_count, AccountSide!update_setting,
       AccountSide!delete, AccountSide!history,
       CookieSide!Next, CookieSide!Tick, CookieSide!Begin, CookieSide!prune,
       CookieSide!Stamp, CookieSide!generate, CookieSide!get,
       CookieSide!refresh, CookieSide!delete

\* What a step of the whole is to each of its parts.
LEMMA StepOfOne ==
  ASSUME [IdentityNext]_allVars
  PROVE  /\ Next \/ UNCHANGED vars
         /\ AccountSide!Next \/ (UNCHANGED account_vars /\ Ticks)
         /\ CookieSide!Next \/ (UNCHANGED cookie_vars /\ Ticks)
         /\ PodSide!Next \/ UNCHANGED pod_vars
         /\ LinkSide!Next \/ UNCHANGED link_vars
<1>1. CASE UNCHANGED allVars
  BY <1>1 DEF allVars, Ticks
<1>2. CASE IdentityNext
  BY <1>2, ClockTicks DEF IdentityNext, Ticks
<1>3. QED
  BY <1>1, <1>2

LEMMA CredentialsIncluded == IdentitySpec => Spec
<1>1. IdentityInit => Init
  BY DEF IdentityInit
<1>2. [IdentityNext]_allVars => [Next]_vars
  BY StepOfOne
<1>3. QED
  BY <1>1, <1>2, PTL DEF IdentitySpec, Spec

LEMMA AccountsIncluded == IdentitySpec => AccountThms!Spec
<1>1. IdentityInit => AccountThms!Init
  BY DEF IdentityInit, AccountSide!Init, AccountThms!Init
<1>2. [IdentityNext]_allVars => [AccountThms!Next]_(AccountThms!vars)
  BY StepOfOne, AccountSame
  DEF Ticks, account_vars, AccountThms!vars, AccountThms!Next, AccountThms!Tick
<1>3. QED
  BY <1>1, <1>2, PTL DEF IdentitySpec, AccountThms!Spec

LEMMA CookiesIncluded == IdentitySpec => CookieThms!Spec
<1>1. IdentityInit => CookieThms!Init
  BY DEF IdentityInit, CookieSide!Init, CookieThms!Init
<1>2. [IdentityNext]_allVars => [CookieThms!Next]_(CookieThms!vars)
  BY StepOfOne, CookieSame
  DEF Ticks, cookie_vars, CookieThms!vars, CookieThms!Next, CookieThms!Tick
<1>3. QED
  BY <1>1, <1>2, PTL DEF IdentitySpec, CookieThms!Spec

LEMMA PodsIncluded == IdentitySpec => PodSide!Spec
<1>1. IdentityInit => PodSide!Init
  BY DEF IdentityInit
<1>2. [IdentityNext]_allVars => [PodSide!Next]_(PodSide!vars)
  BY StepOfOne DEF pod_vars, PodSide!vars
<1>3. QED
  BY <1>1, <1>2, PTL DEF IdentitySpec, PodSide!Spec

\* The assumptions of the stores are those of the whole.
LEMMA Assumptions ==
  /\ AccountThms!AccountAssumption
  /\ CookieThms!CookieAssumption
  /\ PodSide!PodAssumption
BY IdentityAssumption
DEF AccountSide!AccountAssumption, AccountThms!AccountAssumption,
    CookieSide!CookieAssumption, CookieThms!CookieAssumption

-----------------------------------------------------------------------------
(***************************************************************************)
(* LinksAccounted is not inductive: it needs that the rows are exactly the *)
(* links created and not deleted, each under its own id.                   *)
(***************************************************************************)
RowsAreLinks ==
  /\ \A x, y \in link_created : x[1] = y[1] => x = y
  /\ \A l \in DOMAIN links : <<l, links[l]>> \in link_created /\ l \notin link_deleted
  /\ \A x \in link_created : x[1] \in DOMAIN links \/ x[1] \in link_deleted
  /\ \A l \in link_deleted : \E x \in link_created : x[1] = l

LinkInv == LinkSide!TypeOK /\ RowsAreLinks

LEMMA LinksTyped == IdentitySpec => []LinkInv
<1>1. IdentityInit => LinkInv
  BY DEF IdentityInit, LinkSide!Init, LinkInv, LinkSide!TypeOK, RowsAreLinks
<1>2. LinkInv /\ [IdentityNext]_allVars => LinkInv'
  <2> SUFFICES ASSUME LinkInv, [IdentityNext]_allVars PROVE LinkInv'
    OBVIOUS
  <2>0. LinkSide!TypeOK /\ RowsAreLinks
    BY DEF LinkInv
  <2>1. ASSUME NEW l \in LinkIds, NEW link \in LinkSide!Link,
               LinkSide!create(l, link)
        PROVE  LinkInv'
    <3>1. /\ DOMAIN links' = DOMAIN links \cup {l}
          /\ links'[l] = link
          /\ \A x \in DOMAIN links \ {l} : links'[x] = links[x]
          /\ link_created' = link_created \cup {<<l, link>>}
          /\ link_deleted' = link_deleted
          /\ \A x \in link_created : x[1] # l
      BY <2>1 DEF LinkSide!create
    <3>2. links' \in [DOMAIN links' -> LinkSide!Link]
      BY <2>0, <2>1 DEF LinkSide!create, LinkSide!TypeOK
    <3>3. l \notin DOMAIN links
      BY <2>0, <3>1 DEF RowsAreLinks
    <3>a. \A x \in link_created : x[1] \in LinkIds
      BY <2>0 DEF LinkSide!TypeOK
    <3>b. l \notin link_deleted
      BY <2>0, <3>1 DEF RowsAreLinks
    <3>4. LinkSide!TypeOK'
      BY <2>0, <3>1, <3>2 DEF LinkSide!TypeOK
    <3>5. RowsAreLinks'
      BY <2>0, <3>1, <3>3, <3>b DEF RowsAreLinks
    <3>6. QED
      BY <3>4, <3>5 DEF LinkInv
  <2>2. ASSUME NEW l \in LinkIds, LinkSide!delete(l) PROVE LinkInv'
    <3>1. /\ DOMAIN links' = DOMAIN links \ {l}
          /\ \A x \in DOMAIN links' : links'[x] = links[x]
          /\ link_created' = link_created
          /\ link_deleted' = link_deleted \cup {l}
      BY <2>2 DEF LinkSide!delete
    <3>2. links' \in [DOMAIN links' -> LinkSide!Link]
      BY <2>0, <2>2 DEF LinkSide!delete, LinkSide!TypeOK
    <3>3. LinkSide!TypeOK'
      BY <2>0, <3>1, <3>2 DEF LinkSide!TypeOK
    <3>4. RowsAreLinks'
      BY <2>0, <2>2, <3>1 DEF RowsAreLinks, LinkSide!delete
    <3>5. QED
      BY <3>3, <3>4 DEF LinkInv
  <2>3. CASE UNCHANGED link_vars
    BY <2>0, <2>3 DEF link_vars, LinkInv, LinkSide!TypeOK, RowsAreLinks
  <2>4. QED
    BY <2>1, <2>2, <2>3, StepOfOne
    DEF LinkSide!Next, LinkSide!Exhausted, LinkSide!vars, link_vars
<1>3. QED
  BY <1>1, <1>2, PTL DEF IdentitySpec

-----------------------------------------------------------------------------
(***************************************************************************)
(* Every store keeps its type.                                             *)
(***************************************************************************)
THEOREM StoresTyped == IdentitySpec => []IdentityTypeOK
<1>1. AccountThms!Spec => []AccountThms!TypeOK
  BY Assumptions, AccountThms!AccountsTyped
<1>2. CookieThms!Spec => []CookieThms!TypeOK
  BY Assumptions, CookieThms!CookiesTyped
<1>3. PodSide!Spec => []PodInv
  BY Assumptions, PodInvariants
<1>4. AccountThms!TypeOK => AccountSide!TypeOK
  BY DEF AccountThms!TypeOK, AccountThms!Row, AccountThms!Task,
         AccountSide!TypeOK, AccountSide!Row, AccountSide!Task
<1>5. CookieThms!TypeOK => CookieSide!TypeOK
  BY DEF CookieThms!TypeOK, CookieThms!Entry, CookieThms!Task,
         CookieSide!TypeOK, CookieSide!Entry, CookieSide!Task
<1>6. PodInv => PodSide!TypeOK
  BY DEF PodInv
<1>7. LinkInv => LinkSide!TypeOK
  BY DEF LinkInv
<1>8. TypeOK /\ AccountSide!TypeOK /\ CookieSide!TypeOK /\ PodSide!TypeOK
        /\ LinkSide!TypeOK => IdentityTypeOK
  BY DEF IdentityTypeOK
<1>9. QED
  BY <1>1, <1>2, <1>3, <1>4, <1>5, <1>6, <1>7, <1>8, CredentialsTyped, LinksTyped,
     CredentialsIncluded, AccountsIncluded, CookiesIncluded, PodsIncluded, PTL

(***************************************************************************)
(* A search by label returns a token of that label that had not been       *)
(* deleted when it began (find_by_label).                                  *)
(***************************************************************************)
THEOREM FoundHonestly == IdentitySpec => []FoundIsHonest
BY SearchesAreHonest, CredentialsIncluded, PTL

(***************************************************************************)
(* The label of a token that no other of its label overlapped leads to it, *)
(* whatever the other stores do (create, delete of the credentials).       *)
(***************************************************************************)
THEOREM LabelsLead == IdentitySpec => []LabelResolves
BY LabelsResolve, CredentialsIncluded, PTL

(***************************************************************************)
(* An account that has got a login lives until it is deleted, whatever the *)
(* other stores do (increment_, decrement_login_count, prune_expired).     *)
(***************************************************************************)
THEOREM AccountsWithLoginLive == IdentitySpec => []LinkedAccountsLive
<1>1. AccountThms!Spec => []AccountThms!LinkedAccountsLive
  BY Assumptions, AccountThms!LinkedAccountsSurvive
<1>2. AccountThms!LinkedAccountsLive => LinkedAccountsLive
  BY DEF AccountThms!LinkedAccountsLive, LinkedAccountsLive, AccountSide!LinkedAccountsLive
<1>3. QED
  BY <1>1, <1>2, AccountsIncluded, PTL

(***************************************************************************)
(* get_setting does not answer for an account that had expired without a   *)
(* login when the call began.                                              *)
(***************************************************************************)
THEOREM IdleAccountsRefused == IdentitySpec => []IdleNotServed
<1>1. AccountThms!Spec => []AccountThms!IdleNotServed
  BY Assumptions, AccountThms!IdleRefused
<1>2. AccountThms!IdleNotServed => IdleNotServed
  BY DEF AccountThms!IdleNotServed, IdleNotServed, AccountSide!IdleNotServed
<1>3. QED
  BY <1>1, <1>2, AccountsIncluded, PTL

(***************************************************************************)
(* Pruning removes only what was old enough and had no login.              *)
(***************************************************************************)
THEOREM NothingPrunedEarly == IdentitySpec => NeverPrunedEarly
<1>1. AccountThms!Spec => AccountThms!NeverPrunedEarly
  BY Assumptions, AccountThms!PrunedInTime
<1>2. IdentitySpec => AccountThms!NeverPrunedEarly
  BY <1>1, AccountsIncluded
<1> DEFINE InTime == \A id \in DOMAIN accounts \ DOMAIN accounts' :
                       id \in AccountThms!Idle \/ id \in account_deleted'
<1>3. AccountThms!NeverPrunedEarly <=> [][InTime]_(AccountThms!vars)
  BY DEF AccountThms!NeverPrunedEarly
<1>4. [InTime]_(AccountThms!vars) =>
        [\A id \in DOMAIN accounts \ DOMAIN accounts' :
           id \in AccountSide!Idle \/ id \in account_deleted']_(AccountSide!vars)
  BY DEF AccountThms!vars, AccountThms!Idle, AccountSide!vars, AccountSide!Idle
<1>5. QED
  BY <1>2, <1>3, <1>4, PTL DEF NeverPrunedEarly, AccountSide!NeverPrunedEarly

(***************************************************************************)
(* get refuses a cookie that was gone or had expired when the call began,  *)
(* unless a late refresh has revived it.                                   *)
(***************************************************************************)
THEOREM ExpiredCookiesRefused == IdentitySpec => []ExpiredRefused
<1>1. CookieThms!Spec => []CookieThms!ExpiredRefused
  BY Assumptions, CookieThms!ExpiredIsRefused
<1>2. CookieThms!ExpiredRefused => ExpiredRefused
  BY DEF CookieThms!ExpiredRefused, ExpiredRefused, CookieSide!ExpiredRefused
<1>3. QED
  BY <1>1, <1>2, CookiesIncluded, PTL

(***************************************************************************)
(* An expiry moves back only by a refresh that is older than it, and a good*)
(* cookie goes by delete alone.                                            *)
(***************************************************************************)
THEOREM RefreshesStand == IdentitySpec => RefreshHolds
<1>1. CookieThms!Spec => CookieThms!RefreshHolds
  BY Assumptions, CookieThms!RefreshStands
<1>2. IdentitySpec => CookieThms!RefreshHolds
  BY <1>1, CookiesIncluded
<1>3. CookieThms!RefreshHolds => CookieSide!RefreshHolds
  BY DEF CookieThms!RefreshHolds, CookieSide!RefreshHolds, CookieThms!vars,
         CookieSide!vars, CookieThms!Doing, CookieSide!Doing
<1>4. QED
  BY <1>2, <1>3 DEF RefreshHolds

(***************************************************************************)
(* An owner of a pod has one row, unless somebody touched it between the   *)
(* two inserts of create.                                                  *)
(***************************************************************************)
THEOREM OneRowForAnOwner == IdentitySpec => []OneRowPerOwner
<1>1. PodInv => OneRowPerOwner
  BY DEF PodInv, OneRowPerOwner
<1>2. QED
  BY <1>1, Assumptions, PodInvariants, PodsIncluded, PTL

(***************************************************************************)
(* A removed owner has no row until it is set again, with the same         *)
(* exception.                                                              *)
(***************************************************************************)
THEOREM RemovedOwnersGone == IdentitySpec => []RemovedIsNoOwner
<1>1. PodInv => RemovedIsNoOwner
  BY DEF PodInv, RemovedIsNoOwner
<1>2. QED
  BY <1>1, Assumptions, PodInvariants, PodsIncluded, PTL

(***************************************************************************)
(* The WebID a pod was created with stays among its owners until it is     *)
(* removed from that pod.                                                  *)
(***************************************************************************)
THEOREM CreatorsStayOwners == IdentitySpec => []FirstOwnerKept
<1>1. PodInv => FirstOwnerKept
  <2>1. ASSUME PodInv, NEW p \in pod_given, \E r \in DOMAIN owners : owners[r].of = p
        PROVE  p[2] \in {o[1] : o \in PodSide!get_owners(p[1])}
    <3>1. PICK r \in DOMAIN owners : owners[r].of = p
      BY <2>1
    <3>2. <<p[2], owners[r].visible>> \in PodSide!get_owners(p[1])
      BY <3>1 DEF PodSide!get_owners
    <3>3. QED
      BY <3>2
  <2>2. QED
    BY <2>1 DEF PodInv, FirstRowKept, FirstOwnerKept, PodSide!FirstOwnerKept
<1>2. QED
  BY <1>1, Assumptions, PodInvariants, PodsIncluded, PTL

(***************************************************************************)
(* A WebID is linked to an account exactly as long as a link of the two has*)
(* been created and not been deleted.                                      *)
(***************************************************************************)
THEOREM LinksStand == IdentitySpec => []LinksAccounted
<1>1. ASSUME LinkInv PROVE LinksAccounted
  <2>0. LinkSide!TypeOK /\ RowsAreLinks
    BY <1>1 DEF LinkInv
  <2>1. ASSUME NEW w \in WebIds, NEW a \in Accounts
        PROVE  LinkSide!is_linked(w, a) <=>
                 \E x \in link_created : /\ x[1] \notin link_deleted
                                         /\ x[2] = [web_id |-> w, account_id |-> a]
    <3> DEFINE link == [web_id |-> w, account_id |-> a]
    <3> HIDE DEF link
    <3>1. ASSUME NEW l \in DOMAIN links, links[l] = link
          PROVE  \E x \in link_created : x[1] \notin link_deleted /\ x[2] = link
      BY <2>0, <3>1 DEF RowsAreLinks
    <3>2. ASSUME NEW x \in link_created, x[1] \notin link_deleted, x[2] = link
          PROVE  \E l \in DOMAIN links : links[l] = link
      <4>1. x[1] \in DOMAIN links /\ <<x[1], links[x[1]]>> \in link_created
        BY <2>0, <3>2 DEF RowsAreLinks
      <4>2. <<x[1], links[x[1]]>> = x
        BY <2>0, <4>1 DEF RowsAreLinks
      <4>3. links[x[1]] = link
        BY <3>2, <4>2
      <4>4. QED
        BY <4>1, <4>3
    <3>3. QED
      BY <3>1, <3>2 DEF LinkSide!is_linked, link
  <2>2. ASSUME NEW a \in Accounts
        PROVE  LinkSide!find_by_account(a) =
                 {x[1] : x \in {y \in link_created : /\ y[1] \notin link_deleted
                                                    /\ y[2].account_id = a}}
    <3>1. ASSUME NEW l \in DOMAIN links, links[l].account_id = a
          PROVE  \E x \in link_created : /\ x[1] \notin link_deleted
                                         /\ x[2].account_id = a /\ x[1] = l
      <4> DEFINE x == <<l, links[l]>>
      <4>1. x \in link_created /\ l \notin link_deleted
        BY <2>0, <3>1 DEF RowsAreLinks
      <4>2. QED
        BY <3>1, <4>1
    <3>2. ASSUME NEW x \in link_created, x[1] \notin link_deleted, x[2].account_id = a
          PROVE  x[1] \in DOMAIN links /\ links[x[1]].account_id = a
      <4>1. x[1] \in DOMAIN links /\ <<x[1], links[x[1]]>> \in link_created
        BY <2>0, <3>2 DEF RowsAreLinks
      <4>2. <<x[1], links[x[1]]>> = x
        BY <2>0, <4>1 DEF RowsAreLinks
      <4>3. links[x[1]] = x[2]
        BY <4>2
      <4>4. QED
        BY <3>2, <4>1, <4>3
    <3>3. QED
      BY <3>1, <3>2 DEF LinkSide!find_by_account
  <2>3. QED
    BY <2>1, <2>2 DEF LinksAccounted, LinkSide!LinksAccounted
<1>2. QED
  BY <1>1, LinksTyped, PTL
===============================================================================

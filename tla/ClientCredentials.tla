-------------------------- MODULE ClientCredentials --------------------------
(***************************************************************************)
(* BaseClientCredentialsStore (identity/src/client_credentials.rs): tokens *)
(* by id, and an index from labels to ids.  Each map has its own RwLock,   *)
(* and an operation that needs both takes one after the other and lets go  *)
(* in between: create adds the token and then its label, delete removes    *)
(* the token and then its label, find_by_label looks up the id and then    *)
(* the token.  A task may learn of a token before create has returned,     *)
(* through find_by_account.                                                *)
(***************************************************************************)
CONSTANTS
  Clients,    \* the tasks that share the store
  Ids,        \* the UUIDs create draws: each once; bound on the tokens
  Labels, Accounts,
  None

ASSUME SentinelAssumption == None \notin Ids

VARIABLES
  by_id,      \* the tokens: label and account of each id; the rest is payload
  by_label,   \* the index
  pc,         \* where each task stands
  arg,        \* the id its operation is about
  asked,      \* the label its last search was for
  ret,        \* the id its last search returned
  given,      \* history: the label and account each id was created with
  created,    \* history: the ids whose create has returned
  deleted,    \* history: the ids whose delete has returned
  before,     \* history: for each id, those created and deleted before it
  gone        \* history: what had been deleted when a search began

store   == <<by_id, by_label>>
search  == <<asked, ret, gone>>
history == <<given, created, deleted, before>>
vars == <<store, pc, arg, search, history>>

-----------------------------------------------------------------------------
Token == [label: Labels, account: Accounts]
With(m, k, v) == [x \in DOMAIN m \cup {k} |-> IF x = k THEN v ELSE m[x]]
Without(m, k) == [x \in DOMAIN m \ {k} |-> m[x]]
EmptyMap == [x \in {} |-> None]

Init ==
  /\ by_id = EmptyMap
  /\ by_label = EmptyMap
  /\ pc = [c \in Clients |-> "idle"]
  /\ arg = [c \in Clients |-> None]
  /\ asked = [c \in Clients |-> None]
  /\ ret = [c \in Clients |-> None]
  /\ given = EmptyMap
  /\ created = {}
  /\ deleted = {}
  /\ before = EmptyMap
  /\ gone = [c \in Clients |-> {}]

Suspend(c, label, id) ==
  /\ pc[c] = "idle"
  /\ pc'  = [pc  EXCEPT ![c] = label]
  /\ arg' = [arg EXCEPT ![c] = id]

Resume(c, label) ==
  /\ pc[c] = label
  /\ pc'  = [pc  EXCEPT ![c] = "idle"]
  /\ arg' = [arg EXCEPT ![c] = None]

\* create: the token is there, its label is not.
create(c, id, t) ==
  /\ id \notin DOMAIN given
  /\ Suspend(c, "create", id)
  /\ by_id' = With(by_id, id, t)
  /\ given' = With(given, id, t)
  /\ before' = With(before, id, created \cap deleted)
  /\ UNCHANGED <<by_label, created, deleted, search>>

IndexLabel_OnlyIfAbsent(c) ==   \* faulty: entry().or_insert
  LET l == given[arg[c]].label IN
    /\ Resume(c, "create")
    /\ by_label' = IF l \in DOMAIN by_label THEN by_label
                                            ELSE With(by_label, l, arg[c])
    /\ created' = created \cup {arg[c]}
    /\ UNCHANGED <<by_id, given, deleted, before, search>>

IndexLabel(c) ==
  /\ Resume(c, "create")
  /\ by_label' = With(by_label, given[arg[c]].label, arg[c])
  /\ created' = created \cup {arg[c]}
  /\ UNCHANGED <<by_id, given, deleted, before, search>>

\* delete: the token is gone, its label is not.  (Without a token it bails
\* and changes nothing.)
delete(c, id) ==
  /\ id \in DOMAIN by_id
  /\ Suspend(c, "delete", id)
  /\ by_id' = Without(by_id, id)
  /\ UNCHANGED <<by_label, search, history>>

\* The label goes, whatever it leads to by now.
UnindexLabel(c) ==
  /\ Resume(c, "delete")
  /\ by_label' = Without(by_label, given[arg[c]].label)
  /\ deleted' = deleted \cup {arg[c]}
  /\ UNCHANGED <<by_id, given, created, before, search>>

Ask(c, l) ==
  /\ asked' = [asked EXCEPT ![c] = l]
  /\ gone'  = [gone  EXCEPT ![c] = deleted]
  /\ ret'   = [ret   EXCEPT ![c] = None]

find_by_label_Unwrap(c, l) ==   \* faulty: a label that is not there is looked up
  /\ Ask(c, l)
  /\ Suspend(c, "find", IF l \in DOMAIN by_label THEN by_label[l] ELSE None)
  /\ UNCHANGED <<store, history>>

find_by_label(c, l) ==
  /\ Ask(c, l)
  /\ \/ l \in DOMAIN by_label /\ Suspend(c, "find", by_label[l])
     \/ l \notin DOMAIN by_label /\ pc[c] = "idle" /\ UNCHANGED <<pc, arg>>
  /\ UNCHANGED <<store, history>>

Fetch_FromIndex(c) ==   \* faulty: what the index says is not looked up
  /\ Resume(c, "find")
  /\ ret' = [ret EXCEPT ![c] = arg[c]]
  /\ UNCHANGED <<store, history, asked, gone>>

Fetch(c) ==
  /\ Resume(c, "find")
  /\ ret' = [ret EXCEPT ![c] = IF arg[c] \in DOMAIN by_id THEN arg[c] ELSE None]
  /\ UNCHANGED <<store, history, asked, gone>>

\* Every id has been drawn: nothing stops the program here, but the model.
Exhausted == DOMAIN given = Ids /\ UNCHANGED vars

Next ==
  \/ \E c \in Clients :
       \/ \E id \in Ids, t \in Token : create(c, id, t)
       \/ \E id \in Ids : delete(c, id)
       \/ \E l \in Labels : find_by_label(c, l)
       \/ IndexLabel(c) \/ UnindexLabel(c) \/ Fetch(c)
  \/ Exhausted

Spec == Init /\ [][Next]_vars

-----------------------------------------------------------------------------
TypeOK ==
  /\ DOMAIN by_id \subseteq Ids /\ by_id \in [DOMAIN by_id -> Token]
  /\ DOMAIN by_label \subseteq Labels /\ by_label \in [DOMAIN by_label -> Ids]
  /\ pc \in [Clients -> {"idle", "create", "delete", "find"}]
  /\ arg \in [Clients -> Ids \cup {None}]
  /\ \A c \in Clients : arg[c] = None <=> pc[c] = "idle"
  /\ asked \in [Clients -> Labels \cup {None}]
  /\ ret \in [Clients -> Ids \cup {None}]
  /\ DOMAIN given \subseteq Ids /\ given \in [DOMAIN given -> Token]
  /\ before \in [DOMAIN given -> SUBSET Ids]
  /\ created \cup deleted \subseteq DOMAIN given
  /\ gone \in [Clients -> SUBSET deleted]

(***************************************************************************)
(* find_by_label only returns a token of the label it was asked for, and   *)
(* never one whose delete had returned before the search began: deleted    *)
(* credentials do not authenticate, whatever the index still says.         *)
(***************************************************************************)
FoundIsHonest ==
  \A c \in Clients :
    ret[c] # None => given[ret[c]].label = asked[c] /\ ret[c] \notin gone[c]

(***************************************************************************)
(* A label can be used again: a token that no other token of its label has *)
(* overlapped, all of them having been created and deleted before it, is   *)
(* found by its label from the time its create returns until its delete.   *)
(***************************************************************************)
LabelResolves ==
  \A id \in DOMAIN by_id \cap created :
    LET l == given[id].label IN
      (\A i \in DOMAIN given \ {id} : given[i].label = l => i \in before[id])
        => l \in DOMAIN by_label /\ by_label[l] = id

(***************************************************************************)
(* ClientCredentials says that labels are unique per account, and          *)
(* find_by_label that it returns the token with the label: as long as no   *)
(* account has used a label twice, and when no operation is under way,     *)
(* the label of a stored token leads to a stored token.                    *)
(***************************************************************************)
UniquePerAccountResolves ==
  /\ \A i, j \in DOMAIN given : given[i] = given[j] => i = j
  /\ \A c \in Clients : pc[c] = "idle"
  => \A id \in DOMAIN by_id :
       /\ given[id].label \in DOMAIN by_label
       /\ by_label[given[id].label] \in DOMAIN by_id
=============================================================================

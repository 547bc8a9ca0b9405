------------------------------ MODULE PodStore ------------------------------
(***************************************************************************)
(* BasePodStore (identity/src/pod.rs): a map of pods and a map of owner    *)
(* rows, each behind a RwLock of its own.  create inserts the pod, lets go *)
(* of the lock, and then inserts the row of the first owner; others learn  *)
(* of the pod in between, through find_pods and find_by_base_url.  A pair  *)
(* of a pod and a WebID is meant to have one row, but nothing keys it so.  *)
(***************************************************************************)
CONSTANTS
  Clients,     \* the tasks that share the store
  PodIds,      \* the UUIDs create draws; bound on the pods
  Strangers,   \* ids that are no pod's
  Rows,        \* the UUIDs of rows; bound on the rows at one time
  WebIds, Bases, Accounts,
  None

\* Of the constants.
PodAssumption ==
  /\ PodIds \cap Strangers = {}
  /\ None \notin WebIds
  /\ None \notin (PodIds \cup Strangers) \X WebIds

VARIABLES
  pods,      \* PodRow by id
  owners,    \* OwnerRow by id
  task,      \* the owner a create has still to record
  given,     \* history: the pair of each pod that was created with a WebID
  raced,     \* history: the pairs touched while their create was under way
  removed    \* history: the pairs removed, and not set since

vars == <<pods, owners, task, given, raced, removed>>

-----------------------------------------------------------------------------
Pod   == [base_url: Bases, account_id: Accounts]
Pair  == (PodIds \cup Strangers) \X WebIds
Owner == [of: Pair, visible: BOOLEAN]

Put(m, k, v) == [x \in DOMAIN m \cup {k} |-> IF x = k THEN v ELSE m[x]]
Without(m, k) == [x \in DOMAIN m \ {k} |-> m[x]]

RowsOf(p) == {r \in DOMAIN owners : owners[r].of = p}

\* What the queries answer: find_by_base_url returns one of its set.
find_pods(a)        == {p \in DOMAIN pods : pods[p].account_id = a}
find_by_base_url(b) == {p \in DOMAIN pods : pods[p].base_url = b}
get_owners(p) ==
  {<<owners[r].of[2], owners[r].visible>> :
     r \in {x \in DOMAIN owners : owners[x].of[1] = p}}

Init ==
  /\ pods = [p \in {} |-> None]
  /\ owners = [r \in {} |-> None]
  /\ task = [c \in Clients |-> None]
  /\ given = {} /\ raced = {} /\ removed = {}

\* create, under the lock of pods.  overwrite is ignored.
create(c, p, row, w) ==
  /\ task[c] = None
  /\ p \notin DOMAIN pods
  /\ pods' = Put(pods, p, row)
  /\ \/ w = None /\ UNCHANGED <<task, given>>
     \/ /\ w # None
        /\ task' = [task EXCEPT ![c] = <<p, w>>]
        /\ given' = given \cup {<<p, w>>}
  /\ UNCHANGED <<owners, raced, removed>>

Insert(r, p, visible) ==
  /\ r \notin DOMAIN owners
  /\ owners' = Put(owners, r, [of |-> p, visible |-> visible])

\* create, under the lock of owners.
RecordOwner(c, r) ==
  /\ task[c] # None
  /\ Insert(r, task[c], FALSE)
  /\ task' = [task EXCEPT ![c] = None]
  /\ UNCHANGED <<pods, given, raced, removed>>

Touch(p) ==
  raced' = IF \E c \in Clients : task[c] = p THEN raced \cup {p} ELSE raced

update_owner_AlwaysInserts(p, visible) ==   \* faulty: does not look for the row
  /\ \E r \in Rows : Insert(r, p, visible)
  /\ Touch(p) /\ removed' = removed \ {p}
  /\ UNCHANGED <<pods, task, given>>

\* Of several rows, the first that the map's iteration meets.
update_owner(p, visible) ==
  /\ \/ RowsOf(p) = {} /\ \E r \in Rows : Insert(r, p, visible)
     \/ \E r \in RowsOf(p) : owners' = [owners EXCEPT ![r].visible = visible]
  /\ Touch(p) /\ removed' = removed \ {p}
  /\ UNCHANGED <<pods, task, given>>

remove_owner_Hides(p) ==   \* faulty: the row stays, invisible
  /\ RowsOf(p) # {}
  /\ \E r \in RowsOf(p) : owners' = [owners EXCEPT ![r].visible = FALSE]
  /\ Touch(p) /\ removed' = removed \cup {p}
  /\ UNCHANGED <<pods, task, given>>

remove_owner_OfAnyPod(p) ==   \* faulty: finds the row by its WebID alone
  /\ \E r \in {x \in DOMAIN owners : owners[x].of[2] = p[2]} :
       owners' = Without(owners, r)
  /\ Touch(p) /\ removed' = removed \cup {p}
  /\ UNCHANGED <<pods, task, given>>

remove_owner(p) ==
  /\ \/ RowsOf(p) = {} /\ UNCHANGED owners
     \/ \E r \in RowsOf(p) : owners' = Without(owners, r)
  /\ Touch(p) /\ removed' = removed \cup {p}
  /\ UNCHANGED <<pods, task, given>>

\* Who can be asked about: pods that can be found, and ids that are no pod's.
Known ==
  LET found == {find_pods(a) : a \in Accounts}
                 \cup {find_by_base_url(b) : b \in Bases}
  IN (Strangers \cup UNION found) \X WebIds

Next ==
  \/ \E c \in Clients :
       \/ \E p \in PodIds, row \in Pod, w \in WebIds \cup {None} :
            create(c, p, row, w)
       \/ \E r \in Rows : RecordOwner(c, r)
  \/ \E p \in Known :
       (\E v \in BOOLEAN : update_owner(p, v)) \/ remove_owner(p)

Spec == Init /\ [][Next]_vars

-----------------------------------------------------------------------------
TypeOK ==
  /\ DOMAIN pods \subseteq PodIds /\ pods \in [DOMAIN pods -> Pod]
  /\ DOMAIN owners \subseteq Rows /\ owners \in [DOMAIN owners -> Owner]
  /\ task \in [Clients -> {None} \cup Pair]
  /\ given \subseteq Pair /\ raced \subseteq Pair /\ removed \subseteq Pair
  /\ \A c \in Clients : task[c] # None => task[c] \in given

\* The pair has a row to come.
Pending(p) == \E c \in Clients : task[c] = p

(***************************************************************************)
(* An owner has one row, hence one visibility, unless somebody touched it  *)
(* between the two inserts of the create of its pod.                       *)
(***************************************************************************)
OneRowPerOwner ==
  \A r, s \in DOMAIN owners :
    owners[r].of = owners[s].of /\ r # s => owners[r].of \in raced

(***************************************************************************)
(* remove_owner removes its WebID from the owner list, and it stays        *)
(* removed until it is set again, with the same exception: then a row of   *)
(* two may stay, or the row come afterwards.                               *)
(***************************************************************************)
RemovedIsNoOwner ==
  \A p \in removed : RowsOf(p) = {} \/ p \in raced

(***************************************************************************)
(* The WebID a pod was created with is among its owners from the time      *)
(* create returns until it is removed itself: no operation on another      *)
(* owner, or on the same WebID at another pod, costs a pod its owner.      *)
(***************************************************************************)
FirstOwnerKept ==
  \A p \in given :
    \/ Pending(p) \/ p \in removed
    \/ p[2] \in {o[1] : o \in get_owners(p[1])}
=============================================================================

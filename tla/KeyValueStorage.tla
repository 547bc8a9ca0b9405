--------------------------- MODULE KeyValueStorage ---------------------------
(***************************************************************************)
(* What the trait KeyValueStorage (solid-storage/src/key_value.rs)         *)
(* promises the tasks that share a storage: each operation takes effect at *)
(* one instant between its call and its answer, on a map from keys to      *)
(* values, and its answer says what the map held at that instant.  Where   *)
(* the medium is Fallible, an operation may fail without an effect, the    *)
(* process may stop, and either may leave the contents Unreadable; then no *)
(* operation does anything but fail, so that nothing is ever built on a    *)
(* damaged map.                                                            *)
(***************************************************************************)
CONSTANTS
  Clients, Keys, Values,
  Fallible,      \* whether the medium can lose what it holds
  Unreadable,    \* the contents after such a loss
  Error, None

VARIABLES
  content,   \* the map, or Unreadable
  task,      \* what each client waits for: None, an operation, or its result
  ret        \* what its last operation has returned

vars == <<content, task, ret>>

Maps == UNION {[ks -> Values] : ks \in SUBSET Keys}
Restriction(m, ks) == [k \in DOMAIN m \cap ks |-> m[k]]

\* get stands for has as well, which drops the value.
Operation ==
  [name: {"get", "delete"}, key: Keys] \cup [name: {"entries"}]
    \cup [name: {"set"}, key: Keys, value: Values]

Apply(m, o) ==
  CASE o.name = "set"    -> [k \in DOMAIN m \cup {o.key} |->
                               IF k = o.key THEN o.value ELSE m[k]]
    [] o.name = "delete" -> Restriction(m, Keys \ {o.key})
    [] OTHER             -> m

Entries(m, ks) == {<<k, m[k]>> : k \in DOMAIN m \cap ks}

\* What an operation returns: entries, or for delete the key, if it was there.
Result(m, o) ==
  CASE o.name = "entries" -> Entries(m, Keys)
    [] o.name = "get"     -> Entries(m, {o.key})
    [] o.name = "delete"  -> {o.key} \cap DOMAIN m
    [] OTHER              -> {}

Taken(res) == [taken |-> res]
IsOperation(t) == t \in Operation
IsTaken(t) == t # None /\ ~IsOperation(t)

Init ==
  /\ content = [k \in {} |-> None]
  /\ task = [c \in Clients |-> None]
  /\ ret = [c \in Clients |-> None]

Call(c) ==
  /\ task[c] = None
  /\ \E o \in Operation : task' = [task EXCEPT ![c] = o]
  /\ ret' = [ret EXCEPT ![c] = None]
  /\ UNCHANGED content

Answer(c, res) ==
  /\ task' = [task EXCEPT ![c] = None]
  /\ ret'  = [ret  EXCEPT ![c] = res]

\* The operation takes effect, and answers now or later.
Take(c) ==
  /\ IsOperation(task[c])
  /\ content # Unreadable
  /\ content' = Apply(content, task[c])
  /\ LET res == Result(content, task[c]) IN
       \/ Answer(c, res)
       \/ task' = [task EXCEPT ![c] = Taken(res)] /\ UNCHANGED ret

AnswerLater(c) ==
  /\ IsTaken(task[c])
  /\ Answer(c, task[c].taken)
  /\ UNCHANGED content

Fail(c) ==
  /\ task[c] # None
  /\ content = Unreadable \/ Fallible
  /\ Answer(c, Error)
  /\ \/ UNCHANGED content
     \/ content' = Unreadable /\ Fallible /\ IsTaken(task[c])

\* The caller gives up before the operation has taken effect.
GiveUp(c) ==
  /\ IsOperation(task[c])
  /\ task' = [task EXCEPT ![c] = None]
  /\ UNCHANGED <<content, ret>>

Stop ==
  /\ Fallible
  /\ \/ UNCHANGED content
     \/ content' = Unreadable /\ \E c \in Clients : IsTaken(task[c])
  /\ task' = [c \in Clients |-> None]
  /\ ret'  = [c \in Clients |-> None]

Next ==
  Stop \/ \E c \in Clients :
            Call(c) \/ Take(c) \/ AnswerLater(c) \/ Fail(c) \/ GiveUp(c)

Spec == Init /\ [][Next]_vars
=============================================================================

-------------------------- MODULE PassthroughStorage --------------------------
(***************************************************************************)
(* PassthroughKeyValueStorage (solid-storage/src/key_value.rs) over one    *)
(* MemoryMapStorage (solid-storage/src/backends/memory.rs): views that     *)
(* rewrite keys and share the map below.  The rewriting is the one of the  *)
(* trait's own example, PrefixStorage.  A key is a sequence of letters.    *)
(***************************************************************************)
EXTENDS Naturals, Sequences, FiniteSetsExt

CONSTANTS
  Clients,
  Views,
  Mine,      \* the view that is compared with a storage of its own
  ViewOf,    \* the view each client calls
  Prefix,    \* the letters each view puts before its keys
  Keys,      \* the keys the clients use
  Values, None

VARIABLES
  data,   \* the map below, by stored key
  task,   \* the operation each client waits for, or None
  ret     \* what its last operation has returned

vars == <<data, task, ret>>

-----------------------------------------------------------------------------
StartsWith(k, p) == Len(p) <= Len(k) /\ SubSeq(k, 1, Len(p)) = p

to_new_key_Bare(v, k) == k   \* faulty: the prefix is forgotten

to_new_key(v, k) == Prefix[v] \o k

\* trim_start_matches: what is left when the prefix has been taken off as
\* often as it is there.  A key of another view stays as it is stored.
to_original_key(v, s) ==
  LET p == Prefix[v]
      from(n) == SubSeq(s, n * Len(p) + 1, Len(s))
      times == {n \in 0..Len(s) : \A i \in 0..n - 1 : StartsWith(from(i), p)}
  IN from(Max(times))

IsSeq(k) == k \in Seq({k[i] : i \in DOMAIN k})
Stored == {to_new_key(v, k) : v \in Views, k \in Keys}

\* Of the constants: no prefix begins with another, and no key with one, of
\* which trim_start_matches would take too much.  None is no map or answer,
\* and no key is an entry.
Separate ==
  /\ ViewOf \in [Clients -> Views] /\ Mine \in Views
  /\ \A k \in Keys : IsSeq(k)
  /\ \A v \in Views : IsSeq(Prefix[v])
  /\ \A v \in Views : Len(Prefix[v]) > 0 /\ \A w \in Views \ {v} :
       ~StartsWith(Prefix[v], Prefix[w])
  /\ \A k \in Keys, v \in Views : ~StartsWith(k, Prefix[v])
  /\ \A ks \in SUBSET Keys : None \notin [ks -> Values]
  /\ \A r \in SUBSET (Keys \cup (Keys \cup Stored) \X Values) : r # None
  /\ \A k \in Keys : k \notin (Keys \cup Stored) \X Values

Put(m, k, x) == [s \in DOMAIN m \cup {k} |-> IF s = k THEN x ELSE m[s]]
Drop(m, k) == [s \in DOMAIN m \ {k} |-> m[s]]

\* get stands for has too, which drops the value.
Operation ==
  [name: {"get", "delete"}, key: Keys] \cup [name: {"entries"}]
    \cup [name: {"set"}, key: Keys, value: Values]

Init ==
  /\ data = [s \in {} |-> None]
  /\ task = [c \in Clients |-> None]
  /\ ret = [c \in Clients |-> None]

Call(c) ==
  /\ task[c] = None
  /\ \E o \in Operation : task' = [task EXCEPT ![c] = o]
  /\ ret' = [ret EXCEPT ![c] = None]
  /\ UNCHANGED data

\* The future is dropped before it has been polled.
GiveUp(c) ==
  /\ task[c] # None
  /\ task' = [task EXCEPT ![c] = None]
  /\ UNCHANGED <<data, ret>>

Doing(c, name) == task[c] # None /\ task[c].name = name

Return(c, res) ==
  /\ task' = [task EXCEPT ![c] = None]
  /\ ret' = [ret EXCEPT ![c] = res]

new_key(c) == to_new_key(ViewOf[c], task[c].key)

\* Each holds the mutex below for its one call of the source.
get_passthrough(c) ==
  /\ Doing(c, "get")
  /\ Return(c, {<<task[c].key, data[s]>> : s \in {new_key(c)} \cap DOMAIN data})
  /\ UNCHANGED data

set_passthrough(c) ==
  /\ Doing(c, "set")
  /\ data' = Put(data, new_key(c), task[c].value)
  /\ Return(c, {})

delete_passthrough(c) ==
  /\ Doing(c, "delete")
  /\ data' = Drop(data, new_key(c))
  /\ Return(c, IF new_key(c) \in DOMAIN data THEN {task[c].key} ELSE {})

entries_passthrough(c) ==
  /\ Doing(c, "entries")
  /\ Return(c, {<<to_original_key(ViewOf[c], s), data[s]>> : s \in DOMAIN data})
  /\ UNCHANGED data

Next ==
  \E c \in Clients :
    \/ Call(c) \/ GiveUp(c)
    \/ get_passthrough(c) \/ set_passthrough(c)
    \/ delete_passthrough(c) \/ entries_passthrough(c)

Spec == Init /\ [][Next]_vars

-----------------------------------------------------------------------------
Mates == {c \in Clients : ViewOf[c] = Mine}

\* What a client makes of an answer: entries lists the whole source, and the
\* client has to tell its own keys from the stored keys of other views.
Own(res) ==
  IF res = None THEN None ELSE {e \in res : e \in Keys \/ e[1] \in Keys}

View == INSTANCE KeyValueStorage WITH
  Clients <- Mates, Fallible <- FALSE, Unreadable <- None, Error <- None,
  content <- [k \in {l \in Keys : to_new_key(Mine, l) \in DOMAIN data} |->
                data[to_new_key(Mine, k)]],
  task <- [c \in Mates |-> task[c]],
  ret <- [c \in Mates |-> Own(ret[c])]

(***************************************************************************)
(* Whoever shares the source, a view is a linearizable storage of its own: *)
(* an operation takes effect on the view's map alone, at one instant, and  *)
(* answers what that map held, save that entries adds foreign keys.        *)
(***************************************************************************)
ViewIsStorage == View!Spec
=============================================================================

--------------------------- MODULE JsonFileStorage ---------------------------
(***************************************************************************)
(* JsonFileStorage (solid-storage/src/backends/file.rs): a map kept as one *)
(* JSON file.  Every operation reads the whole file under a tokio RwLock;  *)
(* set and delete write it anew while they hold the lock for writing.      *)
(* tokio::fs::write is a call of std::fs::write on a thread of the         *)
(* blocking pool: it truncates the file and then writes it, and dropping   *)
(* the future that waits for it neither stops nor undoes it.               *)
(***************************************************************************)
EXTENDS FiniteSets

CONSTANTS
  Clients,       \* the tasks that share the storage
  Keys, Values,
  MayCancel,     \* whether a task may drop the future of an operation
  MayCrash,      \* whether the process may be killed and started again
  DiskMayFail,   \* whether a write may fail
  Absent,        \* there is no file
  Blank,         \* an empty file
  Garbled,       \* a file that is not what any one write wrote
  Error, None

VARIABLES
  file,   \* the file: Absent, Blank, Garbled, or the map it holds
  lock,   \* the tasks that hold the RwLock
  pc,     \* where each task stands
  op,     \* its operation
  map,    \* the map it has read, edited, and writes
  ret,    \* what its last operation has returned
  abandoned,  \* history: some write has outlived its operation
  struck      \* history: what has cut a write short since one last ended

history == <<abandoned, struck>>
vars == <<file, lock, pc, op, map, ret, history>>

-----------------------------------------------------------------------------
Maps == UNION {[ks -> Values] : ks \in SUBSET Keys}
EmptyMap == [k \in {} |-> None]
Restriction(m, ks) == [k \in DOMAIN m \cap ks |-> m[k]]
Entries(m, ks) == {<<k, m[k]>> : k \in DOMAIN m \cap ks}

\* get stands for has too, which reads the same and drops the value.
Operation ==
  [name: {"get", "delete"}, key: Keys] \cup [name: {"entries"}]
    \cup [name: {"set"}, key: Keys, value: Values]

\* What stands for no map and for no operation is neither.
ASSUME SentinelAssumption ==
  /\ {Absent, Blank, Garbled, None} \cap Maps = {}
  /\ Absent \notin {Blank, Garbled} /\ Blank # Garbled
  /\ None \notin Operation
  /\ None \notin [taken: {{}} \cup {{k} : k \in Keys}]

Writes(c) == op[c].name \in {"set", "delete"}

Init ==
  /\ file = Absent
  /\ lock = {}
  /\ pc = [c \in Clients |-> "idle"]
  /\ op = [c \in Clients |-> None]
  /\ map = [c \in Clients |-> None]
  /\ ret = [c \in Clients |-> None]
  /\ abandoned = FALSE
  /\ struck = {}

\* The future of the operation ends, and its guard is dropped with it.
Leave(c) ==
  /\ pc'   = [pc  EXCEPT ![c] = "idle"]
  /\ op'   = [op  EXCEPT ![c] = None]
  /\ map'  = [map EXCEPT ![c] = None]
  /\ lock' = lock \ {c}
  /\ UNCHANGED abandoned

Return(c, res) ==
  /\ Leave(c)
  /\ ret' = [ret EXCEPT ![c] = res]

Call(c) ==
  /\ pc[c] = "idle"
  /\ \E o \in Operation : op' = [op EXCEPT ![c] = o]
  /\ pc'  = [pc  EXCEPT ![c] = "waiting"]
  /\ ret' = [ret EXCEPT ![c] = None]
  /\ UNCHANGED <<file, lock, map, history>>

LockFree_Shared(c) ==   \* faulty: set and delete take the lock for reading
  TRUE

\* A writer excludes everybody, readers only writers.
LockFree(c) ==
  IF Writes(c) THEN lock = {} ELSE \A d \in lock : ~Writes(d)

Acquire(c) ==
  /\ pc[c] = "waiting"
  /\ LockFree(c)
  /\ lock' = lock \cup {c}
  /\ pc' = [pc EXCEPT ![c] = "holding"]
  /\ UNCHANGED <<file, op, map, ret, history>>

\* read_map: no file is an empty map; what does not parse is an error.
Readable == file \notin {Blank, Garbled}
read_map == IF file \in {Absent, Blank, Garbled} THEN EmptyMap ELSE file

ReadFails_KeepsLock(c) ==   \* faulty: the error path does not release
  /\ pc[c] = "holding"
  /\ ~Readable
  /\ pc'  = [pc  EXCEPT ![c] = "idle"]
  /\ ret' = [ret EXCEPT ![c] = Error]
  /\ UNCHANGED <<file, lock, op, map, history>>

ReadFails(c) ==
  /\ pc[c] = "holding"
  /\ ~Readable
  /\ Return(c, Error)
  /\ UNCHANGED <<file, struck>>

\* get, has, entries, and delete of a key that is not there.
Look(c) ==
  /\ pc[c] = "holding"
  /\ Readable
  /\ CASE op[c].name = "get"     -> Return(c, Entries(read_map, {op[c].key}))
       [] op[c].name = "entries" -> Return(c, Entries(read_map, Keys))
       [] OTHER                  -> /\ op[c].name = "delete"
                                    /\ op[c].key \notin DOMAIN read_map
                                    /\ Return(c, {})
  /\ UNCHANGED <<file, struck>>

Edit(c, m) ==
  /\ pc[c] = "holding"
  /\ Readable
  /\ map' = [map EXCEPT ![c] = m]
  /\ pc'  = [pc  EXCEPT ![c] = "writing"]
  /\ UNCHANGED <<file, lock, op, ret, history>>

set(c) ==
  /\ op[c] # None /\ op[c].name = "set"
  /\ Edit(c, [k \in DOMAIN read_map \cup {op[c].key} |->
                IF k = op[c].key THEN op[c].value ELSE read_map[k]])

delete(c) ==
  /\ op[c] # None /\ op[c].name = "delete"
  /\ op[c].key \in DOMAIN read_map
  /\ Edit(c, Restriction(read_map, Keys \ {op[c].key}))

\* The parent directory or the file cannot be opened.
OpenFails(c) ==
  /\ pc[c] = "writing" /\ DiskMayFail
  /\ IF c \in lock THEN Return(c, Error) ELSE Leave(c) /\ UNCHANGED ret
  /\ UNCHANGED <<file, struck>>

Truncate(c) ==
  /\ pc[c] = "writing"
  /\ file' = Blank
  /\ pc' = [pc EXCEPT ![c] = "truncated"]
  /\ UNCHANGED <<lock, op, map, ret, history>>

\* set returns nothing, delete that there was an entry.
WriteResult(c) == IF op[c].name = "delete" THEN {op[c].key} ELSE {}

\* The bytes are written from the start of the file.  If another write has
\* been there since the truncation, what was longer sticks out.
Fill(c) ==
  /\ pc[c] = "truncated"
  /\ file' \in {map[c]} \cup IF file \in {Blank, map[c]} THEN {} ELSE {Garbled}
  /\ struck' = {}
  /\ IF c \in lock THEN Return(c, WriteResult(c)) ELSE Leave(c) /\ UNCHANGED ret

\* The disk is full.
FillFails(c) ==
  /\ pc[c] = "truncated" /\ DiskMayFail
  /\ file' \in {file, Garbled}
  /\ struck' = struck \cup {"disk"}
  /\ IF c \in lock THEN Return(c, Error) ELSE Leave(c) /\ UNCHANGED ret

\* The future is dropped before anything was handed to the blocking pool.
Cancel(c) ==
  /\ MayCancel
  /\ pc[c] \in {"waiting", "holding", "writing"}
  /\ pc[c] = "writing" => c \in lock
  /\ Leave(c)
  /\ UNCHANGED <<file, ret, struck>>

\* It is dropped while a blocking write is queued or under way: the guard
\* goes, the write does not.  (The client rests until it is over, which
\* bounds the writes at any time by the number of clients.)
Abandon(c) ==
  /\ MayCancel
  /\ pc[c] \in {"writing", "truncated"}
  /\ c \in lock
  /\ lock' = lock \ {c}
  /\ abandoned' = TRUE
  /\ UNCHANGED <<file, pc, op, map, ret, struck>>

\* The process is killed and started again: only the file is left, with as
\* much of it as had been written.
Crash ==
  /\ MayCrash
  /\ lock' = {}
  /\ pc' = [c \in Clients |-> "idle"]
  /\ op' = [c \in Clients |-> None]
  /\ map' = [c \in Clients |-> None]
  /\ ret' = [c \in Clients |-> None]
  /\ IF \E c \in Clients : pc[c] = "truncated"
     THEN file' \in {file, Garbled} /\ struck' = struck \cup {"crash"}
     ELSE UNCHANGED <<file, struck>>
  /\ UNCHANGED abandoned

Write(c) == OpenFails(c) \/ Truncate(c) \/ Fill(c) \/ FillFails(c)
Step(c) == ReadFails(c) \/ Look(c) \/ set(c) \/ delete(c) \/ Write(c)

Next ==
  Crash \/ \E c \in Clients :
             Call(c) \/ Acquire(c) \/ Step(c) \/ Cancel(c) \/ Abandon(c)

\* tokio's RwLock is first come, first served; the runtime and the blocking
\* pool run what is ready.  Nothing calls, cancels or crashes of necessity.
Fairness == \A c \in Clients : WF_vars(Step(c)) /\ SF_vars(Acquire(c))

Spec == Init /\ [][Next]_vars /\ Fairness

-----------------------------------------------------------------------------
TypeOK ==
  /\ file \in {Absent, Blank, Garbled} \cup Maps
  /\ pc \in [Clients -> {"idle", "waiting", "holding", "writing", "truncated"}]
  /\ op \in [Clients -> {None} \cup Operation]
  /\ map \in [Clients -> {None} \cup Maps]
  /\ lock \subseteq {c \in Clients : pc[c] \in {"holding", "writing", "truncated"}}
  /\ abandoned \in BOOLEAN
  /\ struck \subseteq {"crash", "disk"}

(***************************************************************************)
(* The RwLock "protects concurrent access" to the file: while a task holds *)
(* it, nothing but that task's own write changes the file.                 *)
(***************************************************************************)
FileStableUnderLock ==
  [][\A c \in lock :
       file' # file => pc[c] \in {"writing", "truncated"} /\ pc'[c] # pc[c]]_vars

(***************************************************************************)
(* write_map says that it overwrites the file "atomically": whenever no    *)
(* operation is under way, and so after every restart, the file parses.    *)
(***************************************************************************)
OverwriteIsAtomic ==
  (\A c \in Clients : pc[c] = "idle") => file \notin {Blank, Garbled}

(***************************************************************************)
(* A file that does not parse has a cause.  It is left blank, with nobody  *)
(* there to fill it, only by a crash in the middle of a write or a disk    *)
(* that fails it, and no write has ended since; it is garbled only by      *)
(* these, or where some write has outlived its operation.  Tasks that      *)
(* meet, operations cancelled before, during or after their writes, and    *)
(* errors cost nothing by themselves.                                      *)
(***************************************************************************)
DamageHasCause ==
  /\ file = Blank => struck # {} \/ \E c \in Clients : pc[c] = "truncated"
  /\ file = Garbled => struck # {} \/ abandoned

(***************************************************************************)
(* As long as no write has outlived its operation, the storage keeps what  *)
(* the trait promises: reading the file and the two steps of writing it    *)
(* take effect at once (at the truncation), and a crash or a full disk     *)
(* costs at most a whole file, of which every later operation says so.     *)
(***************************************************************************)
Truncating == {c \in Clients : pc[c] = "truncated"}

Abstract == INSTANCE KeyValueStorage WITH
  Fallible   <- MayCrash \/ DiskMayFail,
  Unreadable <- Garbled,
  content    <- IF Truncating # {} THEN map[CHOOSE c \in Truncating : TRUE]
                ELSE IF file \in {Blank, Garbled} THEN Garbled ELSE read_map,
  task       <- [c \in Clients |->
                   IF pc[c] = "truncated" THEN [taken |-> WriteResult(c)] ELSE op[c]]

ImplementsKeyValueStorage ==
  Abstract!Init /\ [][~abandoned' => Abstract!Next \/ UNCHANGED Abstract!vars]_vars

(***************************************************************************)
(* Every operation ends, whatever the others do and however they fail: no  *)
(* error path keeps the lock.                                              *)
(***************************************************************************)
OperationsEnd == \A c \in Clients : pc[c] = "waiting" ~> pc[c] = "idle"
=============================================================================

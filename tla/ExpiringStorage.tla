--------------------------- MODULE ExpiringStorage ---------------------------
(***************************************************************************)
(* WrappedExpiringStorage (solid-storage/src/backends/expiring.rs): time   *)
(* to live over a key-value store whose single operations are atomic, as   *)
(* those of MemoryMapStorage are.  An operation of the wrapper may take    *)
(* several: get reads, looks at the clock and deletes what has expired,    *)
(* set_expiring looks at the clock and writes, and a background task takes *)
(* a snapshot and then deletes, one key at a time, what had expired in it. *)
(* Other clients run in between.                                           *)
(***************************************************************************)
EXTENDS Naturals

CONSTANTS
  Clients,          \* the tasks that use the storage
  Keys,
  TicksPerSecond,   \* how much finer SystemTime is than the stored seconds
  CleanupTicks,     \* cleanup_interval, which must not be zero
  SourceMayFail,    \* whether the underlying store can return errors
  MaxTime,          \* bound: the clock stops here
  MaxWrites,        \* bound: how many values are ever written
  Never,            \* no expiry
  None              \* nothing held

ASSUME TimeAssumption ==
  /\ TicksPerSecond \in Nat \ {0}
  /\ CleanupTicks \in Nat \ {0}
  /\ MaxTime \in Nat
  /\ MaxWrites \in Nat
  /\ Never \notin Nat

VARIABLES
  source,    \* the underlying store: the wrapper of each key present
  now,       \* the system clock, in ticks
  version,   \* how many values have been written; the last one's number
  pc,        \* where each client stands
  key,       \* the key a client works on
  held,      \* the wrappers it has read, or the one it is about to write
  ret,       \* the wrappers whose payload its last operation returned
  sweeper,   \* where the background task stands
  due,       \* when its interval next fires
  pending,   \* the snapshot it filters, then what it still has to delete
  dropped    \* the storage has been dropped

clientVars == <<pc, key, held, ret>>
sweepVars  == <<sweeper, due, pending>>
vars == <<source, now, version, clientVars, sweepVars, dropped>>

-----------------------------------------------------------------------------
\* ExpiresWrapper: the deadline is cut down to whole seconds.  The field
\* deadline keeps the exact one; the code never reads it.
Deadline == 1..MaxTime \cup {Never}

Wrap(v, d) ==
  [payload |-> v,
   expires |-> IF d = Never THEN Never ELSE d \div TicksPerSecond,
   deadline |-> d]

Wrapper == {Wrap(v, d) : v \in 1..MaxWrites, d \in Deadline}

is_expired_Late(w) ==   \* faulty: > where the code has >=
  w.expires # Never /\ now \div TicksPerSecond > w.expires

is_expired(w) == w.expires # Never /\ now \div TicksPerSecond >= w.expires

Maps == UNION {[ks -> Wrapper] : ks \in SUBSET Keys}
EmptyMap == [k \in {} |-> None]

With(m, k, w) == [x \in DOMAIN m \cup {k} |-> IF x = k THEN w ELSE m[x]]
Without(m, ks) == [x \in DOMAIN m \ ks |-> m[x]]

Init ==
  /\ source = EmptyMap
  /\ now = 0
  /\ version = 0
  /\ pc = [c \in Clients |-> "idle"]
  /\ key = [c \in Clients |-> None]
  /\ held = [c \in Clients |-> {}]
  /\ ret = [c \in Clients |-> {}]
  /\ sweeper = "sleep"
  /\ due = CleanupTicks
  /\ pending = EmptyMap
  /\ dropped = FALSE

\* What an operation of the source that fails leaves.
Unchanged == IF SourceMayFail THEN {source} ELSE {}

\* An operation that needs another step.
Suspend(c, label, k, h) ==
  /\ pc'   = [pc   EXCEPT ![c] = label]
  /\ key'  = [key  EXCEPT ![c] = k]
  /\ held' = [held EXCEPT ![c] = h]
  /\ UNCHANGED ret

Return(c, ws) ==
  /\ pc'   = [pc   EXCEPT ![c] = "idle"]
  /\ key'  = [key  EXCEPT ![c] = None]
  /\ held' = [held EXCEPT ![c] = {}]
  /\ ret'  = [ret  EXCEPT ![c] = ws]

Ready(c) == pc[c] = "idle" /\ ~dropped

get_Unwrap(c, k) ==   \* faulty: a missing key is not told from an empty value
  /\ Ready(c)
  /\ Suspend(c, "got", k, {IF k \in DOMAIN source THEN source[k] ELSE None})
  /\ UNCHANGED <<source, now, version, sweepVars, dropped>>

\* get, and has which is a get: the read of the source.
get(c, k) ==
  /\ Ready(c)
  /\ IF k \in DOMAIN source THEN Suspend(c, "got", k, {source[k]})
                            ELSE Return(c, {})
  /\ UNCHANGED <<source, now, version, sweepVars, dropped>>

\* The entry read is still live: its payload is returned.
ReturnLive(c) ==
  /\ pc[c] = "got"
  /\ \A w \in held[c] : ~is_expired(w)
  /\ Return(c, held[c])
  /\ UNCHANGED <<source, now, version, sweepVars, dropped>>

\* It has expired: the key is deleted, whatever it holds by now, and an
\* error of the delete is ignored.
Evict(c) ==
  /\ pc[c] = "got"
  /\ \A w \in held[c] : is_expired(w)
  /\ source' \in {Without(source, {key[c]})} \cup Unchanged
  /\ Return(c, {})
  /\ UNCHANGED <<now, version, sweepVars, dropped>>

NewValue == version < MaxWrites /\ version' = version + 1

set(c, k) ==
  /\ Ready(c)
  /\ NewValue
  /\ source' = With(source, k, Wrap(version', Never))
  /\ Return(c, {})
  /\ UNCHANGED <<now, sweepVars, dropped>>

\* set_expiring refuses a deadline that has passed with AlreadyExpired.
RejectExpired(c, d) ==
  /\ Ready(c)
  /\ d <= now
  /\ Return(c, {})
  /\ UNCHANGED <<source, now, version, sweepVars, dropped>>

set_expiring(c, k, d) ==
  /\ Ready(c)
  /\ d > now
  /\ NewValue
  /\ Suspend(c, "checked", k, {Wrap(version', d)})
  /\ UNCHANGED <<source, now, sweepVars, dropped>>

WriteExpiring(c) ==
  /\ pc[c] = "checked"
  /\ \E w \in held[c] : source' = With(source, key[c], w)
  /\ Return(c, {})
  /\ UNCHANGED <<now, version, sweepVars, dropped>>

delete(c, k) ==
  /\ Ready(c)
  /\ source' = Without(source, {k})
  /\ Return(c, {})
  /\ UNCHANGED <<now, version, sweepVars, dropped>>

\* entries: a snapshot, of which what is live is returned.
entries(c) ==
  /\ Ready(c)
  /\ Suspend(c, "listed", None, {source[k] : k \in DOMAIN source})
  /\ UNCHANGED <<source, now, version, sweepVars, dropped>>

ReturnEntries(c) ==
  /\ pc[c] = "listed"
  /\ Return(c, {w \in held[c] : ~is_expired(w)})
  /\ UNCHANGED <<source, now, version, sweepVars, dropped>>

-----------------------------------------------------------------------------
\* The background task.  The interval keeps firing at MaxTime, where the
\* clock of the model stops.
Fires ==
  /\ sweeper = "sleep"
  /\ now >= due
  /\ due' = IF due + CleanupTicks <= MaxTime THEN due + CleanupTicks ELSE MaxTime

Sweep(label, m) ==
  /\ sweeper' = label
  /\ pending' = m
  /\ UNCHANGED <<source, now, version, clientVars, dropped>>

Snapshot == Fires /\ ~dropped /\ Sweep("filter", source)

\* entries() fails: nothing is swept this time.
SnapshotFails == Fires /\ ~dropped /\ SourceMayFail /\ Sweep("sleep", EmptyMap)

Exit_StrongReference ==   \* faulty: the task holds an Arc, never a dead Weak
  Fires /\ dropped /\ Sweep("filter", source)

\* The storage is gone: the weak reference cannot be upgraded.
Exit == Fires /\ dropped /\ Sweep("stopped", EmptyMap)

Filter_Inverted ==   \* faulty: keeps what is live
  /\ sweeper = "filter"
  /\ Sweep("purge", Without(pending, {k \in DOMAIN pending : is_expired(pending[k])}))
  /\ UNCHANGED due

Filter ==
  /\ sweeper = "filter"
  /\ Sweep("purge", Without(pending, {k \in DOMAIN pending : ~is_expired(pending[k])}))
  /\ UNCHANGED due

Purge(k) ==
  /\ sweeper = "purge"
  /\ k \in DOMAIN pending
  /\ pending' = Without(pending, {k})
  /\ UNCHANGED <<now, version, clientVars, sweeper, due, dropped>>

\* The keys are deleted in the order of the snapshot, which is any, without
\* another look at what they hold.
PurgeKey(k) == Purge(k) /\ source' = Without(source, {k})

\* An error of the delete is ignored.
PurgeFails(k) == Purge(k) /\ source' \in Unchanged

Swept ==
  /\ sweeper = "purge"
  /\ DOMAIN pending = {}
  /\ Sweep("sleep", EmptyMap)
  /\ UNCHANGED due

-----------------------------------------------------------------------------
Tick ==
  /\ now < MaxTime
  /\ now' = now + 1
  /\ UNCHANGED <<source, version, clientVars, sweepVars, dropped>>

\* The owner drops the storage; no operation borrows it any more.
Drop ==
  /\ ~dropped
  /\ \A c \in Clients : pc[c] = "idle"
  /\ dropped' = TRUE
  /\ UNCHANGED <<source, now, version, clientVars, sweepVars>>

\* The storage and its task are gone.
Gone == sweeper = "stopped" /\ UNCHANGED vars

Sweeper ==
  \/ Snapshot \/ SnapshotFails \/ Exit \/ Filter \/ Swept
  \/ \E k \in Keys : PurgeKey(k) \/ PurgeFails(k)

Finish(c) == ReturnLive(c) \/ Evict(c) \/ WriteExpiring(c) \/ ReturnEntries(c)

Start(c) ==
  \/ \E k \in Keys : get(c, k) \/ set(c, k) \/ delete(c, k)
  \/ \E k \in Keys, d \in 1..MaxTime : set_expiring(c, k, d)
  \/ \E d \in 1..MaxTime : RejectExpired(c, d)
  \/ entries(c)

Next == (\E c \in Clients : Start(c) \/ Finish(c)) \/ Sweeper \/ Tick \/ Drop \/ Gone

\* Time passes, and the runtime polls the background task and every
\* operation that has begun.  No client has to begin one.  A source that can
\* fail does not fail whenever it is asked, for ever.
Fairness ==
  /\ WF_vars(Tick)
  /\ WF_vars(Sweeper)
  /\ SF_vars(Snapshot) /\ \A k \in Keys : SF_vars(PurgeKey(k))
  /\ \A c \in Clients : WF_vars(Finish(c))

Spec == Init /\ [][Next]_vars /\ Fairness

-----------------------------------------------------------------------------
TypeOK ==
  /\ source \in Maps
  /\ now \in 0..MaxTime
  /\ version \in 0..MaxWrites
  /\ pc \in [Clients -> {"idle", "got", "checked", "listed"}]
  /\ key \in [Clients -> {None} \cup Keys]
  /\ held \in [Clients -> SUBSET Wrapper]
  /\ ret \in [Clients -> SUBSET Wrapper]
  /\ sweeper \in {"sleep", "filter", "purge", "stopped"}
  /\ due \in Nat
  /\ pending \in Maps
  /\ dropped \in BOOLEAN

(***************************************************************************)
(* get and entries never return a value at or past its deadline, to the    *)
(* tick, although deadlines are stored in whole seconds; and what they     *)
(* withhold as expired would have expired within a second.                 *)
(***************************************************************************)
ExpiryIsTight ==
  [][\A c \in Clients :
       pc[c] \in {"got", "listed"} /\ pc'[c] = "idle" =>
         /\ \A w \in ret'[c] : w.deadline # Never => now < w.deadline
         /\ \A w \in held[c] \ ret'[c] :
              w.deadline # Never /\ w.deadline < now + TicksPerSecond]_vars

(***************************************************************************)
(* An entry that has not expired leaves the store only by delete, or in a  *)
(* race: by an eviction or a sweep that saw another value at its key, one  *)
(* that had expired.  Without a write between the look and the delete,     *)
(* nothing is lost before its time.                                        *)
(***************************************************************************)
UnexpiredLostOnlyInRace ==
  [][\A k \in DOMAIN source \ DOMAIN source' :
       \/ is_expired(source[k])
       \/ \E c \in Clients : delete(c, k)
       \/ \E c \in Clients : pc[c] = "got" /\ pc'[c] = "idle" /\ key[c] = k
                               /\ source[k] \notin held[c]
       \/ /\ k \in DOMAIN pending \ DOMAIN pending'
          /\ pending[k] # source[k]]_vars

(***************************************************************************)
(* What the documentation of WrappedExpiringStorage says of its task: it   *)
(* deletes those entries whose time to live has elapsed.                   *)
(***************************************************************************)
SweepDeletesOnlyElapsed ==
  [][\A k \in (DOMAIN pending \ DOMAIN pending') \cap (DOMAIN source \ DOMAIN source') :
       is_expired(source[k])]_vars

(***************************************************************************)
(* An entry nobody ever reads again does not outlive its deadline forever: *)
(* the background task removes it (or the storage is dropped).             *)
(***************************************************************************)
ExpiredIsSwept ==
  \A k \in Keys : \A v \in 1..MaxWrites :
    LET Lingers == /\ k \in DOMAIN source /\ ~dropped
                   /\ source[k].payload = v /\ is_expired(source[k])
    IN  Lingers ~> ~Lingers

\* The background task does not outlive the storage.
DropEndsSweeper == dropped ~> sweeper = "stopped"
=============================================================================

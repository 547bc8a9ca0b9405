------------------------ MODULE ExpiringStorageProofs ------------------------
(***************************************************************************)
(* Theorems about ExpiringStorage, for any clients, keys, intervals and    *)
(* resolution of the clock.                                                *)
(***************************************************************************)
EXTENDS ExpiringStorage, TLAPS

-----------------------------------------------------------------------------
\* Maps.

LEMMA MapsAre ==
  ASSUME NEW m
  PROVE  m \in Maps <=> DOMAIN m \subseteq Keys /\ m \in [DOMAIN m -> Wrapper]
BY DEF Maps

LEMMA EmptyIsMap == EmptyMap \in Maps
BY MapsAre DEF EmptyMap

LEMMA WithIsMap ==
  ASSUME NEW m \in Maps, NEW k \in Keys, NEW w \in Wrapper
  PROVE  With(m, k, w) \in Maps
<1>1. DOMAIN m \subseteq Keys /\ m \in [DOMAIN m -> Wrapper]
  BY MapsAre
<1>2. DOMAIN With(m, k, w) = DOMAIN m \cup {k}
  BY DEF With
<1>3. With(m, k, w) \in [DOMAIN m \cup {k} -> Wrapper]
  BY <1>1 DEF With
<1>4. QED
  BY <1>1, <1>2, <1>3, MapsAre

LEMMA WithoutIsMap ==
  ASSUME NEW m \in Maps, NEW ks
  PROVE  Without(m, ks) \in Maps
<1>1. DOMAIN m \subseteq Keys /\ m \in [DOMAIN m -> Wrapper]
  BY MapsAre
<1>2. DOMAIN Without(m, ks) = DOMAIN m \ ks
  BY DEF Without
<1>3. Without(m, ks) \in [DOMAIN m \ ks -> Wrapper]
  BY <1>1 DEF Without
<1>4. QED
  BY <1>1, <1>2, <1>3, MapsAre

LEMMA MapValues ==
  ASSUME NEW m \in Maps, NEW k \in DOMAIN m
  PROVE  k \in Keys /\ m[k] \in Wrapper
BY MapsAre

-----------------------------------------------------------------------------
\* Types.

\* A client in the middle of get or set_expiring works on a key.
TypeInv ==
  /\ TypeOK
  /\ \A c \in Clients : pc[c] \in {"got", "checked"} => key[c] \in Keys

LEMMA TypeInit == Init => TypeInv
<1> SUFFICES ASSUME Init PROVE TypeInv
  OBVIOUS
<1>1. source \in Maps /\ pending \in Maps
  BY EmptyIsMap DEF Init
<1>2. now \in 0..MaxTime /\ version \in 0..MaxWrites /\ due \in Nat
  BY TimeAssumption DEF Init
<1>3. QED
  BY <1>1, <1>2 DEF Init, TypeInv, TypeOK

LEMMA TypeStep == TypeInv /\ [Next]_vars => TypeInv'
<1> SUFFICES ASSUME TypeInv, [Next]_vars PROVE TypeInv'
  OBVIOUS
<1> USE DEF TypeInv, TypeOK, clientVars, sweepVars, Suspend, Return, Ready
<1>1. ASSUME NEW c \in Clients, NEW k \in Keys, get(c, k) PROVE TypeInv'
  <2>1. CASE k \in DOMAIN source
    <3>1. source[k] \in Wrapper
      BY <2>1, MapValues
    <3>2. QED
      BY <1>1, <2>1, <3>1 DEF get
  <2>2. CASE k \notin DOMAIN source
    BY <1>1, <2>2 DEF get
  <2>3. QED
    BY <2>1, <2>2
<1>2. ASSUME NEW c \in Clients, ReturnLive(c) PROVE TypeInv'
  BY <1>2 DEF ReturnLive
<1>3. ASSUME NEW c \in Clients, Evict(c) PROVE TypeInv'
  <2>1. source' \in Maps
    BY <1>3, WithoutIsMap DEF Evict, Unchanged
  <2>2. QED
    BY <1>3, <2>1 DEF Evict
<1>4. ASSUME NEW c \in Clients, NEW k \in Keys, set(c, k) PROVE TypeInv'
  <2>1. version' \in 1..MaxWrites /\ version' \in 0..MaxWrites
    BY <1>4, TimeAssumption DEF set, NewValue
  <2>2. Wrap(version', Never) \in Wrapper
    BY <2>1 DEF Wrapper, Deadline
  <2>3. source' \in Maps
    BY <1>4, <2>2, WithIsMap DEF set
  <2>4. QED
    BY <1>4, <2>1, <2>3 DEF set
<1>5. ASSUME NEW c \in Clients, NEW d \in 1..MaxTime, RejectExpired(c, d)
      PROVE  TypeInv'
  BY <1>5 DEF RejectExpired
<1>6. ASSUME NEW c \in Clients, NEW k \in Keys, NEW d \in 1..MaxTime,
             set_expiring(c, k, d)
      PROVE  TypeInv'
  <2>1. version' \in 1..MaxWrites /\ version' \in 0..MaxWrites
    BY <1>6, TimeAssumption DEF set_expiring, NewValue
  <2>2. Wrap(version', d) \in Wrapper
    BY <2>1 DEF Wrapper, Deadline
  <2>3. QED
    BY <1>6, <2>1, <2>2 DEF set_expiring
<1>7. ASSUME NEW c \in Clients, WriteExpiring(c) PROVE TypeInv'
  <2>1. source' \in Maps
    BY <1>7, WithIsMap DEF WriteExpiring
  <2>2. QED
    BY <1>7, <2>1 DEF WriteExpiring
<1>8. ASSUME NEW c \in Clients, NEW k \in Keys, delete(c, k) PROVE TypeInv'
  <2>1. source' \in Maps
    BY <1>8, WithoutIsMap DEF delete
  <2>2. QED
    BY <1>8, <2>1 DEF delete
<1>9. ASSUME NEW c \in Clients, entries(c) PROVE TypeInv'
  <2>1. {source[k] : k \in DOMAIN source} \in SUBSET Wrapper
    BY MapValues
  <2>2. QED
    BY <1>9, <2>1 DEF entries
<1>10. ASSUME NEW c \in Clients, ReturnEntries(c) PROVE TypeInv'
  BY <1>10 DEF ReturnEntries
<1>11. ASSUME Snapshot \/ SnapshotFails \/ Exit PROVE TypeInv'
  BY <1>11, EmptyIsMap, TimeAssumption
  DEF Snapshot, SnapshotFails, Exit, Fires, Sweep
<1>12. ASSUME Filter \/ Swept PROVE TypeInv'
  BY <1>12, EmptyIsMap, WithoutIsMap DEF Filter, Swept, Sweep
<1>13. ASSUME NEW k \in Keys, PurgeKey(k) \/ PurgeFails(k) PROVE TypeInv'
  <2>1. source' \in Maps /\ pending' \in Maps
    BY <1>13, WithoutIsMap DEF PurgeKey, PurgeFails, Purge, Unchanged
  <2>2. QED
    BY <1>13, <2>1 DEF PurgeKey, PurgeFails, Purge
<1>14. ASSUME Tick PROVE TypeInv'
  BY <1>14, TimeAssumption DEF Tick
<1>15. ASSUME Drop \/ Gone \/ UNCHANGED vars PROVE TypeInv'
  BY <1>15 DEF Drop, Gone, vars
<1>16. QED
  BY <1>1, <1>2, <1>3, <1>4, <1>5, <1>6, <1>7, <1>8, <1>9, <1>10, <1>11, <1>12,
     <1>13, <1>14, <1>15
  DEF Next, Start, Finish, Sweeper

(***************************************************************************)
(* The type invariant: whatever the clients, the clock and the background  *)
(* task do, the storage holds wrappers, each with its expiry.              *)
(***************************************************************************)
THEOREM StorageTyped == Spec => []TypeOK
<1>1. TypeInv => TypeOK
  BY DEF TypeInv
<1>2. QED
  BY <1>1, TypeInit, TypeStep, PTL DEF Spec

-----------------------------------------------------------------------------
\* Whole seconds.

\* What dividing by the ticks of a second does to the order of two times.
LEMMA SecondsOrdered ==
  ASSUME NEW m \in Nat, NEW n \in Nat
  PROVE  /\ m \div TicksPerSecond < n \div TicksPerSecond => m < n
         /\ m \div TicksPerSecond >= n \div TicksPerSecond
              => n < m + TicksPerSecond
         /\ m <= n => m \div TicksPerSecond <= n \div TicksPerSecond
<1>1. SUFFICES ASSUME NEW T \in Nat \ {0}
               PROVE  /\ m \div T < n \div T => m < n
                      /\ m \div T >= n \div T => n < m + T
                      /\ m <= n => m \div T <= n \div T
  BY TimeAssumption
<1>2. m \div T >= n \div T => n < m + T
  BY SMT
<1>3. m <= n => m \div T <= n \div T
  BY SMT
<1>4. n <= m => n \div T <= m \div T
  BY SMT
<1>5. m \div T \in Nat /\ n \div T \in Nat
  BY SMT
<1>6. QED
  BY <1>2, <1>3, <1>4, <1>5

\* The deadline of a wrapper that has not expired is still to come; that of
\* one that has is less than a second away.
LEMMA Tight ==
  ASSUME TypeInv, NEW w \in Wrapper
  PROVE  /\ ~is_expired(w) => w.deadline = Never \/ now < w.deadline
         /\ is_expired(w) =>
              w.deadline # Never /\ w.deadline < now + TicksPerSecond
<1>1. PICK v \in 1..MaxWrites, d \in Deadline : w = Wrap(v, d)
  BY DEF Wrapper
<1>2. CASE d = Never
  BY <1>1, <1>2 DEF Wrap, is_expired
<1>3. CASE d # Never
  <2>1. d \in Nat /\ now \in Nat
    BY <1>3, TimeAssumption DEF Deadline, TypeInv, TypeOK
  <2>2. d \div TicksPerSecond \in Nat
    BY <2>1, TimeAssumption
  <2>3. w.expires = d \div TicksPerSecond /\ w.deadline = d /\ w.expires # Never
    BY <1>1, <1>3, <2>2, TimeAssumption DEF Wrap
  <2>4. is_expired(w) <=> now \div TicksPerSecond >= d \div TicksPerSecond
    BY <2>3 DEF is_expired
  <2>5. now \div TicksPerSecond \in Nat
    BY <2>1, TimeAssumption
  <2>6. QED
    BY <1>3, <2>1, <2>2, <2>3, <2>4, <2>5, SecondsOrdered
<1>4. QED
  BY <1>2, <1>3

(***************************************************************************)
(* For every resolution of the clock: get and entries return nothing at or *)
(* past its deadline, and withhold nothing more than a second early.       *)
(***************************************************************************)
THEOREM ExpiryTight == Spec => ExpiryIsTight
<1> DEFINE TightFor(c) ==
      pc[c] \in {"got", "listed"} /\ pc'[c] = "idle" =>
        /\ \A w \in ret'[c] : w.deadline # Never => now < w.deadline
        /\ \A w \in held[c] \ ret'[c] :
             w.deadline # Never /\ w.deadline < now + TicksPerSecond
<1>1. ASSUME TypeInv, [Next]_vars, NEW c \in Clients PROVE TightFor(c)
  <2> SUFFICES ASSUME pc[c] \in {"got", "listed"}, pc'[c] = "idle"
               PROVE  TightFor(c)
    OBVIOUS
  <2>1. PICK d \in Clients : Start(d) \/ Finish(d)
    BY <1>1
    DEF Next, Sweeper, Snapshot, SnapshotFails, Exit, Filter, Swept, PurgeKey,
        PurgeFails, Purge, Sweep, Tick, Drop, Gone, clientVars, vars
  <2>2. d = c
    BY <1>1, <2>1
    DEF Start, Finish, get, set, delete, set_expiring, RejectExpired, entries,
        ReturnLive, Evict, WriteExpiring, ReturnEntries, Suspend, Return,
        TypeInv, TypeOK
  <2>3. ReturnLive(c) \/ Evict(c) \/ ReturnEntries(c)
    BY <2>1, <2>2
    DEF Start, Finish, Ready, get, set, delete, set_expiring, RejectExpired,
        entries, WriteExpiring
  <2>4. held[c] \subseteq Wrapper
    BY <1>1 DEF TypeInv, TypeOK
  <2>5. CASE ReturnLive(c)
    BY <1>1, <2>4, <2>5, Tight DEF ReturnLive, Return, TypeInv, TypeOK
  <2>6. CASE Evict(c)
    BY <1>1, <2>4, <2>6, Tight DEF Evict, Return, TypeInv, TypeOK
  <2>7. CASE ReturnEntries(c)
    BY <1>1, <2>4, <2>7, Tight DEF ReturnEntries, Return, TypeInv, TypeOK
  <2>8. QED
    BY <2>3, <2>5, <2>6, <2>7
<1>2. TypeInv /\ [Next]_vars => [\A c \in Clients : TightFor(c)]_vars
  BY <1>1
<1>3. QED
  BY <1>2, TypeInit, TypeStep, PTL DEF Spec, ExpiryIsTight

-----------------------------------------------------------------------------
\* Races.

\* What the background task is about to delete had expired in its snapshot,
\* and the clock does not go back.
PendingExpired ==
  sweeper = "purge" => \A k \in DOMAIN pending : is_expired(pending[k])

\* What has expired stays so.
LEMMA ExpiredStays ==
  ASSUME TypeInv, [Next]_vars, NEW w \in Wrapper, is_expired(w)
  PROVE  is_expired(w)'
<1>1. PICK v \in 1..MaxWrites, d \in Deadline : w = Wrap(v, d)
  BY DEF Wrapper
<1>2. d # Never
  BY <1>1 DEF Wrap, is_expired
<1>3. d \in Nat
  BY <1>2, TimeAssumption DEF Deadline
<1>4. d \div TicksPerSecond \in Nat
  BY <1>3, TimeAssumption
<1>5. w.expires = d \div TicksPerSecond
  BY <1>1, <1>2 DEF Wrap
<1>6. now' = now \/ now' = now + 1
  BY DEF Next, Start, Finish, Sweeper, get, set, delete, set_expiring,
     RejectExpired, entries, ReturnLive, Evict, WriteExpiring, ReturnEntries,
     Snapshot, SnapshotFails, Exit, Filter, Swept, PurgeKey, PurgeFails, Purge,
     Sweep, Tick, Drop, Gone, vars
<1>7. now \in Nat /\ now' \in Nat /\ now <= now'
  BY <1>6, TimeAssumption DEF TypeInv, TypeOK
<1>8. now \div TicksPerSecond <= now' \div TicksPerSecond
  BY <1>7, SecondsOrdered
<1>9. \A n \in Nat : n \div TicksPerSecond \in Nat
  BY TimeAssumption
<1>10. QED
  BY <1>4, <1>5, <1>7, <1>8, <1>9 DEF is_expired

LEMMA PendingInit == Init => PendingExpired
BY DEF Init, PendingExpired

LEMMA PendingStep == TypeInv /\ PendingExpired /\ [Next]_vars => PendingExpired'
<1> SUFFICES ASSUME TypeInv, PendingExpired, [Next]_vars, sweeper' = "purge",
                    NEW k \in DOMAIN pending'
             PROVE  is_expired(pending[k])'
  BY DEF PendingExpired
<1>1. ASSUME k \in DOMAIN pending, pending'[k] = pending[k], is_expired(pending[k])
      PROVE  is_expired(pending[k])'
  <2>1. pending[k] \in Wrapper
    BY <1>1, MapValues DEF TypeInv, TypeOK
  <2>2. \A w \in Wrapper : is_expired(w) => is_expired(w)'
    BY ExpiredStays
  <2>3. QED
    BY <1>1, <2>1, <2>2 DEF is_expired
<1>2. CASE Filter
  BY <1>1, <1>2 DEF Filter, Sweep, Without
<1>3. CASE \E x \in Keys : PurgeKey(x) \/ PurgeFails(x)
  BY <1>1, <1>3 DEF PurgeKey, PurgeFails, Purge, Without, PendingExpired
<1>4. CASE UNCHANGED <<sweeper, pending>>
  BY <1>1, <1>4 DEF PendingExpired
<1>5. Filter \/ (\E x \in Keys : PurgeKey(x) \/ PurgeFails(x))
        \/ UNCHANGED <<sweeper, pending>>
  BY DEF Next, Start, Finish, Sweeper, get, set, delete, set_expiring,
     RejectExpired, entries, ReturnLive, Evict, WriteExpiring, ReturnEntries,
     Snapshot, SnapshotFails, Exit, Swept, Sweep, Tick, Drop, Gone, vars,
     sweepVars
<1>6. QED
  BY <1>2, <1>3, <1>4, <1>5

(***************************************************************************)
(* Nothing is lost before its time unless it was written in a race: after  *)
(* the look of an eviction or of a sweep, and before its delete.           *)
(***************************************************************************)
THEOREM LostOnlyInRace == Spec => UnexpiredLostOnlyInRace
<1> DEFINE Explained(k) ==
      \/ is_expired(source[k])
      \/ \E c \in Clients : delete(c, k)
      \/ \E c \in Clients : pc[c] = "got" /\ pc'[c] = "idle" /\ key[c] = k
                              /\ source[k] \notin held[c]
      \/ /\ k \in DOMAIN pending \ DOMAIN pending'
         /\ pending[k] # source[k]
<1>1. ASSUME TypeInv, PendingExpired, [Next]_vars,
             NEW k \in DOMAIN source \ DOMAIN source'
      PROVE  Explained(k)
  <2>1. ASSUME NEW c \in Clients, Evict(c) PROVE Explained(k)
    BY <1>1, <2>1 DEF Evict, Return, Without, Unchanged, TypeInv, TypeOK
  <2>2. ASSUME NEW c \in Clients, NEW x \in Keys, delete(c, x)
        PROVE  Explained(k)
    <3>1. x = k
      BY <1>1, <2>2 DEF delete, Without
    <3>2. QED
      BY <2>2, <3>1
  <2>3. ASSUME NEW x \in Keys, PurgeKey(x) PROVE Explained(k)
    BY <1>1, <2>3 DEF PurgeKey, Purge, Without, PendingExpired
  <2>4. \/ \E c \in Clients : Evict(c) \/ \E x \in Keys : delete(c, x)
        \/ \E x \in Keys : PurgeKey(x)
    BY <1>1
    DEF Next, Start, Finish, Sweeper, get, set, set_expiring, RejectExpired,
        entries, ReturnLive, WriteExpiring, ReturnEntries, With, Snapshot,
        SnapshotFails, Exit, Filter, Swept, PurgeFails, Unchanged, Sweep, Tick,
        Drop, Gone, vars
  <2>5. QED
    BY <2>1, <2>2, <2>3, <2>4
<1>2. TypeInv /\ PendingExpired /\ [Next]_vars
        => [\A k \in DOMAIN source \ DOMAIN source' : Explained(k)]_vars
  BY <1>1
<1>3. QED
  BY <1>2, TypeInit, TypeStep, PendingInit, PendingStep, PTL
  DEF Spec, UnexpiredLostOnlyInRace
=============================================================================

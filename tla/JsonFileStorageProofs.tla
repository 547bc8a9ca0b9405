------------------------ MODULE JsonFileStorageProofs ------------------------
(***************************************************************************)
(* Theorems about JsonFileStorage, for any tasks, keys, values and faults. *)
(***************************************************************************)
EXTENDS JsonFileStorage, TLAPS

-----------------------------------------------------------------------------
\* Maps.

LEMMA MapsAre ==
  ASSUME NEW m
  PROVE  m \in Maps <=> DOMAIN m \subseteq Keys /\ m \in [DOMAIN m -> Values]
BY DEF Maps

LEMMA EmptyIsMap == EmptyMap \in Maps
BY MapsAre DEF EmptyMap

LEMMA ReadIsMap ==
  ASSUME TypeOK
  PROVE  read_map \in Maps
BY EmptyIsMap DEF read_map, TypeOK

\* What set and delete make of a map is one.
LEMMA EditedIsMap ==
  ASSUME NEW m \in Maps
  PROVE  /\ \A k \in Keys, v \in Values :
              [x \in DOMAIN m \cup {k} |-> IF x = k THEN v ELSE m[x]] \in Maps
         /\ \A ks : Restriction(m, ks) \in Maps
<1>1. DOMAIN m \subseteq Keys /\ m \in [DOMAIN m -> Values]
  BY MapsAre
<1>2. ASSUME NEW k \in Keys, NEW v \in Values
      PROVE  [x \in DOMAIN m \cup {k} |-> IF x = k THEN v ELSE m[x]] \in Maps
  <2> DEFINE e == [x \in DOMAIN m \cup {k} |-> IF x = k THEN v ELSE m[x]]
  <2>1. DOMAIN e = DOMAIN m \cup {k} /\ e \in [DOMAIN m \cup {k} -> Values]
    BY <1>1
  <2> HIDE DEF e
  <2>2. e \in Maps
    BY <1>1, <2>1, MapsAre
  <2>3. QED
    BY <2>2 DEF e
<1>3. ASSUME NEW ks PROVE Restriction(m, ks) \in Maps
  <2>1. DOMAIN Restriction(m, ks) = DOMAIN m \cap ks
    BY DEF Restriction
  <2>2. Restriction(m, ks) \in [DOMAIN m \cap ks -> Values]
    BY <1>1 DEF Restriction
  <2>3. QED
    BY <1>1, <2>1, <2>2, MapsAre
<1>4. QED
  BY <1>2, <1>3

-----------------------------------------------------------------------------
\* Types.

\* What a task that is under way has.
TypeInv ==
  /\ TypeOK
  /\ \A c \in Clients :
       /\ pc[c] # "idle" <=> op[c] # None
       /\ pc[c] \in {"writing", "truncated"} => map[c] \in Maps /\ Writes(c)

\* The operation of a task under way, and what its kind says of it.
LEMMA Operations ==
  ASSUME TypeInv, NEW c \in Clients, pc[c] # "idle"
  PROVE  /\ op[c] \in Operation
         /\ op[c].name \in {"get", "delete", "entries", "set"}
         /\ op[c].name \in {"get", "delete", "set"} => op[c].key \in Keys
         /\ op[c].name = "set" => op[c].value \in Values
<1>1. op[c] \in Operation
  BY DEF TypeInv, TypeOK
<1>2. QED
  BY <1>1 DEF Operation

LEMMA TypeInit == Init => TypeInv
BY DEF Init, TypeInv, TypeOK

LEMMA TypeStep == TypeInv /\ [Next]_vars => TypeInv'
<1> SUFFICES ASSUME TypeInv, [Next]_vars PROVE TypeInv'
  OBVIOUS
<1> USE SentinelAssumption DEF TypeInv, TypeOK, Leave, Return, Writes, history
<1>1. ASSUME NEW c \in Clients, Call(c) PROVE TypeInv'
  BY <1>1 DEF Call
<1>2. ASSUME NEW c \in Clients, Acquire(c) PROVE TypeInv'
  BY <1>2 DEF Acquire
<1>3. ASSUME NEW c \in Clients, ReadFails(c) \/ Look(c) PROVE TypeInv'
  <2>1. UNCHANGED <<file, struck>> /\ Leave(c) /\ pc[c] = "holding"
    <3>1. CASE ReadFails(c)
      BY <3>1 DEF ReadFails
    <3>2. CASE Look(c)
      BY <3>2, Operations DEF Look
    <3>3. QED
      BY <1>3, <3>1, <3>2
  <2>2. QED
    BY <2>1
<1>4. ASSUME NEW c \in Clients, set(c) PROVE TypeInv'
  <2>1. pc[c] = "holding" /\ op[c].key \in Keys /\ op[c].value \in Values
    BY <1>4, Operations DEF set, Edit
  <2> DEFINE m == [k \in DOMAIN read_map \cup {op[c].key} |->
                     IF k = op[c].key THEN op[c].value ELSE read_map[k]]
  <2>2. \A k \in Keys, v \in Values :
          [x \in DOMAIN read_map \cup {k} |-> IF x = k THEN v ELSE read_map[x]] \in Maps
    BY ONLY TypeInv, ReadIsMap, EditedIsMap DEF TypeInv
  <2>3. m \in Maps
    BY ONLY <2>1, <2>2
  <2>4. Edit(c, m) /\ op[c].name = "set"
    BY <1>4 DEF set
  <2> HIDE DEF m
  <2>5. QED
    BY <2>3, <2>4 DEF Edit
<1>5. ASSUME NEW c \in Clients, delete(c) PROVE TypeInv'
  <2>1. PICK m \in Maps : Edit(c, m)
    BY <1>5, ReadIsMap, EditedIsMap DEF delete
  <2>2. op[c].name = "delete"
    BY <1>5 DEF delete
  <2>3. QED
    BY <2>1, <2>2 DEF Edit
<1>6. ASSUME NEW c \in Clients, OpenFails(c) PROVE TypeInv'
  BY <1>6 DEF OpenFails
<1>7. ASSUME NEW c \in Clients, Truncate(c) PROVE TypeInv'
  BY <1>7 DEF Truncate
<1>8. ASSUME NEW c \in Clients, Fill(c) \/ FillFails(c) PROVE TypeInv'
  <2>1. file' \in {Absent, Blank, Garbled} \cup Maps
    BY <1>8 DEF Fill, FillFails
  <2>2. Leave(c) /\ pc[c] = "truncated" /\ struck' \subseteq {"crash", "disk"}
    BY <1>8 DEF Fill, FillFails
  <2>3. QED
    BY <2>1, <2>2
<1>9. ASSUME NEW c \in Clients, Cancel(c) \/ Abandon(c) PROVE TypeInv'
  BY <1>9 DEF Cancel, Abandon
<1>10. ASSUME Crash PROVE TypeInv'
  BY <1>10 DEF Crash
<1>11. CASE UNCHANGED vars
  BY <1>11 DEF vars, history
<1>12. QED
  BY <1>1, <1>2, <1>3, <1>4, <1>5, <1>6, <1>7, <1>8, <1>9, <1>10, <1>11
  DEF Next, Step, Write

(***************************************************************************)
(* The type invariant: the file is absent, blank, garbled or a map, and    *)
(* whoever holds the lock is in the middle of an operation.                *)
(***************************************************************************)
THEOREM FileTyped == Spec => []TypeOK
<1>1. TypeInv => TypeOK
  BY DEF TypeInv
<1>2. QED
  BY <1>1, TypeInit, TypeStep, PTL DEF Spec

-----------------------------------------------------------------------------
\* The storage implements KeyValueStorage.

\* The lock does its work until a write outlives its operation: who works on
\* the file holds the lock, a writer alone; and what it is about to write is
\* what it has read, edited.
Working(c) == pc[c] \in {"holding", "writing", "truncated"}

LockInv ==
  /\ \A c \in Clients : Working(c) => c \in lock
  /\ \A c, d \in Clients : Working(c) /\ Working(d) /\ Writes(c) => c = d

WriteInv ==
  \A c \in Clients :
    /\ pc[c] = "writing" => /\ Readable
                            /\ map[c] = Abstract!Apply(read_map, op[c])
                            /\ op[c].name = "delete" => op[c].key \in DOMAIN read_map
    /\ pc[c] = "truncated" => file = Blank

Sound == abandoned \/ (LockInv /\ WriteInv)

LEMMA SoundInit == Init => Sound
BY DEF Init, Sound, LockInv, WriteInv, Working

\* Whoever holds the lock to write works alone.
LEMMA WriterAlone ==
  ASSUME TypeInv, LockInv, NEW c \in Clients, Working(c), Writes(c),
         NEW d \in Clients, d # c
  PROVE  ~Working(d)
BY DEF LockInv

LEMMA EditIsApply ==
  ASSUME TypeInv, NEW c \in Clients, pc[c] = "holding"
  PROVE  /\ op[c].name = "set" =>
              Abstract!Apply(read_map, op[c]) =
                [k \in DOMAIN read_map \cup {op[c].key} |->
                   IF k = op[c].key THEN op[c].value ELSE read_map[k]]
         /\ op[c].name = "delete" =>
              Abstract!Apply(read_map, op[c]) =
                Restriction(read_map, Keys \ {op[c].key})
BY DEF Abstract!Apply, Abstract!Restriction, Restriction

\* What everybody but c keeps in a step of c.
LEMMA OthersStand ==
  ASSUME TypeInv, NEW c \in Clients,
         Call(c) \/ Acquire(c) \/ Step(c) \/ Cancel(c) \/ Abandon(c),
         NEW d \in Clients, d # c
  PROVE  /\ pc'[d] = pc[d] /\ op'[d] = op[d] /\ map'[d] = map[d]
         /\ d \in lock' <=> d \in lock
<1> USE DEF TypeInv, TypeOK, Leave, Return
<1>1. CASE Call(c) \/ Acquire(c) \/ Cancel(c) \/ Abandon(c)
  BY <1>1 DEF Call, Acquire, Cancel, Abandon
<1>2. CASE set(c) \/ delete(c)
  BY <1>2 DEF set, delete, Edit
<1>3. CASE Write(c)
  BY <1>3 DEF Write, OpenFails, Truncate, Fill, FillFails
<1>4. CASE ReadFails(c) \/ Look(c)
  <2>1. Leave(c)
    BY <1>4, Operations DEF ReadFails, Look
  <2>2. QED
    BY <2>1
<1>5. QED
  BY <1>1, <1>2, <1>3, <1>4 DEF Step

LEMMA SoundStep == TypeInv /\ Sound /\ [Next]_vars => Sound'
<1> SUFFICES ASSUME TypeInv, Sound, [Next]_vars, ~abandoned'
             PROVE  (LockInv /\ WriteInv)'
  BY DEF Sound
<1>1. CASE UNCHANGED vars
  BY <1>1 DEF vars, history, Sound, LockInv, WriteInv, Working, Writes, Readable, read_map
<1>2. CASE Crash
  BY <1>2 DEF Crash, LockInv, WriteInv, Working
<1>3. ASSUME NEW c \in Clients,
             Call(c) \/ Acquire(c) \/ Step(c) \/ Cancel(c) \/ Abandon(c)
      PROVE  (LockInv /\ WriteInv)'
  <2> USE DEF TypeInv, TypeOK, Leave, Return, Working, Writes, history
  <2>1. ~Abandon(c)
    BY DEF Abandon
  <2>2. UNCHANGED abandoned
    <3>1. CASE Look(c)
      BY <3>1, Operations DEF Look
    <3>2. QED
      BY <1>3, <2>1, <3>1
      DEF Call, Acquire, Cancel, Step, ReadFails, set, delete, Edit, Write,
          OpenFails, Truncate, Fill, FillFails
  <2>3. LockInv /\ WriteInv
    BY <2>2 DEF Sound
  <2>4. \A d \in Clients : d # c =>
          /\ pc'[d] = pc[d] /\ op'[d] = op[d] /\ map'[d] = map[d]
          /\ d \in lock' <=> d \in lock
    BY <1>3, OthersStand
  <2>5. ASSUME UNCHANGED file, ~Working(c)' PROVE (LockInv /\ WriteInv)'
    BY <2>3, <2>4, <2>5 DEF LockInv, WriteInv, Readable, read_map
  <2>6. CASE Call(c) \/ Cancel(c)
    BY <2>5, <2>6 DEF Call, Cancel
  <2>7. CASE ReadFails(c) \/ Look(c) \/ OpenFails(c)
    <3>1. UNCHANGED file /\ Leave(c)
      BY <2>7, Operations DEF ReadFails, Look, OpenFails
    <3>2. QED
      BY <2>5, <3>1
  <2>8. CASE Acquire(c)
    <3>1. /\ pc[c] = "waiting" /\ UNCHANGED <<file, op, map>>
          /\ lock' = lock \cup {c} /\ pc' = [pc EXCEPT ![c] = "holding"]
          /\ IF Writes(c) THEN lock = {} ELSE \A d \in lock : ~Writes(d)
      BY <2>8 DEF Acquire, LockFree
    <3>2. LockInv'
      BY <2>3, <3>1 DEF LockInv
    <3>3. WriteInv'
      BY <2>3, <3>1 DEF WriteInv, Readable, read_map
    <3>4. QED
      BY <3>2, <3>3
  <2>9. CASE set(c) \/ delete(c)
    <3>1. /\ pc[c] = "holding" /\ Readable /\ UNCHANGED <<file, lock, op>>
          /\ pc' = [pc EXCEPT ![c] = "writing"]
      BY <2>9 DEF set, delete, Edit
    <3>2. map'[c] = Abstract!Apply(read_map, op[c])
      BY <2>9, <3>1, EditIsApply DEF set, delete, Edit
    <3>3. op[c].name = "delete" => op[c].key \in DOMAIN read_map
      BY <2>9 DEF set, delete
    <3>4. LockInv'
      BY <2>3, <3>1 DEF LockInv
    <3>5. WriteInv'
      BY <2>3, <2>4, <3>1, <3>2, <3>3 DEF WriteInv, Readable, read_map
    <3>6. QED
      BY <3>4, <3>5
  <2>10. ASSUME Working(c), Writes(c) PROVE \A d \in Clients : d # c => ~Working(d)
    BY <2>3, <2>10, WriterAlone
  <2>11. CASE Truncate(c)
    <3>1. /\ pc[c] = "writing" /\ UNCHANGED <<lock, op>> /\ file' = Blank
          /\ pc' = [pc EXCEPT ![c] = "truncated"]
      BY <2>11 DEF Truncate
    <3>2. QED
      BY <2>3, <2>4, <2>10, <3>1 DEF LockInv, WriteInv
  <2>12. CASE Fill(c) \/ FillFails(c)
    <3>1. pc[c] = "truncated" /\ Leave(c)
      BY <2>12 DEF Fill, FillFails
    <3>2. \A d \in Clients : ~Working(d)'
      BY <2>4, <2>10, <3>1
    <3>3. QED
      BY <3>2 DEF LockInv, WriteInv
  <2>13. QED
    BY <1>3, <2>1, <2>6, <2>7, <2>8, <2>9, <2>11, <2>12 DEF Step, Write
<1>4. QED
  BY <1>1, <1>2, <1>3 DEF Next

\* What the map and the tasks of KeyValueStorage stand for.
Content ==
  IF Truncating # {} THEN map[CHOOSE c \in Truncating : TRUE]
  ELSE IF file \in {Blank, Garbled} THEN Garbled ELSE read_map

Task ==
  [c \in Clients |->
     IF pc[c] = "truncated" THEN [taken |-> WriteResult(c)] ELSE op[c]]

\* An operation that has taken effect is none that has not.
LEMMA TakenIsTaken ==
  ASSUME TypeInv, NEW c \in Clients, pc[c] = "truncated"
  PROVE  /\ Task[c] = [taken |-> WriteResult(c)]
         /\ Abstract!IsTaken(Task[c])
<1>1. Task[c] = [taken |-> WriteResult(c)]
  BY DEF Task
<1>2. op[c].name \in {"set", "delete"} /\ op[c].key \in Keys
  BY Operations DEF TypeInv, Writes
<1>3. WriteResult(c) \in {{}} \cup {{k} : k \in Keys}
  BY <1>2 DEF WriteResult
<1>4. Task[c] # None
  BY <1>1, <1>3, SentinelAssumption
<1>5. \A r : [taken |-> r] \notin Operation
  BY DEF Operation
<1>6. Abstract!Operation = Operation
  BY DEF Abstract!Operation, Operation
<1>7. QED
  BY <1>1, <1>4, <1>5, <1>6 DEF Abstract!IsTaken, Abstract!IsOperation

\* One that is called and has not taken effect is still to do.
LEMMA CalledIsOperation ==
  ASSUME TypeInv, NEW c \in Clients, pc[c] \notin {"idle", "truncated"}
  PROVE  Task[c] = op[c] /\ Abstract!IsOperation(Task[c]) /\ Task[c] # None
<1>1. Task[c] = op[c] /\ op[c] \in Operation
  BY Operations DEF Task
<1>2. QED
  BY <1>1, SentinelAssumption
  DEF Abstract!IsOperation, Abstract!Operation, Operation

\* A step of c turns no task but its own.
LEMMA TaskTurns ==
  ASSUME TypeInv, NEW c \in Clients,
         Call(c) \/ Acquire(c) \/ Step(c) \/ Cancel(c) \/ Abandon(c),
         NEW t, pc'[c] # "truncated", op'[c] = t
  PROVE  Task' = [Task EXCEPT ![c] = t]
<1>1. \A d \in Clients : d # c => pc'[d] = pc[d] /\ op'[d] = op[d]
  BY OthersStand
<1>2. QED
  BY <1>1 DEF Task, WriteResult

\* The map stands where neither the file nor a truncation changes.
LEMMA ContentStays ==
  ASSUME TypeInv, NEW c \in Clients,
         Call(c) \/ Acquire(c) \/ Step(c) \/ Cancel(c) \/ Abandon(c),
         pc[c] # "truncated", pc'[c] # "truncated", UNCHANGED file
  PROVE  Content' = Content
<1>1. \A d \in Clients : d # c => pc'[d] = pc[d] /\ map'[d] = map[d]
  BY OthersStand
<1>2. Truncating' = Truncating /\ c \notin Truncating
  BY <1>1 DEF Truncating
<1>3. CASE Truncating = {}
  BY <1>2, <1>3 DEF Content, read_map
<1>4. CASE Truncating # {}
  <2>1. PICK d : d = CHOOSE x \in Truncating : TRUE
    OBVIOUS
  <2>2. d \in Truncating
    BY <1>4, <2>1
  <2>3. map'[d] = map[d]
    BY <1>1, <1>2, <2>2 DEF Truncating
  <2>4. QED
    BY <1>2, <1>4, <2>1, <2>3 DEF Content
<1>5. QED
  BY <1>3, <1>4

\* What the map stands for while a task works on the file.
LEMMA ContentOfWorker ==
  ASSUME TypeInv, LockInv, NEW c \in Clients, Working(c)
  PROVE  /\ pc[c] = "truncated" => Truncating = {c} /\ Content = map[c]
         /\ pc[c] # "truncated" =>
              /\ Truncating = {}
              /\ Content = IF Readable THEN read_map ELSE Garbled
<1>1. \A d \in Truncating : d = c
  BY DEF Truncating, LockInv, Working, TypeInv
<1>2. CASE pc[c] = "truncated"
  <2>1. Truncating = {c}
    BY <1>1, <1>2 DEF Truncating
  <2>2. QED
    BY <1>2, <2>1 DEF Content
<1>3. CASE pc[c] # "truncated"
  <2>1. Truncating = {}
    BY <1>1, <1>3 DEF Truncating
  <2>2. QED
    BY <1>3, <2>1 DEF Content, Readable
<1>4. QED
  BY <1>2, <1>3

\* What a task that holds the lock and has its map finds.
LEMMA ReadableContent ==
  ASSUME TypeInv, LockInv, NEW c \in Clients,
         pc[c] \in {"holding", "writing"}, Readable
  PROVE  Content = read_map /\ Content # Garbled
<1>1. Content = read_map
  BY ContentOfWorker DEF Working
<1>2. QED
  BY <1>1, ReadIsMap, SentinelAssumption DEF TypeInv

LEMMA LookIsTake ==
  ASSUME TypeInv, LockInv, NEW c \in Clients, Look(c)
  PROVE  Abstract!Take(c)
<1> USE DEF TypeInv, TypeOK
<1>1. PICK res : /\ pc[c] = "holding" /\ Readable /\ UNCHANGED file
                 /\ Return(c, res)
                 /\ res = Abstract!Result(read_map, op[c])
                 /\ Abstract!Apply(read_map, op[c]) = read_map
  <2>1. pc[c] = "holding" /\ Readable /\ UNCHANGED file
    BY DEF Look
  <2>2. CASE op[c].name \in {"get", "entries"}
    BY <2>1, <2>2 DEF Look, Abstract!Result, Abstract!Apply, Abstract!Entries, Entries
  <2>3. CASE op[c].name \notin {"get", "entries"}
    <3>1. op[c].name = "delete" /\ op[c].key \notin DOMAIN read_map /\ Return(c, {})
      BY <2>3 DEF Look
    <3>2. PICK m : m = read_map
      OBVIOUS
    <3>3. DOMAIN m \subseteq Keys /\ m \in [DOMAIN m -> Values]
      BY <3>2, ReadIsMap, MapsAre
    <3>4. Restriction(m, Keys \ {op[c].key}) = m
      <4>1. DOMAIN m \cap (Keys \ {op[c].key}) = DOMAIN m
        BY <3>1, <3>2, <3>3
      <4>2. QED
        BY <3>3, <4>1 DEF Restriction
    <3>5. Abstract!Apply(read_map, op[c]) = read_map
      BY <2>1, <3>1, <3>2, <3>4, EditIsApply
    <3>6. Abstract!Result(read_map, op[c]) = {}
      BY <3>1 DEF Abstract!Result
    <3>7. QED
      BY <2>1, <3>1, <3>5, <3>6
  <2>4. QED
    BY <2>2, <2>3
<1>2. Step(c)
  BY DEF Step
<1>3. pc'[c] = "idle" /\ op'[c] = None /\ ret' = [ret EXCEPT ![c] = res]
  BY <1>1 DEF Return, Leave
<1>4. Content = read_map /\ Content # Garbled /\ Content' = Content
  BY <1>1, <1>2, <1>3, ReadableContent, ContentStays
<1>5. Task' = [Task EXCEPT ![c] = None]
  BY <1>2, <1>3, TaskTurns
<1>6. Abstract!IsOperation(Task[c]) /\ Task[c] = op[c]
  BY <1>1, CalledIsOperation
<1>7. QED
  BY <1>1, <1>3, <1>4, <1>5, <1>6
  DEF Abstract!Take, Abstract!Answer, Content, Task

LEMMA TruncateIsTake ==
  ASSUME TypeInv, LockInv, WriteInv, LockInv', TypeInv',
         NEW c \in Clients, Truncate(c)
  PROVE  Abstract!Take(c)
<1>1. /\ pc[c] = "writing" /\ Readable /\ Writes(c)
      /\ map[c] = Abstract!Apply(read_map, op[c])
      /\ op[c].name = "delete" => op[c].key \in DOMAIN read_map
  BY DEF Truncate, TypeInv, WriteInv
<1>2. pc'[c] = "truncated" /\ UNCHANGED <<op, map, ret>>
  BY DEF Truncate, TypeInv, TypeOK
<1>3. Content = read_map /\ Content # Garbled
  BY <1>1, ReadableContent
<1>4. Content' = map[c]
  BY <1>2, ContentOfWorker DEF Truncating, Content, LockInv, Working, TypeInv
<1>5. WriteResult(c) = Abstract!Result(read_map, op[c])
  BY <1>1 DEF WriteResult, Abstract!Result, Writes
<1>6. Task' = [Task EXCEPT ![c] = [taken |-> WriteResult(c)]]
  BY <1>2 DEF Truncate, Task, WriteResult, TypeInv, TypeOK
<1>7. Abstract!IsOperation(Task[c]) /\ Task[c] = op[c]
  BY <1>1, CalledIsOperation
<1>8. QED
  BY <1>1, <1>2, <1>3, <1>4, <1>5, <1>6, <1>7
  DEF Abstract!Take, Abstract!Taken, Content, Task

\* Once the file is written or given up, nobody is at work any more.
LEMMA WriteIsOver ==
  ASSUME TypeInv, LockInv, WriteInv, NEW c \in Clients, Fill(c) \/ FillFails(c)
  PROVE  /\ pc[c] = "truncated" /\ file = Blank /\ map[c] \in Maps
         /\ Content = map[c]
         /\ Truncating' = {}
         /\ Content' = IF file' \in {Blank, Garbled} THEN Garbled ELSE read_map'
<1>1. pc[c] = "truncated" /\ Leave(c)
  BY DEF Fill, FillFails, Return
<1>2. Truncating = {c} /\ Content = map[c]
  BY <1>1, ContentOfWorker DEF Working
<1>3. \A d \in Clients : d # c => pc'[d] = pc[d]
  BY OthersStand DEF Step, Write
<1>4. Truncating' = {}
  BY <1>1, <1>2, <1>3 DEF Truncating, Leave, TypeInv, TypeOK
<1>5. QED
  BY <1>1, <1>2, <1>4 DEF Content, WriteInv, TypeInv

LEMMA FillIsAnswer ==
  ASSUME TypeInv, LockInv, WriteInv, NEW c \in Clients, Fill(c)
  PROVE  Abstract!AnswerLater(c)
<1>1. /\ pc[c] = "truncated" /\ file = Blank /\ map[c] \in Maps
      /\ Content = map[c]
      /\ Content' = IF file' \in {Blank, Garbled} THEN Garbled ELSE read_map'
  BY WriteIsOver
<1>2. c \in lock
  BY <1>1 DEF LockInv, Working
<1>3. file' = map[c] /\ Return(c, WriteResult(c))
  BY <1>1, <1>2 DEF Fill
<1>4. Content' = Content
  BY <1>1, <1>3, SentinelAssumption DEF read_map
<1>5. pc'[c] = "idle" /\ op'[c] = None /\ ret' = [ret EXCEPT ![c] = WriteResult(c)]
  BY <1>3 DEF Return, Leave, TypeInv, TypeOK
<1>6. Task' = [Task EXCEPT ![c] = None]
  BY <1>5, TaskTurns DEF Step, Write
<1>7. QED
  BY <1>1, <1>4, <1>5, <1>6, TakenIsTaken
  DEF Abstract!AnswerLater, Abstract!Answer, Content, Task

\* An operation fails where the file does not parse or the disk is at fault.
LEMMA FailureIsFail ==
  ASSUME TypeInv, LockInv, WriteInv, NEW c \in Clients,
         ReadFails(c) \/ OpenFails(c) \/ FillFails(c)
  PROVE  Abstract!Fail(c)
<1> USE DEF TypeInv, TypeOK
<1>1. Step(c)
  BY DEF Step, Write
<1>2. /\ pc[c] \in {"holding", "writing", "truncated"}
      /\ Return(c, Error)
  BY DEF ReadFails, OpenFails, FillFails, LockInv, Working
<1>3. pc'[c] = "idle" /\ op'[c] = None /\ ret' = [ret EXCEPT ![c] = Error]
  BY <1>2 DEF Return, Leave
<1>4. Task' = [Task EXCEPT ![c] = None]
  BY <1>1, <1>3, TaskTurns
<1>5. Task[c] # None
  BY <1>2, CalledIsOperation, TakenIsTaken DEF Abstract!IsTaken
<1>6. CASE ReadFails(c)
  <2>1. Content = Garbled
    BY <1>2, <1>6, ContentOfWorker DEF ReadFails, Working
  <2>2. Content' = Content
    BY <1>1, <1>3, <1>6, ContentStays DEF ReadFails
  <2>3. QED
    BY <1>3, <1>4, <1>5, <2>1, <2>2
    DEF Abstract!Fail, Abstract!Answer, Content, Task
<1>7. CASE OpenFails(c)
  <2>1. Content' = Content /\ DiskMayFail
    BY <1>1, <1>3, <1>7, ContentStays DEF OpenFails
  <2>2. QED
    BY <1>3, <1>4, <1>5, <2>1
    DEF Abstract!Fail, Abstract!Answer, Content, Task
<1>8. CASE FillFails(c)
  <2>1. /\ pc[c] = "truncated" /\ file = Blank
        /\ Content' = IF file' \in {Blank, Garbled} THEN Garbled ELSE read_map'
    BY <1>8, WriteIsOver
  <2>2. Content' = Garbled /\ DiskMayFail
    BY <1>8, <2>1 DEF FillFails
  <2>3. Abstract!IsTaken(Task[c])
    BY <2>1, TakenIsTaken
  <2>4. QED
    BY <1>3, <1>4, <1>5, <2>2, <2>3
    DEF Abstract!Fail, Abstract!Answer, Content, Task
<1>9. QED
  BY <1>6, <1>7, <1>8

LEMMA CallIsCall ==
  ASSUME TypeInv, NEW c \in Clients, Call(c)
  PROVE  Abstract!Call(c)
<1> USE DEF TypeInv, TypeOK
<1>1. PICK o \in Operation : op' = [op EXCEPT ![c] = o]
  BY DEF Call
<1>2. /\ pc[c] = "idle" /\ pc'[c] = "waiting" /\ op'[c] = o /\ UNCHANGED file
      /\ ret' = [ret EXCEPT ![c] = None]
  BY <1>1 DEF Call
<1>3. Task[c] = None /\ Task' = [Task EXCEPT ![c] = o] /\ Content' = Content
  BY <1>2, TaskTurns, ContentStays DEF Task
<1>4. o \in Abstract!Operation
  BY DEF Abstract!Operation, Operation
<1>5. QED
  BY <1>2, <1>3, <1>4 DEF Abstract!Call, Content, Task

LEMMA CancelIsGiveUp ==
  ASSUME TypeInv, NEW c \in Clients, Cancel(c)
  PROVE  Abstract!GiveUp(c)
<1> USE DEF TypeInv, TypeOK
<1>1. /\ pc[c] \notin {"idle", "truncated"} /\ pc'[c] = "idle"
      /\ op'[c] = None /\ UNCHANGED <<file, ret>>
  BY DEF Cancel, Leave
<1>2. Task' = [Task EXCEPT ![c] = None] /\ Content' = Content
  BY <1>1, TaskTurns, ContentStays
<1>3. QED
  BY <1>1, <1>2, CalledIsOperation DEF Abstract!GiveUp, Content, Task

\* Waiting for the lock and editing what was read are nobody else's business.
LEMMA InnerStep ==
  ASSUME TypeInv, NEW c \in Clients, Acquire(c) \/ set(c) \/ delete(c)
  PROVE  UNCHANGED Abstract!vars
<1>1. /\ pc[c] \in {"waiting", "holding"} /\ pc'[c] \in {"holding", "writing"}
      /\ UNCHANGED <<file, op, ret>>
  BY DEF Acquire, set, delete, Edit, TypeInv, TypeOK
<1>2. Task' = [Task EXCEPT ![c] = op[c]]
  BY <1>1, TaskTurns DEF Step
<1>3. Task[c] = op[c]
  BY <1>1, CalledIsOperation
<1>4. Task' = Task
  BY <1>2, <1>3 DEF Task
<1>5. Content' = Content
  BY <1>1, ContentStays DEF Step
<1>6. QED
  BY <1>1, <1>4, <1>5 DEF Abstract!vars, Content, Task

LEMMA CrashIsStop ==
  ASSUME TypeInv, Sound, ~abandoned, Crash
  PROVE  Abstract!Stop
<1>1. LockInv /\ WriteInv /\ MayCrash
  BY DEF Sound, Crash
<1>2. Truncating' = {}
  BY DEF Crash, Truncating
<1>3. Content' = IF file' \in {Blank, Garbled} THEN Garbled ELSE read_map'
  BY <1>2 DEF Content
<1>4. Task' = [c \in Clients |-> None] /\ ret' = [c \in Clients |-> None]
  BY DEF Crash, Task
<1>5. CASE Truncating = {}
  <2>1. UNCHANGED file
    BY <1>5 DEF Crash, Truncating
  <2>2. Content' = Content
    BY <1>3, <1>5, <2>1 DEF Content, read_map
  <2>3. QED
    BY <1>1, <1>4, <2>2 DEF Abstract!Stop, Content, Task
<1>6. CASE Truncating # {}
  <2>1. PICK c \in Clients : pc[c] = "truncated"
    BY <1>6 DEF Truncating
  <2>2. Content' = Garbled /\ Abstract!IsTaken(Task[c])
    BY <1>1, <1>3, <2>1, TakenIsTaken DEF WriteInv, Crash
  <2>3. QED
    BY <1>1, <1>4, <2>2 DEF Abstract!Stop, Content, Task
<1>7. QED
  BY <1>5, <1>6

LEMMA StepsMap ==
  ASSUME TypeInv, TypeInv', Sound, Sound', [Next]_vars, ~abandoned'
  PROVE  Abstract!Next \/ UNCHANGED Abstract!vars
<1>1. ~abandoned
  <2>1. ASSUME NEW c \in Clients, Look(c) PROVE UNCHANGED abandoned
    BY <2>1, Operations DEF Look, Return, Leave
  <2>2. QED
    BY <2>1
    DEF Next, Crash, vars, history, Call, Acquire, Step, ReadFails, set, delete, Edit,
        Write, OpenFails, Truncate, Fill, FillFails, Cancel, Abandon, Return,
        Leave, TypeInv, TypeOK
<1>2. LockInv /\ WriteInv /\ LockInv'
  BY <1>1 DEF Sound
<1>3. CASE UNCHANGED vars
  BY <1>3 DEF vars, history, Abstract!vars, Truncating, WriteResult, read_map
<1>4. CASE Crash
  BY <1>1, <1>4, CrashIsStop DEF Abstract!Next
<1>5. ASSUME NEW c \in Clients,
             Call(c) \/ Acquire(c) \/ Step(c) \/ Cancel(c) \/ Abandon(c)
      PROVE  Abstract!Next \/ UNCHANGED Abstract!vars
  <2>1. ~Abandon(c)
    BY DEF Abandon
  <2>2. CASE Acquire(c) \/ set(c) \/ delete(c)
    BY <2>2, InnerStep
  <2>3. CASE Call(c)
    BY <2>3, CallIsCall DEF Abstract!Next
  <2>4. CASE Look(c) \/ Truncate(c)
    BY <1>2, <2>4, LookIsTake, TruncateIsTake DEF Abstract!Next
  <2>5. CASE Fill(c)
    BY <1>2, <2>5, FillIsAnswer DEF Abstract!Next
  <2>6. CASE ReadFails(c) \/ OpenFails(c) \/ FillFails(c)
    BY <1>2, <2>6, FailureIsFail DEF Abstract!Next
  <2>7. CASE Cancel(c)
    BY <2>7, CancelIsGiveUp DEF Abstract!Next
  <2>8. QED
    BY <1>5, <2>1, <2>2, <2>3, <2>4, <2>5, <2>6, <2>7 DEF Step, Write
<1>6. QED
  BY <1>3, <1>4, <1>5 DEF Next

LEMMA InitMaps == Init => Abstract!Init
<1> SUFFICES ASSUME Init PROVE Abstract!Init
  OBVIOUS
<1>1. Truncating = {}
  BY DEF Init, Truncating
<1>2. Content = [k \in {} |-> None]
  BY <1>1, SentinelAssumption DEF Init, Content, read_map, EmptyMap
<1>3. Task = [c \in Clients |-> None]
  BY DEF Init, Task
<1>4. QED
  BY <1>2, <1>3 DEF Init, Abstract!Init, Content, Task

(***************************************************************************)
(* The file implements what the trait promises: until a write outlives its *)
(* operation, every operation takes effect at one instant, under any       *)
(* interleaving of tasks, cancellations, failing writes and crashes.       *)
(***************************************************************************)
THEOREM FileIsKeyValueStorage == Spec => ImplementsKeyValueStorage
<1>1. TypeInv /\ TypeInv' /\ Sound /\ Sound' /\ [Next]_vars
        => (~abandoned' => Abstract!Next \/ UNCHANGED Abstract!vars)
  BY StepsMap
<1>2. TypeInv /\ TypeInv' /\ Sound /\ Sound' /\ [Next]_vars
        => [~abandoned' => Abstract!Next \/ UNCHANGED Abstract!vars]_vars
  BY <1>1
<1>3. QED
  BY <1>2, TypeInit, TypeStep, SoundInit, SoundStep, InitMaps, PTL
  DEF Spec, ImplementsKeyValueStorage

-----------------------------------------------------------------------------
\* What is said of the lock and of write_map, where it is true.

LEMMA NoneAbandoned ==
  ASSUME ~MayCancel
  PROVE  /\ Init => ~abandoned
         /\ TypeInv /\ ~abandoned /\ [Next]_vars => ~abandoned'
<1>1. Init => ~abandoned
  BY DEF Init
<1>2. ASSUME TypeInv, [Next]_vars PROVE UNCHANGED abandoned
  <2>1. ASSUME NEW c \in Clients, Look(c) PROVE UNCHANGED abandoned
    BY <2>1, Operations DEF Look, Return, Leave
  <2>2. ~MayCancel
    OBVIOUS
  <2>3. QED
    BY <1>2, <2>1, <2>2
    DEF Next, vars, history, Crash, Call, Acquire, Cancel, Abandon, Step, ReadFails, set,
        delete, Edit, Write, OpenFails, Truncate, Fill, FillFails, Return, Leave
<1>3. QED
  BY <1>1, <1>2

\* Only the two steps of a write touch the file, and a crash between them.
LEMMA WriterWrites ==
  ASSUME TypeInv, [Next]_vars, file' # file
  PROVE  \E c \in Clients :
           \/ Truncate(c) \/ Fill(c) \/ FillFails(c)
           \/ Crash /\ pc[c] = "truncated"
<1>1. ASSUME NEW c \in Clients, Look(c) PROVE FALSE
  BY <1>1, Operations DEF Look
<1>2. ~(UNCHANGED vars)
  BY DEF vars
<1>3. Crash => \E c \in Clients : pc[c] = "truncated"
  BY DEF Crash
<1>4. QED
  BY <1>1, <1>2, <1>3
  DEF Next, Call, Acquire, Cancel, Abandon, Step, ReadFails, set, delete, Edit,
      Write, OpenFails

(***************************************************************************)
(* Where no task drops the future of an operation, the RwLock does protect *)
(* the file: while a task holds it, only that task's own write changes the *)
(* file.                                                                   *)
(***************************************************************************)
THEOREM LockProtectsFile ==
  ASSUME ~MayCancel
  PROVE  Spec => FileStableUnderLock
<1>1. ASSUME TypeInv, Sound, ~abandoned, [Next]_vars, file' # file, NEW c \in lock
      PROVE  pc[c] \in {"writing", "truncated"} /\ pc'[c] # pc[c]
  <2>1. PICK d \in Clients : \/ Truncate(d) \/ Fill(d) \/ FillFails(d)
                             \/ Crash /\ pc[d] = "truncated"
    BY <1>1, WriterWrites
  <2>2. /\ pc[d] \in {"writing", "truncated"} /\ Writes(d)
        /\ pc'[d] \in {"truncated", "idle"} /\ pc'[d] # pc[d]
    BY <1>1, <2>1
    DEF TypeInv, TypeOK, Truncate, Fill, FillFails, Return, Leave, Crash
  <2>3. c \in Clients /\ Working(c) /\ Working(d)
    BY <1>1, <2>2 DEF TypeInv, TypeOK, Working
  <2>4. c = d
    BY <1>1, <2>2, <2>3 DEF Sound, LockInv
  <2>5. QED
    BY <2>2, <2>4
<1>2. TypeInv /\ Sound /\ ~abandoned /\ [Next]_vars
        => [\A c \in lock : file' # file =>
              pc[c] \in {"writing", "truncated"} /\ pc'[c] # pc[c]]_vars
  BY <1>1
<1>3. /\ Init => ~abandoned
      /\ TypeInv /\ ~abandoned /\ [Next]_vars => ~abandoned'
  BY NoneAbandoned
<1>4. QED
  BY <1>2, <1>3, TypeInit, TypeStep, SoundInit, SoundStep, PTL
  DEF Spec, FileStableUnderLock

(***************************************************************************)
(* A file that does not parse has a cause, whatever tasks, cancellations,  *)
(* failing writes and crashes there are: it is blank with nobody to fill   *)
(* it, or garbled, only by a crash in the middle of a write or a failing   *)
(* disk since the last write that ended, garbled also where some write has *)
(* outlived its operation.                                                 *)
(***************************************************************************)
THEOREM DamageExplained == Spec => []DamageHasCause
<1>1. Init => DamageHasCause
  BY SentinelAssumption DEF Init, DamageHasCause
<1>2. ASSUME TypeInv, Sound, DamageHasCause, [Next]_vars PROVE DamageHasCause'
  <2> USE SentinelAssumption DEF TypeInv, TypeOK, DamageHasCause, history
  <2>1. CASE UNCHANGED vars
    BY <1>2, <2>1 DEF vars, history
  <2>2. CASE Crash
    BY <1>2, <2>2 DEF Crash
  <2>3. ASSUME NEW c \in Clients,
               Call(c) \/ Acquire(c) \/ Step(c) \/ Cancel(c) \/ Abandon(c)
        PROVE  DamageHasCause'
    <3>1. \A d \in Clients : d # c => pc'[d] = pc[d]
      BY <1>2, <2>3, OthersStand
    <3>2. CASE Truncate(c)
      BY <1>2, <3>2 DEF Truncate
    <3>3. CASE FillFails(c)
      BY <1>2, <3>3 DEF FillFails
    <3>4. CASE Fill(c)
      <4>1. map[c] \in Maps /\ file' \in {map[c], Garbled}
        BY <1>2, <3>4 DEF Fill
      <4>2. file' = Garbled => abandoned
        BY <1>2, <3>4, <4>1 DEF Fill, Sound, WriteInv
      <4>3. UNCHANGED abandoned
        BY <3>4 DEF Fill, Return, Leave
      <4>4. QED
        BY <4>1, <4>2, <4>3
    <3>5. CASE ~Truncate(c) /\ ~Fill(c) /\ ~FillFails(c)
      <4>1. /\ UNCHANGED <<file, struck>> /\ (abandoned => abandoned')
            /\ pc[c] = "truncated" => pc'[c] = "truncated"
        <5>1. ASSUME Look(c)
              PROVE  UNCHANGED <<file, struck, abandoned>> /\ pc[c] = "holding"
          BY <1>2, <5>1, Operations DEF Look, Return, Leave
        <5>2. QED
          BY <1>2, <2>3, <3>5, <5>1
          DEF Call, Acquire, Cancel, Abandon, Step, ReadFails, set, delete, Edit,
              Write, OpenFails, Return, Leave
      <4>2. \A d \in Clients : pc[d] = "truncated" => pc'[d] = "truncated"
        BY <3>1, <4>1
      <4>3. struck' = struck /\ file' = file
        BY <4>1
      <4>4. QED
        BY ONLY <1>2, <4>1, <4>2, <4>3 DEF DamageHasCause
    <3>6. QED
      BY <3>2, <3>3, <3>4, <3>5
  <2>4. QED
    BY <1>2, <2>1, <2>2, <2>3 DEF Next
<1>3. QED
  BY <1>1, <1>2, TypeInit, TypeStep, SoundInit, SoundStep, PTL DEF Spec
=============================================================================

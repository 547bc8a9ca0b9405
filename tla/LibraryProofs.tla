---------------------------- MODULE LibraryProofs ----------------------------
(***************************************************************************)
(* Theorems about the building blocks of Library: for any keys, prefixes,  *)
(* stacks of decorators, identifiers and headers.                          *)
(***************************************************************************)
EXTENDS Library, FiniteSetTheorems, SequenceTheorems, TLAPS

-----------------------------------------------------------------------------
(*                           Least and greatest                            *)

\* The intervals up to the members of a set of numbers are finite, so that
\* the library's well-founded order of finite sets has a least one among them.
LEMMA Least ==
  ASSUME NEW T \in SUBSET Nat, T # {}
  PROVE  \E x \in T : \A y \in T : x <= y
<1> DEFINE I == {1..n : n \in T}
<1>1. I \subseteq FiniteSubsetsOf(Nat) /\ I # {}
  <2>1. ASSUME NEW n \in T PROVE 1..n \in SUBSET Nat /\ IsFiniteSet(1..n)
    <3>1. 1 \in Int /\ n \in Int
      OBVIOUS
    <3>2. IsFiniteSet(1..n)
      BY <3>1, FS_Interval
    <3>3. QED
      BY <3>2
  <2>2. QED
    BY <2>1 DEF FiniteSubsetsOf
<1>2. PICK u \in I : \A v \in I : <<v, u>> \notin StrictSubsetOrdering(Nat)
  <2> HIDE DEF I
  <2>1. QED
    BY <1>1, FS_StrictSubsetOrderingWellFounded, WFMin
<1>3. PICK x \in T : u = 1..x
  OBVIOUS
<1>4. ASSUME NEW y \in T, y < x PROVE FALSE
  <2>1. 1..y \in I /\ 1..y \subseteq 1..x /\ 1..y # 1..x
    <3>1. x \in 1..x /\ x \notin 1..y
      BY <1>4
    <3>2. QED
      BY <1>4, <3>1
  <2>2. 1..y \in SUBSET Nat /\ 1..x \in SUBSET Nat
    OBVIOUS
  <2>3. QED
    BY <2>1, <2>2, <1>2, <1>3 DEF StrictSubsetOrdering
<1>5. QED
  BY <1>4

LEMMA MaxIs ==
  ASSUME NEW T \in SUBSET Int, NEW m \in T, \A x \in T : x <= m
  PROVE  KeyValue!Max(T) = m /\ Http!Max(T) = m
<1>1. m >= m /\ \A y \in T : m >= y
  OBVIOUS
<1>2. PICK x, z : x = KeyValue!Max(T) /\ z = Http!Max(T)
  OBVIOUS
<1>3. x \in T /\ z \in T /\ \A y \in T : x >= y /\ z >= y
  BY <1>1, <1>2 DEF KeyValue!Max, Http!Max
<1>4. x \in Int /\ z \in Int /\ m \in Int /\ x >= m /\ m >= x /\ z >= m /\ m >= z
  BY <1>3
<1>5. QED
  BY <1>2, <1>4

LEMMA Greatest ==
  ASSUME NEW c \in Nat, NEW T \in SUBSET (0..c), T # {}
  PROVE  Http!Max(T) \in T /\ \A x \in T : x <= Http!Max(T)
<1> DEFINE U == {c - x : x \in T}
<1>1. U \in SUBSET Nat /\ U # {}
  <2>1. \A x \in T : c - x \in Nat /\ c - x \in U
    OBVIOUS
  <2>2. QED
    BY <2>1
<1>2. PICK u \in U : \A v \in U : u <= v
  BY <1>1, Least
<1>3. PICK m \in T : u = c - m
  BY <1>2
<1>4. ASSUME NEW x \in T PROVE x <= m
  <2>1. c - m <= c - x
    BY <1>2, <1>3
  <2>2. QED
    BY <2>1
<1>5. QED
  BY <1>4, MaxIs

LEMMA MinIs ==
  ASSUME NEW T \in SUBSET Int, NEW m \in T, \A x \in T : m <= x
  PROVE  Http!Min(T) = m
<1>1. PICK x : x = Http!Min(T)
  OBVIOUS
<1>2. x \in T /\ \A y \in T : x <= y
  BY <1>1 DEF Http!Min
<1>3. x \in Int /\ m \in Int /\ x <= m /\ m <= x
  BY <1>2
<1>4. QED
  BY <1>1, <1>3

-----------------------------------------------------------------------------
(*                              Read-only handles                          *)

(***************************************************************************)
(* What has come through a handle with a ReadOnlyStore in it is a read.    *)
(***************************************************************************)
CallsFiltered ==
  /\ DOMAIN call = Callers
  /\ \A c \in Callers :
       call[c] # None /\ Resource!Contains(call[c].handle, "readonly")
         => call[c].op.name \notin Resource!Mutations

\* A mutation that meets a ReadOnlyStore comes out as an error, wherever in
\* the stack it stands.
LEMMA MutationStopped ==
  ASSUME Resource!Stacked, NEW h \in Handles, NEW o \in Resource!Operation,
         ~Resource!IsError(Resource!Below(h, o)),
         Resource!Contains(h, "readonly")
  PROVE  Resource!Below(h, o).name \notin Resource!Mutations
<1> DEFINE refusing == {n \in DOMAIN h : Resource!IsError(Resource!Layer(h[n], o))}
<1>1. DOMAIN h = 1..Len(h) /\ Len(h) \in Nat
  BY DEF Resource!Stacked
<1>2. refusing = {}
  <2> SUFFICES ASSUME refusing # {} PROVE FALSE
    OBVIOUS
  <2>1. refusing \in SUBSET Nat
    BY <1>1
  <2> HIDE DEF refusing
  <2>2. \E x \in refusing : \A y \in refusing : x <= y
    BY <2>1, Least
  <2>3. Resource!Min(refusing) \in refusing
    BY <2>2 DEF Resource!Min
  <2>4. Resource!Below(h, o) = Resource!Layer(h[Resource!Min(refusing)], o)
    BY DEF Resource!Below, refusing
  <2>5. QED
    BY <2>3, <2>4 DEF refusing
<1>3. PICK n \in DOMAIN h : h[n] = "readonly"
  BY <1>1 DEF Resource!Contains
<1>4. Resource!Below(h, o) = o
  BY <1>2 DEF Resource!Below
<1>5. ~Resource!IsError(Resource!Layer("readonly", o))
  BY <1>2, <1>3
<1>6. QED
  BY <1>4, <1>5
  DEF Resource!Layer, Resource!ReadOnly, Resource!Forbidden, Resource!IsError,
      Resource!Mutations, Resource!Reads

LEMMA StepCalls ==
  CallsFiltered /\ Resource!Next => CallsFiltered'
<1> SUFFICES ASSUME CallsFiltered, Resource!Next PROVE CallsFiltered'
  OBVIOUS
<1> USE DEF CallsFiltered
<1>1. PICK c \in Callers :
        Resource!Call(c) \/ Resource!Store(c) \/ Resource!Refuse(c)
  BY DEF Resource!Next
<1>2. CASE Resource!Call(c)
  <2>1. PICK h \in Handles, o \in Resource!Operation :
          LET b == Resource!Below(h, o) IN
          IF Resource!IsError(b) THEN call' = call
          ELSE call' = [call EXCEPT ![c] = [handle |-> h, op |-> b]]
    BY <1>2 DEF Resource!Call
  <2>2. CASE Resource!IsError(Resource!Below(h, o))
    BY <2>1, <2>2
  <2>3. CASE ~Resource!IsError(Resource!Below(h, o))
    <3>1. call' = [call EXCEPT ![c] = [handle |-> h, op |-> Resource!Below(h, o)]]
      BY <2>1, <2>3
    <3>2. Resource!Contains(h, "readonly")
            => Resource!Below(h, o).name \notin Resource!Mutations
      BY <2>3, LibraryAssumption, MutationStopped
    <3>3. QED
      BY <3>1, <3>2
  <2>4. QED
    BY <2>2, <2>3
<1>3. CASE Resource!Store(c)
  BY <1>3 DEF Resource!Store
<1>4. CASE Resource!Refuse(c)
  BY <1>4 DEF Resource!Refuse
<1>5. QED
  BY <1>1, <1>2, <1>3, <1>4

LEMMA AlwaysFiltered == Spec => []CallsFiltered
<1>1. Init => CallsFiltered
  BY DEF Init, Resource!Init, CallsFiltered
<1>2. CallsFiltered /\ [Next]_vars => CallsFiltered'
  <2>1. CallsFiltered /\ UNCHANGED call => CallsFiltered'
    BY DEF CallsFiltered
  <2>2. QED
    BY <2>1, StepCalls DEF Next, vars, resource_vars
<1>3. QED
  BY <1>1, <1>2, PTL DEF Spec

(***************************************************************************)
(* However PassthroughStore and ReadOnlyStore are stacked over a store,    *)
(* what a step of it changes was called for through a handle without a     *)
(* ReadOnlyStore.                                                          *)
(***************************************************************************)
THEOREM ReadOnlyHandles == Spec => ReadOnlyHandlesOnlyRead
<1> DEFINE Mine0 == \E c \in Callers :
             /\ call[c] # None /\ call'[c] = None
             /\ ~Resource!Contains(call[c].handle, "readonly")
<1>1. ASSUME CallsFiltered, Resource!Next, resources' # resources
      PROVE  Mine0
  <2>1. PICK c \in Callers : Resource!Store(c)
    BY <1>1 DEF Resource!Next, Resource!Call, Resource!Refuse
  <2>2. call[c] # None /\ call'[c] = None
    BY <1>1, <2>1 DEF Resource!Store, CallsFiltered
  <2>3. call[c].op.name \in Resource!Mutations
    BY <1>1, <2>1 DEF Resource!Store, Resource!Mutations
  <2>4. QED
    BY <1>1, <2>2, <2>3 DEF CallsFiltered
<1>2. CallsFiltered /\ [Next]_vars
        => [resources' # resources => Mine0]_(Resource!vars)
  BY <1>1 DEF Next, vars, resource_vars, Resource!vars
<1>3. QED
  BY <1>2, AlwaysFiltered, PTL
  DEF Spec, ReadOnlyHandlesOnlyRead, Resource!ReadOnlyHandlesOnlyRead

-----------------------------------------------------------------------------
(*                                  Views                                  *)

LEMMA Starts ==
  ASSUME NEW U, NEW s \in Seq(U), NEW p \in Seq(U)
  PROVE  KeyValue!StartsWith(s, p)
           <=> Len(p) <= Len(s) /\ \A i \in 1..Len(p) : s[i] = p[i]
<1>1. ASSUME Len(p) <= Len(s)
      PROVE  /\ SubSeq(s, 1, Len(p)) \in Seq(U)
             /\ Len(SubSeq(s, 1, Len(p))) = Len(p)
             /\ \A i \in 1..Len(p) : SubSeq(s, 1, Len(p))[i] = s[i]
  <2>1. \A i \in 1..Len(p) : s[i] \in U
    BY <1>1, ElementOfSeq
  <2>2. Len(p) \in Nat /\ 1 \in Int
    OBVIOUS
  <2>3. QED
    BY <2>1, <2>2, SubSeqProperties
<1>2. QED
  BY <1>1, SeqEqual DEF KeyValue!StartsWith

\* What is behind the first letters of a sequence.
LEMMA Behind ==
  ASSUME NEW U, NEW s \in Seq(U), NEW n \in 0..Len(s)
  PROVE  LET t == SubSeq(s, n + 1, Len(s)) IN
         /\ t \in Seq(U) /\ Len(t) = Len(s) - n
         /\ \A i \in 1..Len(s) - n : t[i] = s[n + i]
<1>1. \A i \in n + 1 .. Len(s) : s[i] \in U
  BY ElementOfSeq
<1>2. n + 1 \in Int /\ Len(s) \in Int
  OBVIOUS
<1>3. QED
  BY <1>1, <1>2, SubSeqProperties

\* A prefix is taken off once, if what is behind it does not begin with it.
LEMMA TakenOff ==
  ASSUME NEW U, NEW v \in Views, NEW k \in Seq(U), Prefix[v] \in Seq(U),
         Len(Prefix[v]) > 0, ~KeyValue!StartsWith(k, Prefix[v])
  PROVE  KeyValue!to_original_key(v, Prefix[v] \o k) = k
<1> DEFINE p == Prefix[v]
           s == p \o k
           from(n) == SubSeq(s, n * Len(p) + 1, Len(s))
           times == {n \in 0..Len(s) :
                       \A i \in 0..n - 1 : KeyValue!StartsWith(from(i), p)}
<1>1. /\ s \in Seq(U) /\ Len(s) = Len(p) + Len(k)
      /\ Len(p) \in Nat /\ Len(k) \in Nat
      /\ \A i \in 1..Len(s) : s[i] = IF i <= Len(p) THEN p[i] ELSE k[i - Len(p)]
  BY ConcatProperties
<1>2. from(0) = s /\ from(1) = k
  <2>1. 0 * Len(p) + 1 = 1 /\ 1 * Len(p) + 1 = Len(p) + 1
    BY <1>1
  <2>2. SubSeq(s, 1, Len(s)) = s
    BY <1>1, SubSeqFull
  <2>3. SubSeq(s, Len(p) + 1, Len(s)) = k
    <3>1. Len(p) \in 0..Len(s)
      BY <1>1
    <3>2. LET t == SubSeq(s, Len(p) + 1, Len(s)) IN
          /\ t \in Seq(U) /\ Len(t) = Len(s) - Len(p)
          /\ \A i \in 1..Len(s) - Len(p) : t[i] = s[Len(p) + i]
      <4> HIDE DEF s, p
      <4>1. QED
        BY <1>1, <3>1, Behind
    <3>3. QED
      <4> HIDE DEF s, p
      <4>1. QED
        BY <1>1, <3>2, SeqEqual
  <2>4. QED
    BY <2>1, <2>2, <2>3
<1>3. KeyValue!StartsWith(from(0), p) /\ ~KeyValue!StartsWith(from(1), p)
  <2>1. KeyValue!StartsWith(s, p)
    <3>1. p \in Seq(U)
      OBVIOUS
    <3> HIDE DEF s, p, times
    <3>2. QED
      BY <1>1, <3>1, Starts
  <2>2. QED
    BY <1>2, <2>1
<1>4. times = {0, 1}
  <2> HIDE DEF from
  <2>1. 0 \in times /\ 1 \in times
    BY <1>1, <1>3
  <2>2. ASSUME NEW n \in times PROVE n <= 1
    BY <1>3
  <2>3. QED
    BY <2>1, <2>2
<1>5. KeyValue!Max(times) = 1
  <2> HIDE DEF times
  <2>1. times \in SUBSET Int /\ 1 \in times /\ \A x \in times : x <= 1
    BY <1>4
  <2>2. QED
    BY <2>1, MaxIs
<1>6. KeyValue!to_original_key(v, s) = from(KeyValue!Max(times))
  BY DEF KeyValue!to_original_key
<1>7. QED
  BY <1>2, <1>5, <1>6

\* A key that does not begin with the prefix is left as it is.
LEMMA LeftAlone ==
  ASSUME NEW U, NEW v \in Views, NEW s \in Seq(U), Prefix[v] \in Seq(U),
         ~KeyValue!StartsWith(s, Prefix[v])
  PROVE  KeyValue!to_original_key(v, s) = s
<1> DEFINE p == Prefix[v]
           from(n) == SubSeq(s, n * Len(p) + 1, Len(s))
           times == {n \in 0..Len(s) :
                       \A i \in 0..n - 1 : KeyValue!StartsWith(from(i), p)}
<1>1. from(0) = s
  <2>1. 0 * Len(p) + 1 = 1
    OBVIOUS
  <2>2. QED
    BY <2>1, SubSeqFull
<1>2. times = {0}
  <2> HIDE DEF from
  <2>1. 0 \in times
    OBVIOUS
  <2>2. ASSUME NEW n \in times PROVE n = 0
    BY <1>1
  <2>3. QED
    BY <2>1, <2>2
<1>3. KeyValue!Max(times) = 0
  <2> HIDE DEF times
  <2>1. times \in SUBSET Int /\ 0 \in times /\ \A x \in times : x <= 0
    BY <1>2
  <2>2. QED
    BY <2>1, MaxIs
<1>4. KeyValue!to_original_key(v, s) = from(KeyValue!Max(times))
  BY DEF KeyValue!to_original_key
<1>5. QED
  BY <1>1, <1>3, <1>4

\* Two sequences are sequences of the same things.
LEMMA Together ==
  ASSUME NEW s, NEW t, KeyValue!IsSeq(s), KeyValue!IsSeq(t)
  PROVE  \E U : s \in Seq(U) /\ t \in Seq(U)
<1> DEFINE S == {s[i] : i \in DOMAIN s}
           T == {t[i] : i \in DOMAIN t}
<1>1. s \in Seq(S) /\ t \in Seq(T)
  BY DEF KeyValue!IsSeq
<1>2. S \subseteq S \cup T /\ T \subseteq S \cup T
  OBVIOUS
<1> HIDE DEF S, T
<1>3. s \in Seq(S \cup T) /\ t \in Seq(S \cup T)
  BY <1>1, <1>2, SeqMonotonic
<1>4. QED
  BY <1>3

\* A view finds its keys again.
LEMMA OwnKey ==
  ASSUME NEW v \in Views, NEW k \in Keys
  PROVE  KeyValue!to_original_key(v, KeyValue!to_new_key(v, k)) = k
<1>1. PICK U : Prefix[v] \in Seq(U) /\ k \in Seq(U)
  BY Together, LibraryAssumption DEF KeyValue!Separate
<1>2. Len(Prefix[v]) > 0 /\ ~KeyValue!StartsWith(k, Prefix[v])
  BY LibraryAssumption DEF KeyValue!Separate
<1>3. QED
  BY <1>1, <1>2, TakenOff DEF KeyValue!to_new_key

\* Neither of two prefixes is the beginning of what the other is put before.
LEMMA PrefixesApart ==
  ASSUME NEW v \in Views, NEW w \in Views \ {v}, NEW k \in Keys
  PROVE  /\ \E U : Prefix[v] \in Seq(U) /\ KeyValue!to_new_key(w, k) \in Seq(U)
         /\ ~KeyValue!StartsWith(KeyValue!to_new_key(w, k), Prefix[v])
         /\ KeyValue!StartsWith(KeyValue!to_new_key(w, k), Prefix[w])
<1> DEFINE p == Prefix[v]
           q == Prefix[w]
           s == q \o k
<1>1. PICK U1 : q \in Seq(U1) /\ k \in Seq(U1)
  BY Together, LibraryAssumption DEF KeyValue!Separate
<1>2. PICK U2 : p \in Seq(U2) /\ k \in Seq(U2)
  BY Together, LibraryAssumption DEF KeyValue!Separate
<1> DEFINE U == U1 \cup U2
<1>3. p \in Seq(U) /\ q \in Seq(U) /\ k \in Seq(U)
  <2> HIDE DEF p, q
  <2>1. U1 \subseteq U /\ U2 \subseteq U
    OBVIOUS
  <2>2. QED
    BY <1>1, <1>2, <2>1, SeqMonotonic
<1>4. ~KeyValue!StartsWith(q, p) /\ ~KeyValue!StartsWith(p, q)
  BY LibraryAssumption DEF KeyValue!Separate
<1> HIDE DEF U, p, q
<1>5. /\ s \in Seq(U) /\ Len(s) = Len(q) + Len(k)
      /\ Len(p) \in Nat /\ Len(k) \in Nat /\ Len(q) \in Nat
      /\ \A i \in 1..Len(s) : s[i] = IF i <= Len(q) THEN q[i] ELSE k[i - Len(q)]
  BY <1>3, ConcatProperties
<1> HIDE DEF s
<1>6. ~KeyValue!StartsWith(s, p)
  <2>1. CASE Len(p) <= Len(q)
    <3>1. PICK i \in 1..Len(p) : q[i] # p[i]
      BY <1>3, <1>4, <2>1, Starts
    <3>2. s[i] # p[i]
      BY <1>5, <2>1, <3>1
    <3>3. QED
      BY <1>3, <1>5, <3>1, <3>2, Starts
  <2>2. CASE Len(q) <= Len(p)
    <3>1. PICK i \in 1..Len(q) : p[i] # q[i]
      BY <1>3, <1>4, <2>2, Starts
    <3>2. s[i] # p[i] /\ i \in 1..Len(p)
      BY <1>5, <2>2, <3>1
    <3>3. QED
      BY <1>3, <1>5, <3>2, Starts
  <2>3. QED
    BY <1>5, <2>1, <2>2
<1>7. KeyValue!StartsWith(s, q)
  <2>1. Len(q) <= Len(s) /\ \A i \in 1..Len(q) : s[i] = q[i]
    BY <1>5
  <2>2. QED
    BY <1>3, <1>5, <2>1, Starts
<1>8. KeyValue!to_new_key(w, k) = s
  BY DEF KeyValue!to_new_key, s, q
<1>9. QED
  BY <1>3, <1>5, <1>6, <1>7, <1>8 DEF p, q

\* A view leaves the stored keys of others alone, and they are not its own.
LEMMA ForeignKey ==
  ASSUME NEW v \in Views, NEW w \in Views \ {v}, NEW k \in Keys
  PROVE  /\ KeyValue!to_original_key(v, KeyValue!to_new_key(w, k))
              = KeyValue!to_new_key(w, k)
         /\ KeyValue!to_new_key(w, k) \notin Keys
<1>1. PICK U : Prefix[v] \in Seq(U) /\ KeyValue!to_new_key(w, k) \in Seq(U)
  BY PrefixesApart
<1>2. ~KeyValue!StartsWith(KeyValue!to_new_key(w, k), Prefix[v])
  BY PrefixesApart
<1>3. KeyValue!StartsWith(KeyValue!to_new_key(w, k), Prefix[w])
  BY PrefixesApart
<1>4. QED
  BY <1>1, <1>2, <1>3, LeftAlone, LibraryAssumption DEF KeyValue!Separate

\* No stored key stands for two keys.
LEMMA KeysApart ==
  ASSUME NEW v \in Views, NEW w \in Views, NEW k \in Keys, NEW l \in Keys,
         KeyValue!to_new_key(v, k) = KeyValue!to_new_key(w, l)
  PROVE  v = w /\ k = l
<1>1. v = w
  <2> SUFFICES ASSUME v # w PROVE FALSE
    OBVIOUS
  <2>1. KeyValue!StartsWith(KeyValue!to_new_key(v, k), Prefix[v])
    BY PrefixesApart
  <2>2. ~KeyValue!StartsWith(KeyValue!to_new_key(w, l), Prefix[v])
    BY PrefixesApart
  <2>3. QED
    BY <2>1, <2>2
<1>2. QED
  BY <1>1, OwnKey

-----------------------------------------------------------------------------
(***************************************************************************)
(* The map below is shared, so a view's own map is not a variable: it is   *)
(* what the map below holds under the view's keys.                         *)
(***************************************************************************)
Seen(d) == [k \in {l \in Keys : KeyValue!to_new_key(Mine, l) \in DOMAIN d} |->
              d[KeyValue!to_new_key(Mine, k)]]

ViewInv ==
  /\ data \in [DOMAIN data -> Values] /\ DOMAIN data \subseteq KeyValue!Stored
  /\ task \in [Clients -> KeyValue!Operation \cup {None}]
  /\ DOMAIN ret = Clients

LEMMA MineIsView == Mine \in Views /\ \A c \in Clients : ViewOf[c] \in Views
BY LibraryAssumption DEF KeyValue!Separate

\* What is put or dropped under another view's key is not seen.
LEMMA OthersUnseen ==
  ASSUME NEW d, NEW v \in Views \ {Mine}, NEW k \in Keys, NEW y
  PROVE  /\ Seen(KeyValue!Put(d, KeyValue!to_new_key(v, k), y)) = Seen(d)
         /\ Seen(KeyValue!Drop(d, KeyValue!to_new_key(v, k))) = Seen(d)
<1>1. \A l \in Keys : KeyValue!to_new_key(Mine, l) # KeyValue!to_new_key(v, k)
  BY MineIsView, KeysApart
<1>2. QED
  BY <1>1 DEF Seen, KeyValue!Put, KeyValue!Drop

\* And what is put or dropped under a key of its own is put or dropped.
LEMMA OwnSeen ==
  ASSUME NEW d, NEW k \in Keys, NEW y
  PROVE  /\ Seen(KeyValue!Put(d, KeyValue!to_new_key(Mine, k), y))
              = KeyValue!View!Apply(Seen(d), [name |-> "set", key |-> k, value |-> y])
         /\ Seen(KeyValue!Drop(d, KeyValue!to_new_key(Mine, k)))
              = KeyValue!View!Restriction(Seen(d), Keys \ {k})
<1>1. \A l \in Keys : KeyValue!to_new_key(Mine, l) = KeyValue!to_new_key(Mine, k)
                        => l = k
  BY MineIsView, KeysApart
<1>2. Seen(KeyValue!Put(d, KeyValue!to_new_key(Mine, k), y))
        = [l \in DOMAIN Seen(d) \cup {k} |-> IF l = k THEN y ELSE Seen(d)[l]]
  BY <1>1 DEF Seen, KeyValue!Put
<1>3. Seen(KeyValue!Drop(d, KeyValue!to_new_key(Mine, k)))
        = [l \in DOMAIN Seen(d) \cap (Keys \ {k}) |-> Seen(d)[l]]
  BY <1>1 DEF Seen, KeyValue!Drop
<1>4. QED
  BY <1>2, <1>3 DEF KeyValue!View!Apply, KeyValue!View!Restriction

\* What a client of the view makes of an answer that is not None.
LEMMA OwnAnswer ==
  ASSUME NEW res \in SUBSET (Keys \cup (Keys \cup KeyValue!Stored) \X Values)
  PROVE  KeyValue!Own(res) = {e \in res : e \in Keys \/ e[1] \in Keys}
BY LibraryAssumption DEF KeyValue!Separate, KeyValue!Own

\* The client recognizes the entries of its own view, and no other.
LEMMA OwnEntries ==
  ASSUME NEW d, d \in [DOMAIN d -> Values], DOMAIN d \subseteq KeyValue!Stored
  PROVE  KeyValue!Own({<<KeyValue!to_original_key(Mine, s), d[s]>> : s \in DOMAIN d})
           = KeyValue!View!Entries(Seen(d), Keys)
<1> DEFINE Nk(v, k) == KeyValue!to_new_key(v, k)
           Ok(s) == KeyValue!to_original_key(Mine, s)
           res == {<<Ok(s), d[s]>> : s \in DOMAIN d}
<1>1. \A s \in DOMAIN d : \E v \in Views, k \in Keys : s = Nk(v, k)
  BY DEF KeyValue!Stored
<1>2. \A k \in Keys : Ok(Nk(Mine, k)) = k
  BY MineIsView, OwnKey
<1>3. \A v \in Views \ {Mine}, k \in Keys : Ok(Nk(v, k)) = Nk(v, k) /\ Nk(v, k) \notin Keys
  BY MineIsView, ForeignKey
<1>4. \A v \in Views, k \in Keys : Nk(v, k) \in KeyValue!Stored
  BY DEF KeyValue!Stored
<1>5. \A k \in Keys : k \notin (Keys \cup KeyValue!Stored) \X Values
  BY LibraryAssumption DEF KeyValue!Separate
<1>6. Seen(d) = [k \in {l \in Keys : Nk(Mine, l) \in DOMAIN d} |-> d[Nk(Mine, k)]]
  BY DEF Seen
<1> HIDE DEF Nk, Ok
<1>7. \A s \in DOMAIN d : Ok(s) \in Keys \cup KeyValue!Stored /\ d[s] \in Values
  BY <1>1, <1>2, <1>3, <1>4
<1>8. KeyValue!Own(res) = {e \in res : e \in Keys \/ e[1] \in Keys}
  BY <1>7, OwnAnswer
<1>9. {e \in res : e \in Keys \/ e[1] \in Keys} = {e \in res : e[1] \in Keys}
  BY <1>5, <1>7
<1>10. \A s \in DOMAIN d : Ok(s) \in Keys =>
         Ok(s) \in DOMAIN Seen(d) /\ d[s] = Seen(d)[Ok(s)]
  BY <1>1, <1>2, <1>3, <1>6
<1>11. \A k \in DOMAIN Seen(d) :
         /\ k \in Keys /\ Nk(Mine, k) \in DOMAIN d
         /\ Ok(Nk(Mine, k)) = k /\ d[Nk(Mine, k)] = Seen(d)[k]
  BY <1>2, <1>6
<1>12. {e \in res : e[1] \in Keys} = {<<k, Seen(d)[k]>> : k \in DOMAIN Seen(d) \cap Keys}
  <2>1. \A e \in res : e[1] \in Keys => \E k \in DOMAIN Seen(d) \cap Keys : e = <<k, Seen(d)[k]>>
    BY <1>10
  <2>2. \A k \in DOMAIN Seen(d) \cap Keys : <<k, Seen(d)[k]>> \in res
    BY <1>11
  <2>3. QED
    BY <2>1, <2>2
<1>13. QED
  BY <1>8, <1>9, <1>12 DEF KeyValue!View!Entries, Ok

\* What the view's storage sees of the tasks and the answers.
Asked == [c \in KeyValue!Mates |-> task[c]]
Answered == [c \in KeyValue!Mates |-> KeyValue!Own(ret[c])]

LEMMA InitView ==
  ASSUME KeyValue!Init PROVE ViewInv /\ KeyValue!View!Init
<1>1. data = [s \in {} |-> None] /\ task = [c \in Clients |-> None]
      /\ ret = [c \in Clients |-> None]
  BY DEF KeyValue!Init
<1>2. ViewInv
  BY <1>1 DEF ViewInv
<1>3. Seen(data) = [k \in {} |-> None]
  BY <1>1 DEF Seen
<1>4. Asked = [c \in KeyValue!Mates |-> None]
  BY <1>1 DEF Asked, KeyValue!Mates
<1>5. Answered = [c \in KeyValue!Mates |-> None]
  BY <1>1 DEF Answered, KeyValue!Mates, KeyValue!Own
<1>6. QED
  BY <1>2, <1>3, <1>4, <1>5 DEF KeyValue!View!Init, Seen, Asked, Answered

\* The tasks of the view, when one client's task and answer have changed.
LEMMA Changed ==
  ASSUME ViewInv, NEW c \in Clients, NEW t, NEW r,
         task' = [task EXCEPT ![c] = t], ret' = [ret EXCEPT ![c] = r]
  PROVE  /\ c \in KeyValue!Mates =>
              /\ Asked' = [Asked EXCEPT ![c] = t]
              /\ Answered' = [Answered EXCEPT ![c] = KeyValue!Own(r)]
         /\ c \notin KeyValue!Mates => UNCHANGED <<Asked, Answered>>
BY DEF ViewInv, Asked, Answered, KeyValue!Mates

\* What a task of the view does to its map is one Take of the storage.
LEMMA TakesEffect ==
  ASSUME ViewInv, NEW c \in KeyValue!Mates, task[c] # None, NEW res,
         Seen(data)' = KeyValue!View!Apply(Seen(data), task[c]),
         KeyValue!Own(res) = KeyValue!View!Result(Seen(data), task[c]),
         KeyValue!Return(c, res)
  PROVE  KeyValue!View!Take(c)
<1>1. Asked[c] = task[c] /\ task[c] \in KeyValue!View!Operation
  BY DEF Asked, ViewInv, KeyValue!Mates, KeyValue!Operation, KeyValue!View!Operation
<1>2. /\ Asked' = [Asked EXCEPT ![c] = None]
      /\ Answered' = [Answered EXCEPT ![c] = KeyValue!Own(res)]
  BY Changed DEF KeyValue!Return, KeyValue!Mates
<1>3. Seen(data) # None
  <2>1. DOMAIN Seen(data) \in SUBSET Keys
    BY DEF Seen
  <2>2. Seen(data) \in [DOMAIN Seen(data) -> Values]
    BY DEF ViewInv, Seen
  <2>3. QED
    BY <2>1, <2>2, LibraryAssumption DEF KeyValue!Separate
<1>4. QED
  BY <1>1, <1>2, <1>3
  DEF KeyValue!View!Take, KeyValue!View!IsOperation, KeyValue!View!Answer,
      Seen, Asked, Answered

LEMMA StepViewInv ==
  ASSUME ViewInv, KeyValue!Next PROVE ViewInv'
<1>1. PICK c \in Clients :
        \/ KeyValue!Call(c) \/ KeyValue!GiveUp(c)
        \/ KeyValue!get_passthrough(c) \/ KeyValue!set_passthrough(c)
        \/ KeyValue!delete_passthrough(c) \/ KeyValue!entries_passthrough(c)
  BY DEF KeyValue!Next
<1>2. /\ task' \in [Clients -> KeyValue!Operation \cup {None}]
      /\ DOMAIN ret' = Clients
  BY <1>1
  DEF ViewInv, KeyValue!Call, KeyValue!GiveUp, KeyValue!get_passthrough,
      KeyValue!set_passthrough, KeyValue!delete_passthrough,
      KeyValue!entries_passthrough, KeyValue!Return
<1>3. data' \in [DOMAIN data' -> Values] /\ DOMAIN data' \subseteq KeyValue!Stored
  <2>1. CASE KeyValue!set_passthrough(c)
    <3>1. task[c].key \in Keys /\ task[c].value \in Values
      BY <2>1
      DEF ViewInv, KeyValue!set_passthrough, KeyValue!Doing, KeyValue!Operation
    <3>2. KeyValue!new_key(c) \in KeyValue!Stored
      BY <3>1, MineIsView DEF KeyValue!new_key, KeyValue!Stored
    <3>3. QED
      BY <2>1, <3>1, <3>2 DEF ViewInv, KeyValue!set_passthrough, KeyValue!Put
  <2>2. CASE KeyValue!delete_passthrough(c)
    BY <2>2 DEF ViewInv, KeyValue!delete_passthrough, KeyValue!Drop
  <2>3. CASE UNCHANGED data
    BY <2>3 DEF ViewInv
  <2>4. QED
    BY <1>1, <2>1, <2>2, <2>3
    DEF KeyValue!Call, KeyValue!GiveUp, KeyValue!get_passthrough,
        KeyValue!entries_passthrough
<1>4. QED
  BY <1>2, <1>3 DEF ViewInv

\* Every step is one of the view's storage, or does not change it.
LEMMA StepView ==
  ASSUME ViewInv, KeyValue!Next
  PROVE  KeyValue!View!Next \/ UNCHANGED KeyValue!View!vars
<1>1. PICK c \in Clients :
        \/ KeyValue!Call(c) \/ KeyValue!GiveUp(c)
        \/ KeyValue!get_passthrough(c) \/ KeyValue!set_passthrough(c)
        \/ KeyValue!delete_passthrough(c) \/ KeyValue!entries_passthrough(c)
  BY DEF KeyValue!Next
<1>2. UNCHANGED data => UNCHANGED Seen(data)
  BY DEF Seen
<1>3. CASE c \notin KeyValue!Mates
  <2>1. UNCHANGED <<Asked, Answered>>
    <3>1. \A m \in KeyValue!Mates : task'[m] = task[m] /\ ret'[m] = ret[m]
      BY <1>1, <1>3
      DEF ViewInv, KeyValue!Call, KeyValue!GiveUp, KeyValue!get_passthrough,
          KeyValue!set_passthrough, KeyValue!delete_passthrough,
          KeyValue!entries_passthrough, KeyValue!Return, KeyValue!Mates
    <3>2. QED
      BY <3>1 DEF Asked, Answered
  <2>2. UNCHANGED Seen(data)
    <3>1. ViewOf[c] \in Views \ {Mine}
      BY <1>3, MineIsView DEF KeyValue!Mates
    <3>2. CASE KeyValue!set_passthrough(c) \/ KeyValue!delete_passthrough(c)
      <4>1. task[c].key \in Keys
        BY <3>2
        DEF ViewInv, KeyValue!set_passthrough, KeyValue!delete_passthrough,
            KeyValue!Doing, KeyValue!Operation
      <4>2. \/ data' = KeyValue!Put(data, KeyValue!to_new_key(ViewOf[c], task[c].key),
                                    task[c].value)
            \/ data' = KeyValue!Drop(data, KeyValue!to_new_key(ViewOf[c], task[c].key))
        BY <3>2
        DEF KeyValue!set_passthrough, KeyValue!delete_passthrough, KeyValue!new_key
      <4>3. PICK d, k, y : d = data /\ k = task[c].key /\ y = task[c].value
        OBVIOUS
      <4>4. /\ Seen(KeyValue!Put(d, KeyValue!to_new_key(ViewOf[c], k), y)) = Seen(d)
            /\ Seen(KeyValue!Drop(d, KeyValue!to_new_key(ViewOf[c], k))) = Seen(d)
        BY <3>1, <4>1, <4>3, OthersUnseen
      <4>5. QED
        BY <4>2, <4>3, <4>4
    <3>3. QED
      BY <1>1, <1>2, <3>2
      DEF KeyValue!Call, KeyValue!GiveUp, KeyValue!get_passthrough,
          KeyValue!entries_passthrough
  <2>3. QED
    BY <2>1, <2>2 DEF KeyValue!View!vars, Seen, Asked, Answered
<1>4. CASE c \in KeyValue!Mates
  <2>0. ViewOf[c] = Mine /\ c \in Clients
    BY <1>4 DEF KeyValue!Mates
  <2>1. CASE KeyValue!Call(c)
    <3>1. PICK o \in KeyValue!Operation : task' = [task EXCEPT ![c] = o]
      BY <2>1 DEF KeyValue!Call
    <3>2. Asked' = [Asked EXCEPT ![c] = o] /\ Answered' = [Answered EXCEPT ![c] = None]
      BY <1>4, <2>1, <3>1, Changed DEF KeyValue!Call, KeyValue!Own
    <3>3. Asked[c] = None /\ o \in KeyValue!View!Operation
      BY <1>4, <2>1
      DEF Asked, KeyValue!Call, KeyValue!Operation, KeyValue!View!Operation
    <3>4. KeyValue!View!Call(c)
      BY <1>2, <2>1, <3>2, <3>3
      DEF KeyValue!Call, KeyValue!View!Call, Seen, Asked, Answered
    <3>5. QED
      BY <1>4, <3>4 DEF KeyValue!View!Next
  <2>2. CASE KeyValue!GiveUp(c)
    <3>1. Asked' = [Asked EXCEPT ![c] = None]
      BY <1>4, <2>2 DEF KeyValue!GiveUp, Asked, ViewInv, KeyValue!Mates
    <3>2. Asked[c] \in KeyValue!View!Operation
      BY <1>4, <2>2
      DEF Asked, KeyValue!GiveUp, ViewInv, KeyValue!Operation,
          KeyValue!View!Operation, KeyValue!Mates
    <3>3. UNCHANGED Answered
      BY <2>2 DEF KeyValue!GiveUp, Answered
    <3>4. KeyValue!View!GiveUp(c)
      BY <1>2, <2>2, <3>1, <3>2, <3>3
      DEF KeyValue!GiveUp, KeyValue!View!GiveUp, KeyValue!View!IsOperation,
          Seen, Asked, Answered
    <3>5. QED
      BY <1>4, <3>4 DEF KeyValue!View!Next
  <2>3. CASE KeyValue!get_passthrough(c)
    <3> DEFINE res == {<<task[c].key, data[s]>> :
                         s \in {KeyValue!new_key(c)} \cap DOMAIN data}
    <3>1. task[c] # None /\ task[c].name = "get" /\ task[c].key \in Keys
      BY <2>3
      DEF ViewInv, KeyValue!get_passthrough, KeyValue!Doing, KeyValue!Operation
    <3>2. Seen(data) = KeyValue!View!Apply(Seen(data), task[c])
      BY <3>1 DEF KeyValue!View!Apply
    <3>3. KeyValue!Own(res) = KeyValue!View!Result(Seen(data), task[c])
      <4>1. res \in SUBSET (Keys \cup (Keys \cup KeyValue!Stored) \X Values)
        BY <3>1 DEF ViewInv
      <4>2. KeyValue!Own(res) = res
        BY <3>1, <4>1, OwnAnswer
      <4>3. KeyValue!View!Result(Seen(data), task[c])
              = KeyValue!View!Entries(Seen(data), {task[c].key})
        BY <3>1 DEF KeyValue!View!Result
      <4>4. KeyValue!View!Entries(Seen(data), {task[c].key}) = res
        BY <2>0, <3>1 DEF KeyValue!View!Entries, Seen, KeyValue!new_key
      <4>5. QED
        BY <4>2, <4>3, <4>4
    <3>4. KeyValue!Return(c, res) /\ UNCHANGED data
      BY <2>3 DEF KeyValue!get_passthrough
    <3> HIDE DEF res
    <3>5. KeyValue!View!Take(c)
      BY <1>2, <1>4, <3>1, <3>2, <3>3, <3>4, TakesEffect
    <3>6. QED
      BY <1>4, <3>5 DEF KeyValue!View!Next
  <2>4. CASE KeyValue!set_passthrough(c)
    <3>1. /\ task[c] # None /\ task[c].key \in Keys
          /\ task[c] = [name |-> "set", key |-> task[c].key, value |-> task[c].value]
      BY <2>4
      DEF ViewInv, KeyValue!set_passthrough, KeyValue!Doing, KeyValue!Operation
    <3>2. Seen(data)' = KeyValue!View!Apply(Seen(data), task[c])
      <4>1. PICK d, k, y : d = data /\ k = task[c].key /\ y = task[c].value
        OBVIOUS
      <4>2. Seen(KeyValue!Put(d, KeyValue!to_new_key(Mine, k), y))
              = KeyValue!View!Apply(Seen(d), [name |-> "set", key |-> k, value |-> y])
        BY <3>1, <4>1, OwnSeen
      <4>3. data' = KeyValue!Put(d, KeyValue!to_new_key(Mine, k), y)
        BY <2>0, <2>4, <4>1 DEF KeyValue!set_passthrough, KeyValue!new_key
      <4>4. Seen(data)' = Seen(data')
        BY DEF Seen
      <4>5. QED
        BY <3>1, <4>1, <4>2, <4>3, <4>4
    <3>3. KeyValue!Own({}) = KeyValue!View!Result(Seen(data), task[c])
      <4>1. KeyValue!Own({}) = {}
        BY OwnAnswer
      <4>2. QED
        BY <3>1, <4>1 DEF KeyValue!View!Result
    <3>4. KeyValue!Return(c, {})
      BY <2>4 DEF KeyValue!set_passthrough
    <3>5. KeyValue!View!Take(c)
      BY <1>4, <3>1, <3>2, <3>3, <3>4, TakesEffect
    <3>6. QED
      BY <1>4, <3>5 DEF KeyValue!View!Next
  <2>5. CASE KeyValue!delete_passthrough(c)
    <3> DEFINE res == IF KeyValue!new_key(c) \in DOMAIN data THEN {task[c].key} ELSE {}
    <3>1. task[c] # None /\ task[c].name = "delete" /\ task[c].key \in Keys
      BY <2>5
      DEF ViewInv, KeyValue!delete_passthrough, KeyValue!Doing, KeyValue!Operation
    <3>2. Seen(data)' = KeyValue!View!Apply(Seen(data), task[c])
      <4>1. PICK d, k : d = data /\ k = task[c].key
        OBVIOUS
      <4>2. Seen(KeyValue!Drop(d, KeyValue!to_new_key(Mine, k)))
              = KeyValue!View!Restriction(Seen(d), Keys \ {k})
        BY <3>1, <4>1, OwnSeen
      <4>3. data' = KeyValue!Drop(d, KeyValue!to_new_key(Mine, k))
        BY <2>0, <2>5, <4>1 DEF KeyValue!delete_passthrough, KeyValue!new_key
      <4>4. Seen(data)' = Seen(data')
        BY DEF Seen
      <4>5. KeyValue!View!Apply(Seen(d), task[c])
              = KeyValue!View!Restriction(Seen(d), Keys \ {k})
        BY <3>1, <4>1 DEF KeyValue!View!Apply
      <4>6. QED
        BY <4>1, <4>2, <4>3, <4>4, <4>5
    <3>3. KeyValue!Own(res) = KeyValue!View!Result(Seen(data), task[c])
      <4>1. res \in SUBSET (Keys \cup (Keys \cup KeyValue!Stored) \X Values)
        BY <3>1
      <4>2. KeyValue!Own(res) = res
        BY <3>1, <4>1, OwnAnswer
      <4>3. KeyValue!View!Result(Seen(data), task[c])
              = {task[c].key} \cap DOMAIN Seen(data)
        BY <3>1 DEF KeyValue!View!Result
      <4>4. {task[c].key} \cap DOMAIN Seen(data) = res
        BY <2>0, <3>1 DEF Seen, KeyValue!new_key
      <4>5. QED
        BY <4>2, <4>3, <4>4
    <3>4. KeyValue!Return(c, res)
      BY <2>5 DEF KeyValue!delete_passthrough
    <3> HIDE DEF res
    <3>5. KeyValue!View!Take(c)
      BY <1>4, <3>1, <3>2, <3>3, <3>4, TakesEffect
    <3>6. QED
      BY <1>4, <3>5 DEF KeyValue!View!Next
  <2>6. CASE KeyValue!entries_passthrough(c)
    <3> DEFINE res == {<<KeyValue!to_original_key(Mine, s), data[s]>> : s \in DOMAIN data}
    <3>1. task[c] # None /\ task[c].name = "entries"
      BY <2>6 DEF KeyValue!entries_passthrough, KeyValue!Doing
    <3>2. Seen(data) = KeyValue!View!Apply(Seen(data), task[c])
      BY <3>1 DEF KeyValue!View!Apply
    <3>3. KeyValue!Own(res) = KeyValue!View!Result(Seen(data), task[c])
      <4>1. PICK d : d = data
        OBVIOUS
      <4>2. KeyValue!Own({<<KeyValue!to_original_key(Mine, s), d[s]>> : s \in DOMAIN d})
              = KeyValue!View!Entries(Seen(d), Keys)
        BY <4>1, OwnEntries DEF ViewInv
      <4>3. KeyValue!View!Result(Seen(data), task[c])
              = KeyValue!View!Entries(Seen(data), Keys)
        BY <3>1 DEF KeyValue!View!Result
      <4>4. QED
        BY <4>1, <4>2, <4>3
    <3>4. KeyValue!Return(c, res) /\ UNCHANGED data
      BY <2>0, <2>6 DEF KeyValue!entries_passthrough
    <3> HIDE DEF res
    <3>5. KeyValue!View!Take(c)
      BY <1>2, <1>4, <3>1, <3>2, <3>3, <3>4, TakesEffect
    <3>6. QED
      BY <1>4, <3>5 DEF KeyValue!View!Next
  <2>7. QED
    BY <1>1, <2>1, <2>2, <2>3, <2>4, <2>5, <2>6
<1>5. QED
  BY <1>3, <1>4

(***************************************************************************)
(* For any views and prefixes of which none begins with another, and any   *)
(* keys that begin with none: a view of a shared storage refines the       *)
(* storage that KeyValueStorage promises, on a map of its own.             *)
(***************************************************************************)
THEOREM ViewsAreStorages == Spec => ViewIsStorage
<1>1. Init => ViewInv /\ KeyValue!View!Init
  BY InitView DEF Init
<1>2. ViewInv /\ [Next]_vars => ViewInv'
  <2>1. ViewInv /\ UNCHANGED <<data, task, ret>> => ViewInv'
    BY DEF ViewInv
  <2>2. QED
    BY <2>1, StepViewInv DEF Next, vars, storage_vars
<1>3. ViewInv /\ [Next]_vars => [KeyValue!View!Next]_(KeyValue!View!vars)
  <2>1. UNCHANGED <<data, task, ret>> => UNCHANGED KeyValue!View!vars
    BY DEF KeyValue!View!vars
  <2>2. QED
    BY <2>1, StepView DEF Next, vars, storage_vars
<1>4. QED
  BY <1>1, <1>2, <1>3, PTL
  DEF Spec, ViewIsStorage, KeyValue!ViewIsStorage, KeyValue!View!Spec

-----------------------------------------------------------------------------
(*                              Identifiers                                *)

Parts == Names \cup {Scheme, BlankPart}

\* The base of an identifier, which no trimming removes: the '/' of a path,
\* the authority of a URL, or what the parent of an authority has left of it.
Base(d) == IF Http!IsUrl(d) THEN 3 ELSE 1

(***************************************************************************)
(* A trimmed identifier is a base with names behind it.  Whatever the      *)
(* operations make is such an identifier with blank parts behind it.       *)
(***************************************************************************)
Trimmed(d) ==
  /\ d \in Seq(Parts) /\ Len(d) > 0 /\ d[1] \in {BlankPart, Scheme}
  /\ \A n \in Base(d) + 1 .. Len(d) : d[n] \in Names

Extended(i, d) ==
  /\ i \in Seq(Parts) /\ Len(d) <= Len(i)
  /\ \A n \in 1..Len(d) : i[n] = d[n]
  /\ \A n \in Len(d) + 1 .. Len(i) : i[n] = BlankPart

IdInv == \E d : Trimmed(d) /\ Extended(id, d)

LEMMA Constants ==
  /\ Hosts \subseteq Names /\ Scheme \notin Names /\ BlankPart \notin Names
  /\ Scheme # BlankPart /\ {Dot, DotDot} \cup Cut \subseteq Names
  /\ \A n \in Names : n \in Beginnings[n]
BY LibraryAssumption DEF Http!Distinct

LEMMA Beginning ==
  ASSUME NEW i \in Seq(Parts), NEW n \in 0..Len(i)
  PROVE  /\ SubSeq(i, 1, n) \in Seq(Parts) /\ Len(SubSeq(i, 1, n)) = n
         /\ \A k \in 1..n : SubSeq(i, 1, n)[k] = i[k]
<1>1. \A k \in 1..n : i[k] \in Parts
  BY ElementOfSeq
<1>2. 1 \in Int /\ n \in Int
  OBVIOUS
<1>3. QED
  BY <1>1, <1>2, SubSeqProperties

\* as_document takes off what is behind, and no more.
LEMMA AsDocument ==
  ASSUME NEW i, NEW d, Trimmed(d), Extended(i, d)
  PROVE  Http!as_document(i) = d
<1> DEFINE some == {n \in 1..Len(i) : i[n] # BlankPart}
           m == IF some = {} THEN 1 ELSE Http!Max(some)
<1>1. /\ i \in Seq(Parts) /\ d \in Seq(Parts)
      /\ Len(i) \in Nat /\ Len(d) \in Nat /\ Len(d) > 0
  BY DEF Trimmed, Extended
<1>2. m = Len(d)
  <2>1. \A n \in some : n <= Len(d)
    BY <1>1 DEF Extended
  <2>2. CASE d[Len(d)] # BlankPart
    <3>1. Len(d) \in some /\ some \in SUBSET Int
      BY <1>1, <2>2 DEF Extended
    <3> HIDE DEF some
    <3>2. QED
      BY <2>1, <3>1, MaxIs
  <2>3. CASE d[Len(d)] = BlankPart
    <3>1. Len(d) = 1
      <4>1. PICK n \in Nat : n = Len(d)
        BY <1>1
      <4>2. CASE Http!IsUrl(d)
        <5>1. n >= 3 /\ d[3] \in Hosts
          BY <4>1, <4>2 DEF Http!IsUrl
        <5>2. ~(n > 3)
          BY <2>3, <4>1, <4>2, Constants DEF Trimmed, Base
        <5>3. n = 3
          BY <5>1, <5>2
        <5>4. QED
          BY <2>3, <4>1, <5>1, <5>3, Constants
      <4>3. CASE ~Http!IsUrl(d)
        <5>1. ~(n > 1) /\ n > 0
          BY <1>1, <2>3, <4>1, <4>3, Constants DEF Trimmed, Base
        <5>2. n = 1
          BY <5>1
        <5>3. QED
          BY <4>1, <5>2
      <4>4. QED
        BY <4>2, <4>3
    <3>2. some = {}
      BY <1>1, <2>1, <2>3, <3>1 DEF Extended
    <3>3. QED
      BY <3>1, <3>2
  <2>4. QED
    BY <2>2, <2>3
<1>3. Http!as_document(i) = SubSeq(i, 1, Len(d))
  BY <1>2 DEF Http!as_document
<1>4. SubSeq(i, 1, Len(d)) = d
  <2>1. Len(d) \in 0..Len(i)
    BY <1>1 DEF Extended
  <2>2. /\ SubSeq(i, 1, Len(d)) \in Seq(Parts) /\ Len(SubSeq(i, 1, Len(d))) = Len(d)
        /\ \A k \in 1..Len(d) : SubSeq(i, 1, Len(d))[k] = d[k]
    BY <1>1, <2>1, Beginning DEF Extended
  <2>3. QED
    BY <1>1, <2>2, SeqEqual
<1>5. QED
  BY <1>3, <1>4

\* Whether it is a URL does not depend on what is behind.
LEMMA SameKind ==
  ASSUME NEW i, NEW d, Trimmed(d), Extended(i, d)
  PROVE  (Http!IsUrl(i) <=> Http!IsUrl(d)) /\ (Http!IsBare(i) <=> Http!IsBare(d))
<1>1. /\ Len(i) \in Nat /\ Len(d) \in Nat /\ Len(d) > 0 /\ Len(d) <= Len(i)
      /\ i[1] = d[1]
  BY DEF Trimmed, Extended
<1>2. Http!IsUrl(d) => Http!IsUrl(i)
  BY <1>1 DEF Extended, Http!IsUrl
<1>3. ASSUME Http!IsUrl(i), ~Http!IsUrl(d) PROVE FALSE
  <2>1. Len(i) >= 3 /\ i[1] = Scheme /\ i[2] = BlankPart /\ i[3] \in Hosts
    BY <1>3 DEF Http!IsUrl
  <2>2. \A n \in 2..Len(d) : d[n] \in Names
    BY <1>3 DEF Trimmed, Base
  <2>3. Len(d) < 2
    BY <1>1, <2>1, <2>2, Constants DEF Extended
  <2>4. i[3] = BlankPart
    BY <1>1, <2>1, <2>3 DEF Extended
  <2>5. QED
    BY <2>1, <2>4, Constants
<1>4. QED
  BY <1>1, <1>2, <1>3 DEF Http!IsBare

LEMMA ExtendsItself ==
  ASSUME NEW d, Trimmed(d) PROVE Extended(d, d)
<1>1. d \in Seq(Parts) /\ Len(d) \in Nat
  BY DEF Trimmed
<1>2. QED
  BY <1>1 DEF Extended

LEMMA BlankBehind ==
  ASSUME NEW i, NEW d, Extended(i, d), Len(d) \in Nat
  PROVE  Extended(Append(i, BlankPart), d)
<1>1. i \in Seq(Parts) /\ BlankPart \in Parts /\ Len(i) \in Nat
  BY DEF Extended, Parts
<1> DEFINE a == Append(i, BlankPart)
<1>2. /\ a \in Seq(Parts) /\ Len(a) = Len(i) + 1
      /\ \A n \in 1..Len(i) : a[n] = i[n]
      /\ a[Len(i) + 1] = BlankPart
  BY <1>1, AppendProperties
<1> HIDE DEF a
<1>3. Extended(a, d)
  BY <1>1, <1>2 DEF Extended
<1>4. QED
  BY <1>3 DEF a

LEMMA NameBehind ==
  ASSUME NEW d, Trimmed(d), NEW name \in Names
  PROVE  Trimmed(Append(d, name))
<1> DEFINE a == Append(d, name)
<1>1. d \in Seq(Parts) /\ Len(d) \in Nat /\ Len(d) > 0 /\ name \in Parts
  BY DEF Trimmed, Parts
<1>2. /\ a \in Seq(Parts) /\ Len(a) = Len(d) + 1
      /\ \A n \in 1..Len(d) : a[n] = d[n]
      /\ a[Len(d) + 1] = name
  BY <1>1, AppendProperties
<1> HIDE DEF a
<1>3. CASE Http!IsUrl(d)
  <2>1. Http!IsUrl(a)
    BY <1>1, <1>2, <1>3 DEF Http!IsUrl
  <2>2. QED
    BY <1>1, <1>2, <1>3, <2>1 DEF Trimmed, Base, a
<1>4. CASE ~Http!IsUrl(d)
  <2>1. \A n \in 2..Len(a) : a[n] \in Names
    BY <1>1, <1>2, <1>4 DEF Trimmed, Base
  <2>2. ~Http!IsUrl(a)
    BY <1>1, <1>2, <2>1, Constants DEF Http!IsUrl
  <2>3. QED
    BY <1>1, <1>2, <2>1, <2>2 DEF Trimmed, Base, a
<1>5. QED
  BY <1>3, <1>4

\* What parent makes of a trimmed identifier.
LEMMA ParentOf ==
  ASSUME NEW d, Trimmed(d), Len(d) > 1
  PROVE  LET f == Http!Front(d)
             p == f \o <<BlankPart, BlankPart>> IN
         /\ p \in Seq(Parts) /\ Len(p) = Len(d) + 1 /\ p[Len(p)] = BlankPart
         /\ ~(Http!IsUrl(d) /\ Len(d) = 3) =>
               Trimmed(f) /\ Extended(p, f) /\ Append(f, d[Len(d)]) = d
         /\ Http!IsUrl(d) /\ Len(d) = 3 =>
               Trimmed(<<Scheme>>) /\ Extended(p, <<Scheme>>)
<1> DEFINE f == Http!Front(d)
           p == f \o <<BlankPart, BlankPart>>
<1>0. d \in Seq(Parts) /\ Len(d) \in Nat
  BY DEF Trimmed
<1>1. /\ f \in Seq(Parts) /\ Len(f) = Len(d) - 1 /\ Len(f) \in Nat
      /\ \A k \in 1..Len(d) - 1 : f[k] = d[k]
  <2>1. Len(d) - 1 \in 0..Len(d)
    BY <1>0
  <2>2. f = SubSeq(d, 1, Len(d) - 1)
    BY DEF Http!Front
  <2> HIDE DEF f
  <2>3. QED
    BY <1>0, <2>1, <2>2, Beginning
<1>2. /\ p \in Seq(Parts) /\ Len(p) = Len(f) + 2
      /\ \A k \in 1..Len(f) : p[k] = f[k]
      /\ p[Len(f) + 1] = BlankPart /\ p[Len(f) + 2] = BlankPart
  <2> DEFINE b == <<BlankPart, BlankPart>>
  <2>1. b \in Seq(Parts) /\ Len(b) = 2 /\ b[1] = BlankPart /\ b[2] = BlankPart
    BY DEF Parts
  <2>2. /\ f \o b \in Seq(Parts) /\ Len(f \o b) = Len(f) + Len(b)
        /\ \A k \in 1 .. Len(f) + Len(b) :
             (f \o b)[k] = IF k <= Len(f) THEN f[k] ELSE b[k - Len(f)]
    <3> HIDE DEF f, b
    <3>1. QED
      BY <1>1, <2>1, ConcatProperties
  <2>3. p = f \o b
    OBVIOUS
  <2> HIDE DEF f, b, p
  <2>4. QED
    BY <1>1, <2>1, <2>2, <2>3
<1> HIDE DEF f, p
<1>3. ASSUME ~(Http!IsUrl(d) /\ Len(d) = 3)
      PROVE  Trimmed(f) /\ Extended(p, f) /\ Append(f, d[Len(d)]) = d
  <2>1. Trimmed(f)
    <3>1. CASE Http!IsUrl(d)
      <4>1. Len(d) > 3
        <5>1. PICK m \in Nat : m = Len(d)
          BY <1>0
        <5>2. m >= 3 /\ m # 3
          BY <1>3, <3>1, <5>1 DEF Http!IsUrl
        <5>3. QED
          BY <5>1, <5>2
      <4>2. Http!IsUrl(f)
        BY <1>0, <1>1, <3>1, <4>1 DEF Http!IsUrl
      <4>3. QED
        BY <1>0, <1>1, <3>1, <4>1, <4>2 DEF Trimmed, Base
    <3>2. CASE ~Http!IsUrl(d)
      <4>1. ~Http!IsUrl(f)
        BY <1>0, <1>1, <3>2 DEF Http!IsUrl
      <4>2. QED
        BY <1>0, <1>1, <3>2, <4>1 DEF Trimmed, Base
    <3>3. QED
      BY <3>1, <3>2
  <2>2. Extended(p, f)
    BY <1>0, <1>1, <1>2 DEF Extended
  <2>3. Append(f, d[Len(d)]) = d
    <3>1. d[Len(d)] \in Parts
      BY <1>0, ElementOfSeq
    <3>2. PICK e \in Parts : e = d[Len(d)]
      BY <3>1
    <3>3. /\ Append(f, e) \in Seq(Parts) /\ Len(Append(f, e)) = Len(f) + 1
          /\ \A n \in 1..Len(f) : Append(f, e)[n] = f[n]
          /\ Append(f, e)[Len(f) + 1] = e
      BY <1>1, AppendProperties
    <3>4. \A n \in 1..Len(d) : Append(f, e)[n] = d[n]
      BY <1>0, <1>1, <3>2, <3>3
    <3>5. Len(Append(f, e)) = Len(d)
      BY <1>0, <1>1, <3>3
    <3>6. QED
      BY <1>0, <3>2, <3>3, <3>4, <3>5, SeqEqual
  <2>4. QED
    BY <2>1, <2>2, <2>3
<1>4. ASSUME Http!IsUrl(d), Len(d) = 3
      PROVE  Trimmed(<<Scheme>>) /\ Extended(p, <<Scheme>>)
  <2>1. <<Scheme>> \in Seq(Parts) /\ Len(<<Scheme>>) = 1 /\ <<Scheme>>[1] = Scheme
    BY DEF Parts
  <2>2. ~Http!IsUrl(<<Scheme>>)
    BY <2>1 DEF Http!IsUrl
  <2>3. PICK s : s = <<Scheme>>
    OBVIOUS
  <2>4. Trimmed(s)
    BY <2>1, <2>2, <2>3 DEF Trimmed, Base
  <2>5. p[1] = Scheme /\ p[2] = BlankPart /\ p[3] = BlankPart /\ p[4] = BlankPart
        /\ Len(p) = 4
    BY <1>0, <1>1, <1>2, <1>4 DEF Http!IsUrl
  <2>6. Extended(p, s)
    <3>1. PICK l \in Nat : l = Len(p)
      BY <1>2, <1>1
    <3>2. l = 4 /\ \A n \in 2..l : n = 2 \/ n = 3 \/ n = 4
      BY <2>5, <3>1
    <3>3. Len(s) <= l /\ \A n \in 1..Len(s) : p[n] = s[n]
      BY <2>1, <2>3, <2>5, <3>2
    <3>4. \A n \in Len(s) + 1 .. l : p[n] = BlankPart
      BY <2>1, <2>3, <2>5, <3>2
    <3>5. QED
      BY <1>2, <3>1, <3>3, <3>4 DEF Extended
  <2>7. QED
    BY <2>3, <2>4, <2>6
<1>5. Len(p) = Len(d) + 1 /\ p[Len(p)] = BlankPart
  BY <1>0, <1>1, <1>2
<1>6. QED
  BY <1>2, <1>3, <1>4, <1>5 DEF f, p

LEMMA StepIdInv ==
  ASSUME IdInv, Http!Derive PROVE IdInv'
<1>1. PICK d : Trimmed(d) /\ Extended(id, d)
  BY DEF IdInv
<1>2. d \in Seq(Parts) /\ Len(d) \in Nat
  BY <1>1 DEF Trimmed
<1>3. Http!as_document(id) = d
  BY <1>1, AsDocument
<1>4. ASSUME NEW e, Trimmed(e), Extended(id', e) PROVE IdInv'
  BY <1>4 DEF IdInv, Trimmed, Extended, Parts, Base, Http!IsUrl
<1>5. CASE id' = Http!as_container(id)
  <2>1. CASE Http!is_container(id)
    BY <1>1, <1>4, <1>5, <2>1 DEF Http!as_container
  <2>2. CASE ~Http!is_container(id)
    <3>1. id' = Append(id, BlankPart)
      BY <1>5, <2>2 DEF Http!as_container
    <3>2. QED
      BY <1>1, <1>2, <1>4, <3>1, BlankBehind
  <2>3. QED
    BY <2>1, <2>2
<1>6. CASE id' = Http!as_document(id)
  BY <1>1, <1>3, <1>4, <1>6, ExtendsItself
<1>7. CASE Http!HasParent(id) /\ id' = Http!parent(id)
  <2>1. Len(d) > 1 /\ id' = Http!Front(d) \o <<BlankPart, BlankPart>>
    BY <1>3, <1>7 DEF Http!HasParent, Http!parent
  <2>2. \E e : Trimmed(e) /\ Extended(id', e)
    BY <1>1, <2>1, ParentOf
  <2>3. QED
    BY <1>4, <2>2
<1>8. CASE \E name \in Names : id' = Http!join(id, name)
  <2>1. PICK name \in Names : id' = Append(d, name)
    BY <1>3, <1>8 DEF Http!join
  <2>2. QED
    BY <1>1, <1>4, <2>1, NameBehind, ExtendsItself
<1>9. QED
  BY <1>5, <1>6, <1>7, <1>8 DEF Http!Derive

LEMMA InitIdInv ==
  ASSUME Http!Init PROVE IdInv
<1>1. CASE id = <<BlankPart, BlankPart>>
  <2>1. PICK d : d = <<BlankPart>>
    OBVIOUS
  <2>2. d \in Seq(Parts) /\ Len(d) = 1 /\ d[1] = BlankPart
    BY <2>1 DEF Parts
  <2>3. Trimmed(d)
    BY <2>2 DEF Trimmed, Base, Http!IsUrl
  <2>4. id = Append(d, BlankPart)
    BY <1>1, <2>1
  <2>5. Extended(id, d)
    BY <2>2, <2>3, <2>4, ExtendsItself, BlankBehind
  <2>6. QED
    BY <2>3, <2>5 DEF IdInv
<1>2. CASE \E h \in Hosts : id = <<Scheme, BlankPart, h>>
  <2>1. PICK h \in Hosts : id = <<Scheme, BlankPart, h>>
    BY <1>2
  <2>2. PICK d : d = <<Scheme, BlankPart, h>>
    OBVIOUS
  <2>3. /\ d \in Seq(Parts) /\ Len(d) = 3
        /\ d[1] = Scheme /\ d[2] = BlankPart /\ d[3] = h
    BY <2>2, Constants DEF Parts
  <2>4. Trimmed(d)
    BY <2>3 DEF Trimmed, Base, Http!IsUrl
  <2>5. QED
    BY <2>1, <2>2, <2>4, ExtendsItself DEF IdInv
<1>3. QED
  BY <1>1, <1>2 DEF Http!Init

\* The authority of a URL stands behind "http://".
LEMMA AuthorityOf ==
  ASSUME NEW i \in Seq(Parts), Http!IsUrl(i)
  PROVE  Http!Authority(i) = 3 /\ Http!Parses(i) /\ ~Http!IsBare(i)
<1> DEFINE T == {n \in 2..Len(i) : i[n] # BlankPart}
<1>1. /\ Len(i) \in Nat /\ Len(i) >= 3
      /\ i[1] = Scheme /\ i[2] = BlankPart /\ i[3] \in Hosts
  BY DEF Http!IsUrl
<1>2. T \in SUBSET Int /\ 3 \in T /\ \A n \in T : 3 <= n
  BY <1>1, Constants
<1>3. Http!Authority(i) = 3
  <2>1. Http!Authority(i) = Http!Min(T)
    BY DEF Http!Authority
  <2> HIDE DEF T
  <2>2. QED
    BY <1>2, <2>1, MinIs
<1>4. QED
  BY <1>1, <1>2, <1>3, Constants DEF Http!Parses, Http!HasAuthority, Http!IsBare

\* The path is what stands behind the authority, if Url::parse leaves it alone.
LEMMA PathOf ==
  ASSUME NEW i \in Seq(Parts), Http!IsUrl(i), Len(i) > 3, i[3] \notin Cut,
         \A n \in 4..Len(i) :
           i[n] = BlankPart \/ (i[n] \in Names /\ Http!Tidy(i[n]))
  PROVE  /\ Http!UrlPath(i) = <<BlankPart>> \o SubSeq(i, 4, Len(i))
         /\ SubSeq(i, 4, Len(i)) \in Seq(Parts)
         /\ Len(SubSeq(i, 4, Len(i))) = Len(i) - 3
         /\ \A k \in 1..Len(i) - 3 : SubSeq(i, 4, Len(i))[k] = i[3 + k]
<1> DEFINE p == Http!UrlPath(i)
           rest == SubSeq(i, 4, Len(i))
<1>1. /\ Len(i) \in Nat /\ i[1] = Scheme /\ i[2] = BlankPart /\ i[3] \in Hosts
  BY DEF Http!IsUrl
<1>2. /\ rest \in Seq(Parts) /\ Len(rest) = Len(i) - 3
      /\ \A k \in 1..Len(i) - 3 : rest[k] = i[3 + k]
  <2>3. \A k \in 4..Len(i) : i[k] \in Parts
    BY ElementOfSeq
  <2>4. 4 \in Int /\ Len(i) \in Int
    BY <1>1
  <2>5. /\ rest \in Seq(Parts)
        /\ Len(rest) = IF 4 <= Len(i) THEN Len(i) - 4 + 1 ELSE 0
        /\ \A k \in 1 .. Len(i) - 4 + 1 : rest[k] = i[4 + k - 1]
    BY <2>3, <2>4, SubSeqProperties
  <2> HIDE DEF rest
  <2>6. QED
    BY <1>1, <2>5
<1>0. Http!Authority(i) = 3 /\ Http!Parses(i)
  BY AuthorityOf
<1>3. p = <<BlankPart>> \o rest
  <2> DEFINE Segment(x) == IF x = BlankPart THEN BlankPart ELSE Encoded[x]
             segments == [n \in DOMAIN rest |-> Segment(rest[n])]
             ends == {n \in DOMAIN rest : rest[n] \in Cut}
  <2>1. DOMAIN rest = 1 .. Len(i) - 3 /\ Len(i) - 3 \in Nat /\ rest # <<>>
    <3>1. PICK l \in Nat : l = Len(i) /\ l > 3
      BY <1>1
    <3>2. Len(rest) = l - 3 /\ l - 3 \in Nat /\ l - 3 > 0
      BY <1>2, <3>1
    <3> HIDE DEF rest
    <3>3. DOMAIN rest = 1..Len(rest)
      BY <1>2
    <3>4. QED
      BY <3>1, <3>2, <3>3
  <2>2. ASSUME NEW n \in DOMAIN rest
        PROVE  /\ Segment(rest[n]) = rest[n]
               /\ rest[n] \notin {Dot, DotDot} /\ (rest[n] # BlankPart => rest[n] \notin Cut)
    <3>1. 3 + n \in 4..Len(i) /\ rest[n] = i[3 + n]
      <4> HIDE DEF rest
      <4>1. QED
        BY <1>1, <1>2, <2>1
    <3>2. rest[n] = BlankPart \/ (rest[n] \in Names /\ Http!Tidy(rest[n]))
      BY <3>1
    <3> HIDE DEF rest
    <3>3. QED
      BY <3>2, Constants DEF Http!Tidy
  <2>3. segments = rest
    <3>1. rest = [n \in DOMAIN rest |-> rest[n]]
      <4> HIDE DEF rest
      <4>1. QED
        BY <1>2
    <3> HIDE DEF rest, Segment
    <3>2. QED
      BY <2>2, <3>1
  <2>4. ends = {}
    BY <2>2, Constants
  <2>5. Http!UrlPath(i) = <<BlankPart>> \o segments
    <3>1. ~ \E n \in DOMAIN segments : segments[n] \in {Dot, DotDot}
      <4> HIDE DEF segments, rest
      <4>1. QED
        BY <2>2, <2>3
    <3>2. Http!Authority(i) + 1 = 4
      BY <1>0
    <3>3. QED
      BY <1>0, <2>1, <2>4, <3>1, <3>2 DEF Http!UrlPath
  <2>6. QED
    BY <2>3, <2>5
<1>4. QED
  BY <1>2, <1>3 DEF rest

\* The path is found where the authority ends, if Url::parse leaves it alone
\* and the authority does not begin like it.
LEMMA PathFound ==
  ASSUME NEW i \in Seq(Parts), Http!IsUrl(i), Len(i) > 3, i[4] \in Names,
         i[3] \notin Cut, i[4] \notin Beginnings[i[3]],
         \A n \in 4..Len(i) :
           i[n] = BlankPart \/ (i[n] \in Names /\ Http!Tidy(i[n]))
  PROVE  /\ Http!path_only(i) = Http!UrlPath(i)
         /\ Http!UrlPath(i) = <<BlankPart>> \o SubSeq(i, 4, Len(i))
<1> DEFINE p == Http!UrlPath(i)
           rest == SubSeq(i, 4, Len(i))
           at == {n \in 1..Len(i) : Http!Occurs(p, i, n)}
<1>1. /\ Len(i) \in Nat /\ i[1] = Scheme /\ i[2] = BlankPart /\ i[3] \in Hosts
      /\ ~Http!IsBare(i)
  BY Constants DEF Http!IsUrl, Http!IsBare
<1>0. Http!Authority(i) = 3 /\ Http!Parses(i)
  BY AuthorityOf
<1>3. p = <<BlankPart>> \o rest
  BY PathOf
<1>2. /\ rest \in Seq(Parts) /\ Len(rest) = Len(i) - 3
      /\ \A k \in 1..Len(i) - 3 : rest[k] = i[3 + k]
  BY PathOf
<1>4. /\ Len(p) = Len(i) - 2
      /\ \A k \in 2..Len(i) - 2 : p[k] = i[2 + k]
  <2>1. PICK b : b = <<BlankPart>>
    OBVIOUS
  <2>2. b \in Seq(Parts) /\ Len(b) = 1
    BY <2>1 DEF Parts
  <2> HIDE DEF rest, p
  <2>3. /\ Len(b \o rest) = Len(b) + Len(rest)
        /\ \A k \in 1 .. Len(b) + Len(rest) :
             (b \o rest)[k] = IF k <= Len(b) THEN b[k] ELSE rest[k - Len(b)]
    BY <1>2, <2>2, ConcatProperties
  <2>4. QED
    BY <1>1, <1>2, <1>3, <2>1, <2>2, <2>3
<1> HIDE DEF p, rest
<1>5. 3 \in at
  <2>1. PICK l \in Nat : l = Len(i) /\ l > 3
    BY <1>1
  <2>2. PICK m \in Nat : m = Len(p) - 1 /\ m = l - 3 /\ m >= 1
    <3>1. Len(p) - 1 = l - 3 /\ l - 3 \in Nat /\ l - 3 >= 1
      BY <1>4, <2>1
    <3>2. QED
      BY <3>1
  <2>3. p[m + 1] = i[3 + m]
    BY <1>4, <2>1, <2>2
  <2>4. 3 + m \in 4..l
    BY <2>1, <2>2
  <2>5. Http!BeginsWith(i[3 + m], p[m + 1])
    BY <2>1, <2>3, <2>4, Constants DEF Http!BeginsWith
  <2>6. \A k \in 1 .. m - 1 : i[3 + k] = p[k + 1]
    BY <1>4, <2>1, <2>2
  <2>7. QED
    BY <2>1, <2>2, <2>5, <2>6 DEF Http!Occurs
<1>6. 1 \notin at /\ 2 \notin at
  <2>1. p[2] = i[4] /\ p[2] # BlankPart /\ p[2] # i[3] /\ p[2] \notin Beginnings[i[3]]
    BY <1>1, <1>4, Constants
  <2>2. ASSUME NEW n \in {1, 2}, Http!Occurs(p, i, n) PROVE FALSE
    <3>1. i[n + 1] # p[2]
      BY <1>1, <2>1, Constants
    <3>2. PICK m \in Nat : m = Len(p) - 1 /\ m >= 1
      <4>1. PICK l \in Nat : l = Len(i) /\ l > 3
        BY <1>1
      <4>2. Len(p) - 1 = l - 3 /\ l - 3 \in Nat /\ l - 3 >= 1
        BY <1>4, <4>1
      <4>3. QED
        BY <4>2
    <3>3. /\ \A k \in 1 .. m - 1 : i[n + k] = p[k + 1]
          /\ Http!BeginsWith(i[n + m], p[m + 1])
      BY <2>2, <3>2 DEF Http!Occurs
    <3>4. CASE m = 1
      <4>1. Http!BeginsWith(i[n + 1], p[2])
        BY <3>3, <3>4
      <4>2. n = 1 \/ n = 2
        OBVIOUS
      <4>3. i[n + 1] = BlankPart \/ i[n + 1] = i[3]
        BY <1>1, <4>2
      <4>4. QED
        BY ONLY <2>1, <4>1, <4>3 DEF Http!BeginsWith
    <3>5. CASE m > 1
      <4>1. 1 \in 1 .. m - 1
        BY <3>2, <3>5
      <4>2. i[n + 1] = p[1 + 1]
        BY <3>3, <4>1
      <4>3. QED
        BY <3>1, <4>2
    <3>6. QED
      BY <3>2, <3>4, <3>5
  <2>3. QED
    BY <2>2
<1>7. Http!Min(at) = 3
  <2>1. at \in SUBSET Int /\ \A n \in at : 3 <= n
    BY <1>6
  <2> HIDE DEF at
  <2>2. QED
    BY <1>5, <2>1, MinIs
<1>8. Http!path_only(i) = <<BlankPart>> \o SubSeq(i, Http!Min(at) + 1, Len(i))
  BY <1>0, <1>1, <1>5 DEF Http!path_only, p
<1>9. Http!path_only(i) = <<BlankPart>> \o rest
  <2>1. Http!Min(at) + 1 = 4
    BY <1>7
  <2>2. QED
    BY <1>8, <2>1 DEF rest
<1>10. QED
  BY <1>3, <1>9 DEF p, rest

\* The short URLs of which path_only leaves part of the authority.
LEMMA PathMissed ==
  ASSUME NEW i \in Seq(Parts), Http!IsUrl(i), Len(i) <= 4, i[3] \notin Cut,
         Len(i) = 4 => i[4] = BlankPart \/ (i[4] \in Names /\ Http!Tidy(i[4]))
  PROVE  /\ Len(i) = 3 \/ i[4] = BlankPart =>
              Http!path_only(i) = <<BlankPart>> \o SubSeq(i, 2, Len(i))
         /\ Len(i) = 4 /\ i[4] \in Names /\ i[4] \in Beginnings[i[3]] =>
              Http!path_only(i) = <<BlankPart>> \o SubSeq(i, 3, Len(i))
<1> DEFINE p == Http!UrlPath(i)
           rest == SubSeq(i, 4, Len(i))
           at == {n \in 1..Len(i) : Http!Occurs(p, i, n)}
<1>1. PICK l \in {3, 4} : l = Len(i)
  <2>1. PICK l : l = Len(i)
    OBVIOUS
  <2>2. l \in Nat /\ l >= 3 /\ l <= 4
    BY <2>1, LenProperties DEF Http!IsUrl
  <2>3. l \in {3, 4}
    BY <2>2
  <2>4. QED
    BY <2>1, <2>3, Zenon
<1>2. i[1] = Scheme /\ i[2] = BlankPart /\ i[3] \in Hosts
  BY DEF Http!IsUrl
<1>3. Http!Authority(i) = 3 /\ Http!Parses(i) /\ ~Http!IsBare(i)
  BY AuthorityOf
<1>4. Len(p) = 2 /\ p[2] = IF l = 3 THEN BlankPart ELSE i[4]
  <2>1. CASE l = 3
    <3>1. rest = <<>>
      BY <1>1, <2>1
    <3>2. p = <<BlankPart>> \o <<BlankPart>>
      BY <1>3, <3>1 DEF Http!UrlPath
    <3>3. QED
      BY <2>1, <3>2
  <2>2. CASE l = 4
    <3>1. /\ p = <<BlankPart>> \o rest /\ rest \in Seq(Parts)
          /\ Len(rest) = 1 /\ rest[1] = i[4]
      <4>1. \A n \in 4..Len(i) :
              i[n] = BlankPart \/ (i[n] \in Names /\ Http!Tidy(i[n]))
        BY <1>1, <2>2
      <4>2. Len(i) > 3 /\ Len(i) - 3 = 1 /\ 1 \in 1..Len(i) - 3 /\ 3 + 1 = 4
        BY <1>1, <2>2
      <4>3. /\ p = <<BlankPart>> \o rest /\ rest \in Seq(Parts)
            /\ Len(rest) = Len(i) - 3
            /\ \A k \in 1..Len(i) - 3 : rest[k] = i[3 + k]
        BY <4>1, <4>2, PathOf
      <4> HIDE DEF p, rest
      <4>4. QED
        BY <4>2, <4>3
    <3>2. PICK b : b = <<BlankPart>>
      OBVIOUS
    <3>3. b \in Seq(Parts) /\ Len(b) = 1
      BY <3>2 DEF Parts
    <3> HIDE DEF p, rest
    <3>4. /\ Len(b \o rest) = Len(b) + Len(rest)
          /\ \A k \in 1 .. Len(b) + Len(rest) :
               (b \o rest)[k] = IF k <= Len(b) THEN b[k] ELSE rest[k - Len(b)]
      BY <3>1, <3>3, ConcatProperties
    <3>5. QED
      BY <2>2, <3>1, <3>2, <3>3, <3>4
  <2>3. QED
    BY <1>1, <2>1, <2>2
<1> HIDE DEF p, rest
<1>5. \A n \in 1..l : n \in at <=> n + 1 <= l /\ Http!BeginsWith(i[n + 1], p[2])
  BY <1>1, <1>4 DEF Http!Occurs
<1>6. ASSUME NEW n \in 1..2, n \in at, n = 2 => 1 \notin at
      PROVE  Http!path_only(i) = <<BlankPart>> \o SubSeq(i, n + 1, Len(i))
  <2>1. at \in SUBSET Int /\ \A m \in at : n <= m
    BY <1>1, <1>6
  <2>2. Http!path_only(i) = <<BlankPart>> \o SubSeq(i, Http!Min(at) + 1, Len(i))
    BY <1>3, <1>6 DEF Http!path_only, p
  <2> HIDE DEF at
  <2>3. Http!Min(at) = n
    BY <1>6, <2>1, MinIs
  <2>4. QED
    BY <2>2, <2>3
<1> HIDE DEF at
<1>7. ASSUME Len(i) = 3 \/ i[4] = BlankPart
      PROVE  Http!path_only(i) = <<BlankPart>> \o SubSeq(i, 2, Len(i))
  <2>1. p[2] = BlankPart
    BY <1>1, <1>4, <1>7
  <2>2. 1 \in at
    BY <1>1, <1>5, <2>1 DEF Http!BeginsWith
  <2>3. QED
    BY <1>6, <2>2
<1>8. ASSUME Len(i) = 4, i[4] \in Names, i[4] \in Beginnings[i[3]]
      PROVE  Http!path_only(i) = <<BlankPart>> \o SubSeq(i, 3, Len(i))
  <2>1. p[2] = i[4] /\ i[4] # BlankPart /\ i[3] # BlankPart
    BY <1>1, <1>2, <1>4, <1>8, Constants
  <2>2. 2 \in at /\ 1 \notin at
    BY <1>1, <1>2, <1>5, <1>8, <2>1 DEF Http!BeginsWith
  <2>3. QED
    BY <1>6, <2>2
<1>9. QED
  BY <1>7, <1>8

(***************************************************************************)
(* Of whatever as_container, as_document, parent and join make: parent and *)
(* join are inverse below the authority or root, and path_only cuts a URL  *)
(* at the end of its authority, if Url::parse leaves its path alone and    *)
(* the host does not begin with its first segment; of short URLs where     *)
(* these fail it leaves part of the authority, as IdentifiersRelate says.  *)
(***************************************************************************)
THEOREM IdentifiersRelated == Spec => []IdentifiersRelate
<1>1. Init => IdInv
  BY InitIdInv DEF Init
<1>2. IdInv /\ [Next]_vars => IdInv'
  <2>1. IdInv /\ UNCHANGED id => IdInv'
    BY DEF IdInv, Trimmed, Extended, Parts, Base, Http!IsUrl
  <2>2. QED
    BY <2>1, StepIdInv DEF Next, vars, http_vars, Http!Read
<1>3. IdInv => IdentifiersRelate
  <2> SUFFICES ASSUME IdInv PROVE IdentifiersRelate
    OBVIOUS
  <2>1. PICK d : Trimmed(d) /\ Extended(id, d)
    BY DEF IdInv
  <2>2. PICK i : i = id
    OBVIOUS
  <2>3. Http!as_document(i) = d
    BY <2>1, <2>2, AsDocument
  <2>4. d \in Seq(Parts) /\ Len(d) \in Nat
    BY <2>1 DEF Trimmed
  <2>5. ASSUME Http!HasSegment(i)
        PROVE  /\ Http!is_container(Http!parent(i))
               /\ Http!join(Http!parent(i), Http!Last(d)) = d
    <3>1. Len(d) > 1 /\ ~(Http!IsUrl(d) /\ Len(d) = 3)
      <4>1. CASE Http!IsBare(i) /\ Len(d) > 1
        <5>1. d[1] = BlankPart
          BY <2>1, <2>2, <4>1, SameKind DEF Http!IsBare
        <5>2. QED
          BY <4>1, <5>1, Constants DEF Http!IsUrl
      <4>2. CASE Http!IsUrl(i) /\ Len(d) > 3
        <5>1. PICK l : l = Len(d)
          OBVIOUS
        <5>2. l \in Nat
          BY <2>4, <5>1, Zenon
        <5>3. l > 3
          BY <4>2, <5>1, Zenon
        <5>4. l > 1 /\ l # 3
          BY <5>2, <5>3
        <5>5. QED
          BY <4>2, <5>1, <5>4, Zenon
      <4>3. QED
        BY <2>3, <2>5, <4>1, <4>2 DEF Http!HasSegment
    <3> DEFINE f == Http!Front(d)
               p == f \o <<BlankPart, BlankPart>>
    <3>2. /\ p \in Seq(Parts) /\ Len(p) = Len(d) + 1 /\ p[Len(p)] = BlankPart
          /\ Trimmed(f) /\ Extended(p, f) /\ Append(f, d[Len(d)]) = d
      BY <2>1, <3>1, ParentOf
    <3>3. Http!parent(i) = p
      BY <2>3 DEF Http!parent
    <3> HIDE DEF f, p
    <3>4. Http!is_container(p)
      BY <2>4, <3>1, <3>2 DEF Http!is_container, Http!Last
    <3>5. Http!as_document(p) = f
      BY <3>2, AsDocument
    <3>6. QED
      BY <3>2, <3>3, <3>4, <3>5 DEF Http!join, Http!Last
  <2>6. ASSUME Http!IsUrl(i), Http!HasSegment(i), i[3] \notin Cut,
               \A n \in 4..Len(i) : i[n] = BlankPart \/ Http!Tidy(i[n]),
               i[4] \notin Beginnings[i[3]]
        PROVE  /\ Http!path_only(i) = Http!UrlPath(i)
               /\ Http!UrlPath(i) = <<BlankPart>> \o SubSeq(i, 4, Len(i))
    <3>1. Len(d) > 3
      BY <2>3, <2>6, Constants DEF Http!HasSegment, Http!IsBare, Http!IsUrl
    <3>2. Http!IsUrl(d)
      BY <2>1, <2>2, <2>6, SameKind
    <3>3. /\ i \in Seq(Parts) /\ Len(i) \in Nat /\ Len(i) >= Len(d)
          /\ i[4] = d[4] /\ d[4] \in Names
      BY <2>1, <2>2, <2>4, <3>1, <3>2 DEF Extended, Trimmed, Base
    <3>4. Len(i) > 3
      BY <2>4, <3>1, <3>3
    <3>5. ASSUME NEW n \in 4..Len(i)
          PROVE  i[n] = BlankPart \/ (i[n] \in Names /\ Http!Tidy(i[n]))
      <4>1. n \in 1..Len(d) => i[n] = d[n] /\ d[n] \in Names
        BY <2>1, <2>2, <2>4, <3>2 DEF Extended, Trimmed, Base
      <4>2. n \notin 1..Len(d) => i[n] = BlankPart
        <5>1. n \notin 1..Len(d) => n \in Len(d) + 1 .. Len(i)
          BY <2>4, <3>3
        <5>2. QED
          BY <2>1, <2>2, <5>1 DEF Extended
      <4>3. QED
        BY <2>6, <4>1, <4>2
    <3>6. QED
      BY <2>6, <3>3, <3>4, <3>5, PathFound
  <2>7. ASSUME Http!IsUrl(i), Len(i) <= 4, i[3] \notin Cut
        PROVE  /\ ~Http!HasSegment(i) =>
                    Http!path_only(i) = <<BlankPart>> \o SubSeq(i, 2, Len(i))
               /\ Http!HasSegment(i) /\ Http!Tidy(i[4]) /\ i[4] \in Beginnings[i[3]] =>
                    Http!path_only(i) = <<BlankPart>> \o SubSeq(i, 3, Len(i))
    <3>1. Http!IsUrl(d)
      BY <2>1, <2>2, <2>7, SameKind
    <3>2. /\ i \in Seq(Parts) /\ ~Http!IsBare(i)
          /\ Len(d) <= Len(i) /\ Len(i) \in Nat
      BY <2>1, <2>2, <2>7, Constants DEF Extended, Http!IsBare, Http!IsUrl
    <3>3. PICK l, m : l = Len(i) /\ m = Len(d)
      OBVIOUS
    <3>4. l \in Nat /\ m \in Nat /\ 3 <= m /\ m <= l /\ l <= 4
      BY <2>4, <2>7, <3>1, <3>2, <3>3 DEF Http!IsUrl
    <3>5. Http!HasSegment(i) <=> m > 3
      BY <2>3, <2>7, <3>2, <3>3 DEF Http!HasSegment
    <3>6. CASE m = 3
      <4>1. l = 3 \/ i[4] = BlankPart
        <5>1. l = 3 \/ 4 \in m + 1 .. l
          BY <3>4, <3>6
        <5>2. QED
          BY <2>1, <2>2, <3>3, <5>1 DEF Extended
      <4>2. Len(i) = 3 \/ i[4] = BlankPart
        BY <3>3, <4>1, Zenon
      <4>3. Len(i) = 4 => Len(i) # 3
        OBVIOUS
      <4>4. Len(i) = 4 => i[4] = BlankPart
        BY <4>2, <4>3, Zenon
      <4>5. Http!path_only(i) = <<BlankPart>> \o SubSeq(i, 2, Len(i))
        BY <2>7, <3>2, <4>2, <4>4, PathMissed
      <4>6. ~Http!HasSegment(i)
        BY <3>5, <3>6
      <4>7. QED
        BY <4>5, <4>6, Zenon
    <3>7. CASE m = 4
      <4>1. l = 4
        BY <3>4, <3>7
      <4>2. i[4] = d[4] /\ d[4] \in Names
        <5>1. 4 \in 1..m /\ 4 \in 3 + 1 .. m
          BY <3>7
        <5>2. QED
          BY <2>1, <2>2, <3>1, <3>3, <5>1 DEF Extended, Trimmed, Base
      <4>3. Http!Tidy(i[4]) /\ i[4] \in Beginnings[i[3]] =>
              Http!path_only(i) = <<BlankPart>> \o SubSeq(i, 3, Len(i))
        BY <2>7, <3>2, <3>3, <4>1, <4>2, PathMissed
      <4>4. QED
        BY <3>5, <3>7, <4>3
    <3>8. m = 3 \/ m = 4
      BY <3>4
    <3>9. QED
      BY <3>6, <3>7, <3>8, Zenon
  <2>8. QED
    BY <2>2, <2>3, <2>5, <2>6, <2>7 DEF IdentifiersRelate, Http!IdentifiersRelate
<1>4. QED
  BY <1>1, <1>2, <1>3, PTL DEF Spec

\* Http comes with the same definitions of its own.
LEMMA SameCardinality == \A S : Http!Cardinality(S) = Cardinality(S)
BY DEF Http!Cardinality, Cardinality

LEMMA SameBijection == \A S, T : Http!Bijection(S, T) = Bijection(S, T)
BY DEF Http!Bijection, Http!Injection, Http!IsInjective, Http!Surjection,
       Bijection, Injection, IsInjective, Surjection

-----------------------------------------------------------------------------
(*                              Preferences                                *)

Quality == Int \cup {NaN}
Ranges  == [media_type: MediaTypes, q: Quality]

\* The ranges of the first k parts of a header, and where each is ranked if
\* every q is a number.
Named(h, k) == {n \in 1..k : h[n].media_type # BlankPart}
Before(h, m, n) ==
  LET q(i) == Http!MediaRange(h[i]).q IN q(m) > q(n) \/ (q(m) = q(n) /\ m < n)
Place(h, k, n) == Cardinality({m \in Named(h, k) : Before(h, m, n)}) + 1
NumbersOnly(h, k) == \A n \in Named(h, k) : Http!MediaRange(h[n]).q # NaN

Listing(rs, h, k) ==
  \E place \in Bijection(Named(h, k), 1..Len(rs)) :
    \A n \in Named(h, k) : rs[place[n]] = Http!MediaRange(h[n])

Ranking(rs, h, k) ==
  /\ rs \in Seq(Ranges)
  /\ Listing(rs, h, k)
  /\ NumbersOnly(h, k) =>
       \A n \in Named(h, k) : rs[Place(h, k, n)] = Http!MediaRange(h[n])

LEMMA Weighed ==
  ASSUME NEW h \in Seq(Http!Part), NEW n \in 1..Len(h)
  PROVE  /\ Http!MediaRange(h[n]).q \in Quality
         /\ Http!MediaRange(h[n]).media_type = h[n].media_type
         /\ h[n].media_type # BlankPart => Http!MediaRange(h[n]) \in Ranges
<1>1. h[n] \in Http!Part
  BY ElementOfSeq
<1>2. /\ Weights \subseteq Int /\ NaN \notin Int
      /\ {NoWeight, Unparsable} \cap (Int \cup {NaN}) = {}
  BY LibraryAssumption DEF Http!Distinct
<1>3. Http!MediaRange(h[n]).q \in Quality
  <2>1. h[n].q \in Weights \cup {NoWeight, Unparsable, NaN}
    BY <1>1 DEF Http!Part
  <2>2. CASE h[n].q \in {NoWeight, Unparsable}
    BY <2>2 DEF Http!MediaRange, Quality
  <2>3. CASE h[n].q = NaN
    BY <1>2, <2>3 DEF Http!MediaRange, Http!Clamp, Quality
  <2>4. CASE h[n].q \in Weights
    <3>1. h[n].q \in Int /\ h[n].q # NaN /\ h[n].q \notin {NoWeight, Unparsable}
      BY <1>2, <2>4
    <3>2. QED
      BY <3>1 DEF Http!MediaRange, Http!Clamp, Quality
  <2>5. QED
    BY <2>1, <2>2, <2>3, <2>4
<1>4. QED
  BY <1>1, <1>3 DEF Http!Part, Http!MediaRange, Ranges

LEMMA NamedFinite ==
  ASSUME NEW h, NEW k \in Nat
  PROVE  /\ IsFiniteSet(Named(h, k)) /\ Cardinality(Named(h, k)) \in Nat
         /\ Named(h, k) \subseteq 1..k
<1>1. 1 \in Int /\ k \in Int /\ Named(h, k) \in SUBSET (1..k)
  BY DEF Named
<1>2. IsFiniteSet(Named(h, k))
  BY <1>1, FS_Interval, FS_Subset
<1>3. QED
  BY <1>1, <1>2, FS_CardinalityType

\* Before is a strict total order of numbers, so the places are those of a
\* sequence.
LEMMA Ordered ==
  ASSUME NEW h \in Seq(Http!Part), NEW k \in 0..Len(h), NumbersOnly(h, k),
         NEW m \in Named(h, k), NEW n \in Named(h, k)
  PROVE  /\ ~Before(h, n, n)
         /\ m # n => Before(h, m, n) \/ Before(h, n, m)
         /\ \A l \in Named(h, k) :
              Before(h, l, m) /\ Before(h, m, n) => Before(h, l, n)
<1>1. \A l \in Named(h, k) : l \in Nat /\ Http!MediaRange(h[l]).q \in Int
  <2>1. ASSUME NEW l \in Named(h, k)
        PROVE  l \in Nat /\ Http!MediaRange(h[l]).q \in Int
    <3>1. PICK e \in Nat : e = Len(h)
      BY LenProperties
    <3>2. l \in 1..Len(h)
      BY <3>1 DEF Named
    <3>3. Http!MediaRange(h[l]).q \in Quality
      BY <3>2, Weighed
    <3>4. QED
      BY <3>2, <3>3 DEF NumbersOnly, Quality
  <2>2. QED
    BY <2>1
<1>2. PICK a \in Int, b \in Int :
        a = Http!MediaRange(h[m]).q /\ b = Http!MediaRange(h[n]).q
  BY <1>1
<1>3. ASSUME NEW l \in Named(h, k), Before(h, l, m), Before(h, m, n)
      PROVE  Before(h, l, n)
  <2>1. PICK c \in Int : c = Http!MediaRange(h[l]).q
    BY <1>1
  <2>2. l \in Int /\ m \in Int /\ n \in Int
    BY <1>1
  <2>3. QED
    BY <1>2, <1>3, <2>1, <2>2 DEF Before
<1>4. m \in Int /\ n \in Int
  BY <1>1
<1>5. QED
  BY <1>2, <1>3, <1>4 DEF Before

LEMMA Places ==
  ASSUME NEW h \in Seq(Http!Part), NEW k \in 0..Len(h), NumbersOnly(h, k)
  PROVE  [n \in Named(h, k) |-> Place(h, k, n)]
           \in Bijection(Named(h, k), 1..Cardinality(Named(h, k)))
<1> DEFINE N == Named(h, k)
           Ahead(n) == {m \in N : Before(h, m, n)}
           place == [n \in N |-> Place(h, k, n)]
<1>1. /\ k \in Nat /\ N \subseteq 1..Len(h) /\ IsFiniteSet(N)
      /\ Cardinality(N) \in Nat
  <2>1. PICK l \in Nat : l = Len(h)
    BY LenProperties
  <2>2. k \in Nat /\ 1..k \subseteq 1..Len(h)
    BY <2>1
  <2>3. QED
    BY <2>2, NamedFinite
<1>2. \A m, n \in N : /\ ~Before(h, n, n)
                      /\ m # n => Before(h, m, n) \/ Before(h, n, m)
                      /\ \A l \in N :
                           Before(h, l, m) /\ Before(h, m, n) => Before(h, l, n)
  BY Ordered
<1> HIDE DEF N
<1>3. ASSUME NEW n \in N
      PROVE  /\ IsFiniteSet(Ahead(n)) /\ Cardinality(Ahead(n)) \in Nat
             /\ Cardinality(Ahead(n)) < Cardinality(N)
             /\ Place(h, k, n) = Cardinality(Ahead(n)) + 1
  <2>1. Ahead(n) \in SUBSET N /\ n \notin Ahead(n)
    BY <1>2
  <2>2. /\ IsFiniteSet(Ahead(n)) /\ Cardinality(Ahead(n)) <= Cardinality(N)
        /\ Cardinality(Ahead(n)) # Cardinality(N)
    BY <1>1, <2>1, FS_Subset
  <2>3. Cardinality(Ahead(n)) \in Nat
    BY <2>2, FS_CardinalityType
  <2>4. Place(h, k, n) = Cardinality(Ahead(n)) + 1
    BY DEF Place, N
  <2>5. QED
    BY <1>1, <2>2, <2>3, <2>4
<1>4. ASSUME NEW m \in N, NEW n \in N, Before(h, m, n)
      PROVE  Place(h, k, m) < Place(h, k, n)
  <2>1. Ahead(m) \in SUBSET Ahead(n)
    BY <1>4, <1>2
  <2>2. m \in Ahead(n) /\ m \notin Ahead(m)
    BY <1>4, <1>2
  <2>3. /\ Cardinality(Ahead(m)) <= Cardinality(Ahead(n))
        /\ Cardinality(Ahead(m)) # Cardinality(Ahead(n))
    BY <1>3, <2>1, <2>2, FS_Subset
  <2>4. PICK a \in Nat, b \in Nat : a = Cardinality(Ahead(m)) /\ b = Cardinality(Ahead(n))
    BY <1>3
  <2>5. Place(h, k, m) = a + 1 /\ Place(h, k, n) = b + 1
    BY <1>3, <2>4
  <2>6. QED
    BY <2>3, <2>4, <2>5
<1>5. place \in Injection(N, 1..Cardinality(N))
  <2>1. ASSUME NEW n \in N PROVE Place(h, k, n) \in 1..Cardinality(N)
    <3>1. PICK a \in Nat, c \in Nat : a = Cardinality(Ahead(n)) /\ c = Cardinality(N)
      BY <1>1, <1>3
    <3>2. a < c /\ Place(h, k, n) = a + 1
      BY <1>3, <3>1
    <3>3. QED
      BY <3>1, <3>2
  <2>2. ASSUME NEW m \in N, NEW n \in N, m # n
        PROVE  Place(h, k, m) # Place(h, k, n)
    <3>1. Before(h, m, n) \/ Before(h, n, m)
      BY <1>2, <2>2
    <3>2. Place(h, k, m) < Place(h, k, n) \/ Place(h, k, n) < Place(h, k, m)
      BY <1>4, <3>1
    <3>3. Place(h, k, m) \in Int /\ Place(h, k, n) \in Int
      BY <2>1
    <3>4. QED
      BY <3>2, <3>3
  <2>3. QED
    BY <2>1, <2>2 DEF Injection, IsInjective
<1>6. /\ IsFiniteSet(1..Cardinality(N))
      /\ Cardinality(1..Cardinality(N)) = Cardinality(N)
  <2>1. PICK c \in Nat : c = Cardinality(N)
    BY <1>1
  <2>2. 1 \in Int /\ c \in Int
    OBVIOUS
  <2>3. IsFiniteSet(1..c) /\ Cardinality(1..c) = IF 1 > c THEN 0 ELSE c - 1 + 1
    BY <2>2, FS_Interval
  <2>4. QED
    BY <2>1, <2>3
<1>7. place \in Surjection(N, 1..Cardinality(N))
  BY <1>5, <1>6, FS_Injection
<1>8. QED
  BY <1>5, <1>7 DEF Bijection, N

\* The library's theorems about recursive functions take an operator.  This
\* is the equation of the one function, from a shortest header without it.
LEMMA CollectedIs ==
  ASSUME NEW h, NEW l \in Nat, l = Len(h)
  PROVE  \E f : /\ f[0] = <<>> /\ Http!Collected(h) = f[l]
                /\ \A n \in 1..l :
                     f[n] = IF h[n].media_type = BlankPart THEN f[n - 1]
                            ELSE Http!Ranked(f[n - 1], Http!MediaRange(h[n]))
<1> DEFINE Step(g, n) ==
             IF n = 0 THEN <<>>
             ELSE IF h[n].media_type = BlankPart THEN g[n - 1]
             ELSE Http!Ranked(g[n - 1], Http!MediaRange(h[n]))
           Has(k) == \E g : g = [n \in 0..k |-> Step(g, n)]
           lacking == {k \in Nat : ~Has(k)}
<1>1. Has(0)
  <2>1. PICK g : g = [n \in 0..0 |-> <<>>]
    OBVIOUS
  <2>2. \A n \in 0..0 : Step(g, n) = <<>>
    OBVIOUS
  <2>3. g = [n \in 0..0 |-> Step(g, n)]
    BY <2>1, <2>2
  <2>4. QED
    BY <2>3
<1>2. ASSUME NEW k \in Nat, Has(k) PROVE Has(k + 1)
  <2>1. PICK g : g = [n \in 0..k |-> Step(g, n)]
    BY <1>2
  <2>2. PICK e : e = [n \in 0..k + 1 |-> IF n = k + 1 THEN Step(g, k + 1) ELSE g[n]]
    OBVIOUS
  <2>3. ASSUME NEW n \in 0..k + 1 PROVE e[n] = Step(e, n)
    <3>1. n # 0 => n - 1 \in 0..k /\ n - 1 \in 0..k + 1 /\ n - 1 # k + 1
      OBVIOUS
    <3>2. n # 0 => e[n - 1] = g[n - 1]
      BY <2>2, <3>1
    <3>3. Step(e, n) = Step(g, n)
      BY <3>2
    <3>4. CASE n = k + 1
      BY <2>2, <3>3, <3>4
    <3>5. CASE n # k + 1
      <4>1. n \in 0..k
        BY <3>5
      <4>2. e[n] = g[n]
        BY <2>2, <3>5
      <4>3. g[n] = Step(g, n)
        <5> HIDE DEF Step
        <5>1. QED
          BY <2>1, <4>1
      <4>4. QED
        BY <3>3, <4>2, <4>3
    <3>6. QED
      BY <3>4, <3>5
  <2>4. e = [n \in 0..k + 1 |-> Step(e, n)]
    <3> HIDE DEF Step
    <3>1. e = [n \in 0..k + 1 |-> e[n]]
      BY <2>2
    <3>2. QED
      BY <2>3, <3>1
  <2>5. QED
    BY <2>4
<1>3. Has(l)
  <2> HIDE DEF Has
  <2>1. SUFFICES ASSUME lacking # {} PROVE FALSE
    OBVIOUS
  <2>2. PICK k \in lacking : \A j \in lacking : k <= j
    BY <2>1, Least
  <2>3. k \in Nat /\ k # 0
    BY <1>1
  <2>4. PICK j \in Nat : k = j + 1
    <3>1. k - 1 \in Nat /\ k = (k - 1) + 1
      BY <2>3
    <3>2. QED
      BY <3>1
  <2>5. j \notin lacking
    BY <2>2, <2>4
  <2>6. QED
    BY <1>2, <2>4, <2>5
<1> DEFINE f == CHOOSE g : g = [n \in 0..l |-> Step(g, n)]
<1>4. f = [n \in 0..l |-> Step(f, n)]
  <2> HIDE DEF Step
  <2>1. QED
    BY <1>3
<1>5. Http!Collected(h) = f[l]
  BY DEF Http!Collected
<1>6. \A n \in 0..l : f[n] = Step(f, n)
  <2> HIDE DEF Step, f
  <2>1. QED
    BY <1>4
<1> HIDE DEF f
<1>7. f[0] = <<>>
  BY <1>6
<1>8. ASSUME NEW n \in 1..l
      PROVE  f[n] = IF h[n].media_type = BlankPart THEN f[n - 1]
                    ELSE Http!Ranked(f[n - 1], Http!MediaRange(h[n]))
  BY <1>6
<1>9. QED
  BY <1>5, <1>7, <1>8

\* t is s with r in it behind the first p; what stands there moves up by one.
Grown(t, s, r, p) ==
  /\ t \in Seq(Ranges) /\ Len(t) = Len(s) + 1 /\ t[p + 1] = r
  /\ \A i \in 1..p : t[i] = s[i]
  /\ \A i \in p + 1 .. Len(s) : t[i + 1] = s[i]

LEMMA Inserted ==
  ASSUME NEW s \in Seq(Ranges), NEW r \in Ranges, NEW p \in 0..Len(s)
  PROVE  Grown(Http!InsertAt(s, p + 1, r), s, r, p)
<1>1. PICK c \in Nat : c = Len(s)
  BY LenProperties
<1>2. PICK t : t = Http!InsertAt(s, p + 1, r)
  OBVIOUS
<1>3. s \in Seq(Ranges) /\ r \in Ranges /\ Len(s) = c
  BY <1>1
<1>4. p \in Nat /\ c \in Nat /\ p <= c /\ (p + 1) - 1 = p
  BY <1>1
<1> DEFINE a == SubSeq(s, 1, p)
           z == SubSeq(s, p + 1, c)
<1>5. a \in Seq(Ranges) /\ Len(a) = p /\ \A i \in 1..p : a[i] = s[i]
  <2>1. \A i \in 1..p : s[i] \in Ranges
    BY <1>3, <1>4, ElementOfSeq
  <2>2. 1 \in Int /\ p \in Int
    BY <1>4
  <2>3. /\ a \in Seq(Ranges) /\ Len(a) = IF 1 <= p THEN p - 1 + 1 ELSE 0
        /\ \A i \in 1 .. p - 1 + 1 : a[i] = s[1 + i - 1]
    BY <2>1, <2>2, SubSeqProperties
  <2>4. p - 1 + 1 = p /\ \A i \in 1..p : 1 + i - 1 = i
    BY <1>4
  <2>5. QED
    BY <1>4, <2>3, <2>4
<1>6. /\ z \in Seq(Ranges) /\ Len(z) = c - p
      /\ \A i \in 1 .. c - p : z[i] = s[p + i]
  <2>1. \A i \in p + 1 .. c : s[i] \in Ranges
    BY <1>3, <1>4, ElementOfSeq
  <2>2. p + 1 \in Int /\ c \in Int
    BY <1>4
  <2>3. /\ z \in Seq(Ranges) /\ Len(z) = IF p + 1 <= c THEN c - (p + 1) + 1 ELSE 0
        /\ \A i \in 1 .. c - (p + 1) + 1 : z[i] = s[p + 1 + i - 1]
    BY <2>1, <2>2, SubSeqProperties
  <2>4. /\ c - (p + 1) + 1 = c - p /\ (~(p + 1 <= c) => c - p = 0)
        /\ \A i \in 1 .. c - p : p + 1 + i - 1 = p + i
    BY <1>4
  <2>5. QED
    BY <2>3, <2>4
<1>7. t = a \o <<r>> \o z
  <2>1. t = SubSeq(s, 1, (p + 1) - 1) \o <<r>> \o SubSeq(s, p + 1, Len(s))
    BY <1>2 DEF Http!InsertAt
  <2>2. QED
    BY <1>3, <1>4, <2>1
<1> HIDE DEF a, z
<1>8. PICK b : b = a \o <<r>>
  OBVIOUS
<1>9. /\ b \in Seq(Ranges) /\ Len(b) = p + 1 /\ b[p + 1] = r
      /\ \A i \in 1..p : b[i] = s[i]
  <2>1. <<r>> \in Seq(Ranges) /\ Len(<<r>>) = 1 /\ <<r>>[1] = r
    BY <1>3
  <2>2. /\ b \in Seq(Ranges) /\ Len(b) = Len(a) + Len(<<r>>)
        /\ \A i \in 1 .. Len(a) + Len(<<r>>) :
             b[i] = IF i <= Len(a) THEN a[i] ELSE <<r>>[i - Len(a)]
    BY <1>5, <1>8, <2>1, ConcatProperties
  <2>3. \A i \in 1 .. p + 1 : b[i] = IF i <= p THEN a[i] ELSE <<r>>[i - p]
    BY <1>5, <2>1, <2>2
  <2>4. p + 1 \in 1 .. p + 1 /\ ~(p + 1 <= p) /\ p + 1 - p = 1
    BY <1>4
  <2>5. \A i \in 1..p : i \in 1 .. p + 1 /\ i <= p
    BY <1>4
  <2>6. QED
    BY <1>5, <2>1, <2>2, <2>3, <2>4, <2>5
<1>10. t = b \o z
  BY <1>7, <1>8
<1>11. /\ t \in Seq(Ranges) /\ Len(t) = Len(b) + Len(z)
      /\ \A i \in 1 .. Len(b) + Len(z) :
           t[i] = IF i <= Len(b) THEN b[i] ELSE z[i - Len(b)]
  <2>1. PICK d : d = b \o z
    OBVIOUS
  <2>2. /\ d \in Seq(Ranges) /\ Len(d) = Len(b) + Len(z)
        /\ \A i \in 1 .. Len(b) + Len(z) :
             d[i] = IF i <= Len(b) THEN b[i] ELSE z[i - Len(b)]
    BY <1>6, <1>9, <2>1, ConcatProperties
  <2>3. QED
    BY <1>10, <2>1, <2>2, Zenon
<1>12. Len(b) = p + 1 /\ Len(b) + Len(z) = c + 1
  <2>1. p + 1 + (c - p) = c + 1
    BY <1>4
  <2>2. QED
    BY <1>6, <1>9, <2>1
<1>13. t[p + 1] = r /\ \A i \in 1..p : t[i] = s[i]
  <2>1. \A i \in 1 .. c + 1 : i <= p + 1 => t[i] = b[i]
    BY <1>11, <1>12
  <2>2. \A i \in 1 .. p + 1 : i \in 1 .. c + 1 /\ i <= p + 1
    BY <1>4
  <2>3. p + 1 \in 1 .. p + 1 /\ \A i \in 1..p : i \in 1 .. p + 1
    BY <1>4
  <2>4. QED
    BY <1>9, <2>1, <2>2, <2>3
<1>14. ASSUME NEW i \in p + 1 .. c PROVE t[i + 1] = s[i]
  <2>1. /\ i + 1 \in 1 .. c + 1 /\ ~(i + 1 <= p + 1)
        /\ (i + 1) - (p + 1) \in 1 .. c - p /\ p + ((i + 1) - (p + 1)) = i
    BY <1>4
  <2>2. t[i + 1] = z[(i + 1) - (p + 1)]
    BY <1>11, <1>12, <2>1
  <2>3. QED
    BY <1>6, <2>1, <2>2
<1>15. QED
  BY <1>1, <1>2, <1>11, <1>12, <1>13, <1>14 DEF Grown

\* One more part: those better than it keep their places, the others go one
\* further back.
LEMMA PlacesOneMore ==
  ASSUME NEW h \in Seq(Http!Part), NEW k \in Nat, NEW j \in 1..Len(h),
         j = k + 1, h[j].media_type # BlankPart, NumbersOnly(h, j)
  PROVE  \E p \in 0..Cardinality(Named(h, k)) :
           /\ Place(h, j, j) = p + 1
           /\ \A n \in Named(h, k) :
                IF Before(h, n, j)
                THEN Place(h, k, n) \in 1..p /\ Place(h, j, n) = Place(h, k, n)
                ELSE /\ Place(h, k, n) \in p + 1 .. Cardinality(Named(h, k))
                     /\ Place(h, j, n) = Place(h, k, n) + 1
<1> DEFINE N == Named(h, k)
           Ahead(n) == {m \in N : Before(h, m, n)}
<1>1. /\ IsFiniteSet(N) /\ Cardinality(N) \in Nat /\ j \notin N
      /\ k \in 0..Len(h) /\ j \in 0..Len(h)
  <2>1. PICK l \in Nat : l = Len(h)
    BY LenProperties
  <2>2. k \in 0..l /\ j \in 0..l /\ j \notin 1..k
    BY <2>1
  <2>3. QED
    BY <2>1, <2>2, NamedFinite
<1>2. Named(h, j) = N \cup {j}
  <2>1. 1..j = 1..k \cup {j}
    BY <1>1
  <2>2. QED
    BY <2>1 DEF Named
<1>3. NumbersOnly(h, k)
  BY <1>2 DEF NumbersOnly
<1>4. \A m, n \in N \cup {j} :
        /\ ~Before(h, n, n)
        /\ m # n => Before(h, m, n) \/ Before(h, n, m)
        /\ \A l \in N \cup {j} : Before(h, l, m) /\ Before(h, m, n) => Before(h, l, n)
  BY <1>1, <1>2, Ordered
<1>5. \A n \in N : Place(h, k, n) \in 1..Cardinality(N)
  BY <1>1, <1>3, Places DEF Bijection, Injection
<1> HIDE DEF N
<1>6. \A n : IsFiniteSet(Ahead(n)) /\ Cardinality(Ahead(n)) \in Nat
  <2>1. \A n : Ahead(n) \in SUBSET N
    OBVIOUS
  <2>2. \A n : IsFiniteSet(Ahead(n))
    BY <1>1, <2>1, FS_Subset
  <2>3. QED
    BY <2>2, FS_CardinalityType
<1>7. \A n : Place(h, k, n) = Cardinality(Ahead(n)) + 1
  BY DEF Place, N
<1>8. PICK p \in Nat : p = Cardinality(Ahead(j))
  BY <1>6
<1>9. PICK c \in Nat : c = Cardinality(N)
  BY <1>1
<1>10. p \in 0..c
  <2>1. Ahead(j) \in SUBSET N
    OBVIOUS
  <2>2. p <= c
    BY <1>1, <1>8, <1>9, <2>1, FS_Subset
  <2>3. QED
    BY <2>2
<1>11. Place(h, j, j) = p + 1
  <2>1. {m \in Named(h, j) : Before(h, m, j)} = Ahead(j)
    BY <1>2, <1>4
  <2>2. QED
    BY <1>8, <2>1 DEF Place
<1>12. ASSUME NEW n \in N, Before(h, n, j)
       PROVE  Place(h, k, n) \in 1..p /\ Place(h, j, n) = Place(h, k, n)
  <2>1. PICK a \in Nat : a = Cardinality(Ahead(n)) /\ Place(h, k, n) = a + 1
    BY <1>6, <1>7
  <2>2. ~Before(h, j, n)
    BY <1>4, <1>12
  <2>3. {m \in Named(h, j) : Before(h, m, n)} = Ahead(n)
    BY <1>2, <2>2
  <2>4. Place(h, j, n) = a + 1
    BY <2>1, <2>3 DEF Place
  <2>5. Ahead(n) \in SUBSET Ahead(j) /\ n \in Ahead(j) /\ n \notin Ahead(n)
    BY <1>4, <1>12
  <2>6. a <= p /\ a # p
    <3>1. IsFiniteSet(Ahead(j)) /\ Ahead(n) # Ahead(j)
      BY <1>6, <2>5
    <3>2. QED
      BY <1>8, <2>1, <2>5, <3>1, FS_Subset
  <2>7. a + 1 \in 1..p
    BY <2>6
  <2>8. QED
    BY <2>1, <2>4, <2>7
<1>13. ASSUME NEW n \in N, ~Before(h, n, j)
       PROVE  Place(h, k, n) \in p + 1 .. c /\ Place(h, j, n) = Place(h, k, n) + 1
  <2>1. PICK a \in Nat : a = Cardinality(Ahead(n)) /\ Place(h, k, n) = a + 1
    BY <1>6, <1>7
  <2>2. Before(h, j, n)
    BY <1>1, <1>4, <1>13
  <2>3. {m \in Named(h, j) : Before(h, m, n)} = Ahead(n) \cup {j} /\ j \notin Ahead(n)
    BY <1>1, <1>2, <2>2
  <2>4. Cardinality(Ahead(n) \cup {j}) = a + 1
    <3>1. IsFiniteSet(Ahead(n))
      BY <1>6
    <3>2. QED
      BY <2>1, <2>3, <3>1, FS_AddElement
  <2>5. Place(h, j, n) = a + 1 + 1
    BY <2>3, <2>4 DEF Place
  <2>6. Ahead(j) \in SUBSET Ahead(n)
    BY <1>4, <2>2
  <2>7. p <= a
    <3>1. IsFiniteSet(Ahead(n))
      BY <1>6
    <3>2. QED
      BY <1>8, <2>1, <2>6, <3>1, FS_Subset
  <2>8. a + 1 \in 1..c
    BY <1>5, <1>9, <2>1
  <2>9. QED
    BY <2>1, <2>5, <2>7, <2>8
<1>14. QED
  BY <1>9, <1>10, <1>11, <1>12, <1>13 DEF N

\* One more range leaves the ranges listed, and ranked if they are numbers.
LEMMA RankedOneMore ==
  ASSUME NEW h \in Seq(Http!Part), NEW k \in Nat, NEW j \in 1..Len(h),
         j = k + 1, h[j].media_type # BlankPart, NEW s, Ranking(s, h, k)
  PROVE  Ranking(Http!Ranked(s, Http!MediaRange(h[j])), h, j)
<1> DEFINE N == Named(h, k)
<1>1. /\ IsFiniteSet(N) /\ j \notin N /\ k \in 0..Len(h) /\ j \in 0..Len(h)
      /\ \A n \in N : n \in 1..Len(h) /\ n \in Nat /\ n < j
  <2>1. PICK l \in Nat : l = Len(h)
    BY LenProperties
  <2>2. k \in 0..l /\ j \in 0..l /\ \A n \in 1..k : n \in 1..l /\ n \in Nat /\ n < j
    BY <2>1
  <2>3. QED
    BY <2>1, <2>2, NamedFinite
<1>2. Named(h, j) = N \cup {j}
  <2>1. 1..j = 1..k \cup {j}
    BY <1>1
  <2>2. QED
    BY <2>1 DEF Named
<1>3. PICK r : r = Http!MediaRange(h[j]) /\ r \in Ranges
  BY Weighed
<1>4. s \in Seq(Ranges)
  BY DEF Ranking
<1>5. PICK c \in Nat : c = Len(s) /\ DOMAIN s = 1..c
  BY <1>4, LenProperties
<1>6. PICK place \in Bijection(N, 1..c) :
        \A n \in N : s[place[n]] = Http!MediaRange(h[n])
  BY <1>5 DEF Ranking, Listing
<1>7. /\ place \in [N -> 1..c]
      /\ \A m, n \in N : place[m] = place[n] => m = n
      /\ \A i \in 1..c : \E n \in N : place[n] = i
  BY <1>6 DEF Bijection, Injection, IsInjective, Surjection
<1>8. Cardinality(N) = c
  <2>1. IsFiniteSet(1..c) /\ Cardinality(1..c) = c
    <3>1. 1 \in Int /\ c \in Int
      OBVIOUS
    <3>2. IsFiniteSet(1..c) /\ Cardinality(1..c) = IF 1 > c THEN 0 ELSE c - 1 + 1
      BY <3>1, FS_Interval
    <3>3. QED
      BY <3>2
  <2>2. Cardinality(1..c) = Cardinality(N)
    BY <1>1, <1>6, FS_Bijection DEF ExistsBijection
  <2>3. QED
    BY <2>1, <2>2
<1> DEFINE passed == {i \in 1..c : ~Http!Better(r, s[i])}
<1>9. PICK p \in 0..c : p = Http!Max({0} \cup passed)
  <2>1. {0} \cup passed \in SUBSET (0..c) /\ {0} \cup passed # {}
    OBVIOUS
  <2>2. Http!Max({0} \cup passed) \in {0} \cup passed
    BY <2>1, Greatest
  <2>3. QED
    BY <2>1, <2>2
<1>10. PICK t : t = Http!Ranked(s, r)
  OBVIOUS
<1>11. /\ t \in Seq(Ranges) /\ Len(t) = c + 1 /\ t[p + 1] = r
       /\ \A i \in 1..p : t[i] = s[i]
       /\ \A i \in p + 1 .. c : t[i + 1] = s[i]
  <2>1. t = Http!InsertAt(s, p + 1, r)
    <3>1. {i \in DOMAIN s : ~Http!Better(r, s[i])} = passed
      BY <1>5
    <3>2. QED
      BY <1>9, <1>10, <3>1 DEF Http!Ranked
  <2>2. s \in Seq(Ranges) /\ r \in Ranges /\ Len(s) = c
    BY <1>3, <1>4, <1>5
  <2>3. Grown(Http!InsertAt(s, p + 1, r), s, r, p)
    BY <1>5, <1>9, <2>2, Inserted
  <2>4. QED
    BY <1>5, <2>1, <2>3 DEF Grown
<1> HIDE DEF N, passed
<1>12. Listing(t, h, j)
  <2> DEFINE at(n) == IF n = j THEN p + 1
                      ELSE IF place[n] <= p THEN place[n] ELSE place[n] + 1
             f == [n \in N \cup {j} |-> at(n)]
  <2>1. at(j) = p + 1 /\ p + 1 \in 1 .. c + 1
    OBVIOUS
  <2>2. ASSUME NEW n \in N
        PROVE  /\ at(n) \in 1 .. c + 1 /\ at(n) # p + 1
               /\ t[at(n)] = Http!MediaRange(h[n])
    <3>1. place[n] \in 1..c /\ n # j
      BY <1>1, <1>7 DEF N
    <3>2. CASE place[n] <= p
      <4>1. at(n) = place[n] /\ place[n] \in 1..p
        BY <3>1, <3>2
      <4>2. QED
        BY <1>6, <1>11, <3>1, <4>1
    <3>3. CASE ~(place[n] <= p)
      <4>1. at(n) = place[n] + 1 /\ place[n] \in p + 1 .. c
        BY <3>1, <3>3
      <4>2. QED
        BY <1>6, <1>11, <3>1, <4>1
    <3>4. QED
      BY <3>2, <3>3
  <2>3. ASSUME NEW m \in N, NEW n \in N, at(m) = at(n) PROVE m = n
    <3>1. place[m] \in 1..c /\ place[n] \in 1..c /\ m # j /\ n # j
      BY <1>1, <1>7 DEF N
    <3>2. PICK a \in 1..c, b \in 1..c : a = place[m] /\ b = place[n]
      BY <3>1
    <3>3. (IF a <= p THEN a ELSE a + 1) = (IF b <= p THEN b ELSE b + 1)
      BY <2>3, <3>1, <3>2
    <3>4. a = b
      BY <3>3
    <3>5. QED
      BY <1>7, <3>2, <3>4
  <2>4. ASSUME NEW i \in 1 .. c + 1 PROVE \E n \in N \cup {j} : at(n) = i
    <3>1. CASE i = p + 1
      BY <2>1, <3>1
    <3>2. CASE i < p + 1
      <4>1. i \in 1..c /\ i <= p
        BY <3>2
      <4>2. PICK n \in N : place[n] = i
        BY <1>7, <4>1
      <4>3. n # j
        BY <1>1 DEF N
      <4>4. QED
        BY <4>1, <4>2, <4>3
    <3>3. CASE i > p + 1
      <4>1. i - 1 \in 1..c /\ ~(i - 1 <= p) /\ (i - 1) + 1 = i
        BY <3>3
      <4>2. PICK n \in N : place[n] = i - 1
        BY <1>7, <4>1
      <4>3. n # j
        BY <1>1 DEF N
      <4>4. QED
        BY <4>1, <4>2, <4>3
    <3>4. QED
      BY <3>1, <3>2, <3>3
  <2> HIDE DEF at
  <2>5. f \in Bijection(N \cup {j}, 1 .. c + 1)
    <3>1. f \in [N \cup {j} -> 1 .. c + 1]
      BY <2>1, <2>2
    <3>2. \A m, n \in N \cup {j} : f[m] = f[n] => m = n
      BY <2>1, <2>2, <2>3
    <3>3. \A i \in 1 .. c + 1 : \E n \in N \cup {j} : f[n] = i
      BY <2>4
    <3> HIDE DEF f
    <3>4. QED
      BY <3>1, <3>2, <3>3 DEF Bijection, Injection, IsInjective, Surjection
  <2>6. \A n \in N \cup {j} : t[f[n]] = Http!MediaRange(h[n])
    BY <1>3, <1>11, <2>1, <2>2
  <2> HIDE DEF f
  <2>7. QED
    BY <1>2, <1>11, <2>5, <2>6 DEF Listing, N
<1>13. ASSUME NumbersOnly(h, j)
       PROVE  \A n \in Named(h, j) : t[Place(h, j, n)] = Http!MediaRange(h[n])
  <2>1. NumbersOnly(h, k)
    BY <1>2, <1>13 DEF NumbersOnly, N
  <2>2. \A n \in N : s[Place(h, k, n)] = Http!MediaRange(h[n])
    BY <2>1 DEF Ranking, N
  <2>3. PICK b \in 0..c :
          /\ Place(h, j, j) = b + 1
          /\ \A n \in N :
               IF Before(h, n, j)
               THEN Place(h, k, n) \in 1..b /\ Place(h, j, n) = Place(h, k, n)
               ELSE /\ Place(h, k, n) \in b + 1 .. c
                    /\ Place(h, j, n) = Place(h, k, n) + 1
    BY <1>8, <1>13, PlacesOneMore DEF N
  \* The new one is inserted behind those that are before it.
  <2>4. \A n \in N : ~Http!Better(r, s[Place(h, k, n)]) <=> Before(h, n, j)
    <3>1. ASSUME NEW n \in N
          PROVE  ~Http!Better(r, s[Place(h, k, n)]) <=> Before(h, n, j)
      <4>1. n \in Nat /\ n < j
        BY <1>1 DEF N
      <4>2. Http!MediaRange(h[n]).q \in Quality \ {NaN} /\ r.q \in Quality \ {NaN}
        BY <1>1, <1>2, <1>3, <1>13, Weighed DEF NumbersOnly, N
      <4>3. PICK a \in Int, d \in Int : a = Http!MediaRange(h[n]).q /\ d = r.q
        BY <4>2 DEF Quality
      <4>4. s[Place(h, k, n)].q = a
        BY <2>2, <4>3
      <4>5. Http!Better(r, s[Place(h, k, n)]) <=> d > a
        BY <4>2, <4>3, <4>4 DEF Http!Better
      <4>6. Before(h, n, j) <=> a > d \/ a = d
        BY <1>3, <4>1, <4>3 DEF Before
      <4>7. QED
        BY <4>3, <4>5, <4>6
    <3>2. QED
      BY <3>1
  <2>5. p = b
    <3>1. \A i \in 1..c : \E n \in N : Place(h, k, n) = i
      <4>1. PICK f : f = [n \in N |-> Place(h, k, n)]
        OBVIOUS
      <4>2. f \in Bijection(N, 1..c)
        BY <1>1, <1>8, <2>1, <4>1, Places DEF N
      <4>3. \A i \in 1..c : \E n \in N : f[n] = i
        BY <4>2 DEF Bijection, Surjection
      <4>4. QED
        BY <4>1, <4>3
    <3>2. \A i \in 1..c : i \in passed <=> i <= b
      <4>1. ASSUME NEW i \in 1..c PROVE i \in passed <=> i <= b
        <5>1. PICK n \in N : Place(h, k, n) = i
          BY <3>1
        <5>2. i \in passed <=> Before(h, n, j)
          BY <2>4, <5>1 DEF passed
        <5>3. QED
          BY <2>3, <5>1, <5>2
      <4>2. QED
        BY <4>1
    <3>3. {0} \cup passed = 0..b
      BY <3>2 DEF passed
    <3>4. b \in 0..b /\ 0..b \in SUBSET Int /\ \A x \in 0..b : x <= b
      OBVIOUS
    <3>5. Http!Max(0..b) = b
      BY <3>4, MaxIs
    <3>6. QED
      BY <1>9, <3>3, <3>5
  <2>6. ASSUME NEW n \in N PROVE t[Place(h, j, n)] = Http!MediaRange(h[n])
    BY <1>11, <2>2, <2>3, <2>5, <2>6
  <2>7. QED
    BY <1>2, <1>3, <1>11, <2>3, <2>5, <2>6 DEF N
<1>14. QED
  BY <1>3, <1>10, <1>11, <1>12, <1>13 DEF Ranking

LEMMA HeaderCollected ==
  ASSUME NEW h \in Seq(Http!Part)
  PROVE  Ranking(Http!Collected(h), h, Len(h))
<1>1. PICK l \in Nat : l = Len(h)
  BY LenProperties
<1>2. PICK f : /\ f[0] = <<>> /\ Http!Collected(h) = f[l]
               /\ \A n \in 1..l :
                    f[n] = IF h[n].media_type = BlankPart THEN f[n - 1]
                           ELSE Http!Ranked(f[n - 1], Http!MediaRange(h[n]))
  BY <1>1, CollectedIs
<1>3. Ranking(f[0], h, 0)
  <2>1. Named(h, 0) = {}
    BY DEF Named
  <2>2. <<>> \in Seq(Ranges) /\ Len(<<>>) = 0
    BY EmptySeq
  <2>3. <<>> \in Bijection({}, 1..0)
    BY DEF Bijection, Injection, IsInjective, Surjection
  <2>4. QED
    BY <1>2, <2>1, <2>2, <2>3 DEF Ranking, Listing
<1>4. ASSUME NEW k \in Nat, k + 1 <= l, Ranking(f[k], h, k)
      PROVE  Ranking(f[k + 1], h, k + 1)
  <2>1. k + 1 \in 1..l /\ (k + 1) - 1 = k
    BY <1>4
  <2>2. f[k + 1] = IF h[k + 1].media_type = BlankPart THEN f[k]
                   ELSE Http!Ranked(f[k], Http!MediaRange(h[k + 1]))
    BY <1>2, <2>1
  <2>3. CASE h[k + 1].media_type = BlankPart
    <3>1. \A n \in 1 .. k + 1 : n \in 1..k \/ n = k + 1
      OBVIOUS
    <3>2. \A n \in 1..k : n \in 1 .. k + 1
      OBVIOUS
    <3>3. Named(h, k + 1) = Named(h, k)
      BY <2>3, <3>1, <3>2 DEF Named
    <3>4. \A n : Place(h, k + 1, n) = Place(h, k, n)
      BY <3>3 DEF Place
    <3>5. QED
      BY <1>4, <2>2, <2>3, <3>3, <3>4 DEF Ranking, Listing, NumbersOnly
  <2>4. CASE h[k + 1].media_type # BlankPart
    BY <1>1, <1>4, <2>1, <2>2, <2>4, RankedOneMore
  <2>5. QED
    BY <2>3, <2>4
<1> DEFINE unranked == {k \in Nat : k <= l /\ ~Ranking(f[k], h, k)}
<1>5. SUFFICES ASSUME unranked # {} PROVE FALSE
  BY <1>1, <1>2
<1>6. PICK k \in unranked : \A j \in unranked : k <= j
  BY <1>5, Least
<1>7. k \in Nat /\ k # 0 /\ k <= l
  BY <1>3
<1>8. PICK j \in Nat : k = j + 1
  <2>1. k - 1 \in Nat /\ k = (k - 1) + 1
    BY <1>7
  <2>2. QED
    BY <2>1
<1>9. j \notin unranked /\ j <= l
  BY <1>6, <1>7, <1>8
<1>10. QED
  BY <1>4, <1>7, <1>8, <1>9

\* A list that the sort leaves in any order has a q that is not a number.
LEMMA HeaderRanked ==
  ASSUME NEW h \in Seq(Http!Part), NEW t \in Http!from_accept_header(h)
  PROVE  Ranking(t, h, Len(h))
<1>1. PICK s : s = Http!Collected(h)
  OBVIOUS
<1>2. Ranking(s, h, Len(h))
  BY <1>1, HeaderCollected
<1>3. PICK c \in Nat : c = Len(s) /\ DOMAIN s = 1..c
  BY <1>2, LenProperties DEF Ranking
<1>4. CASE t = s
  BY <1>2, <1>4
<1>5. CASE /\ \E i \in DOMAIN s : s[i].q = NaN
           /\ \E p \in Http!Bijection(DOMAIN s, DOMAIN s) :
                t = [i \in DOMAIN s |-> s[p[i]]]
  <2>1. PICK p \in Bijection(1..c, 1..c) : t = [i \in 1..c |-> s[p[i]]]
    BY <1>3, <1>5, SameBijection
  <2>2. /\ p \in [1..c -> 1..c]
        /\ \A i, k \in 1..c : p[i] = p[k] => i = k
        /\ \A k \in 1..c : \E i \in 1..c : p[i] = k
    BY <2>1 DEF Bijection, Injection, IsInjective, Surjection
  <2> DEFINE N == Named(h, Len(h))
  <2>3. PICK place \in Bijection(N, 1..c) :
          \A n \in N : s[place[n]] = Http!MediaRange(h[n])
    BY <1>2, <1>3 DEF Ranking, Listing
  <2> HIDE DEF N
  <2>4. /\ place \in [N -> 1..c]
        /\ \A m, n \in N : place[m] = place[n] => m = n
        /\ \A i \in 1..c : \E n \in N : place[n] = i
    BY <2>3 DEF Bijection, Injection, IsInjective, Surjection
  <2>5. t \in Seq(Ranges) /\ Len(t) = c
    <3>1. \A i \in 1..c : s[i] \in Ranges
      BY <1>2, <1>3, ElementOfSeq DEF Ranking
    <3>2. t \in [1..c -> Ranges]
      BY <2>1, <2>2, <3>1
    <3>3. QED
      BY <3>2, IsASeq, LenProperties
  <2>6. PICK back \in [1..c -> 1..c] : \A k \in 1..c : p[back[k]] = k
    <3>1. PICK b : b = [k \in 1..c |-> CHOOSE i \in 1..c : p[i] = k]
      OBVIOUS
    <3>2. \A k \in 1..c : b[k] \in 1..c /\ p[b[k]] = k
      BY <2>2, <3>1
    <3>3. b \in [1..c -> 1..c]
      BY <3>1, <3>2
    <3>4. QED
      BY <3>2, <3>3
  <2>7. Listing(t, h, Len(h))
    <3> DEFINE f == [n \in N |-> back[place[n]]]
    <3>1. f \in [N -> 1..c]
      BY <2>4, <2>6
    <3>2. ASSUME NEW m \in N, NEW n \in N, f[m] = f[n] PROVE m = n
      <4>1. place[m] = p[f[m]] /\ place[n] = p[f[n]]
        BY <2>4, <2>6
      <4> HIDE DEF f
      <4>2. QED
        BY <2>4, <3>2, <4>1
    <3>3. ASSUME NEW i \in 1..c PROVE \E n \in N : f[n] = i
      <4>1. PICK n \in N : place[n] = p[i]
        BY <2>2, <2>4
      <4>2. p[back[p[i]]] = p[i] /\ back[p[i]] \in 1..c
        BY <2>2, <2>6
      <4>3. QED
        BY <2>2, <4>1, <4>2
    <3>4. \A n \in N : t[f[n]] = Http!MediaRange(h[n])
      BY <2>1, <2>3, <2>4, <2>6
    <3> HIDE DEF f
    <3>5. f \in Bijection(N, 1..c)
      BY <3>1, <3>2, <3>3 DEF Bijection, Injection, IsInjective, Surjection
    <3>6. QED
      BY <2>5, <3>4, <3>5 DEF Listing, N
  <2>8. ~NumbersOnly(h, Len(h))
    <3>1. PICK i \in 1..c : s[i].q = NaN
      BY <1>3, <1>5
    <3>2. PICK n \in N : place[n] = i
      BY <2>4
    <3>3. QED
      BY <2>3, <3>1, <3>2 DEF NumbersOnly, N
  <2>9. QED
    BY <2>5, <2>7, <2>8 DEF Ranking
<1>6. QED
  BY <1>1, <1>4, <1>5 DEF Http!from_accept_header

HeaderInv == header \in Seq(Http!Part) /\ Ranking(ranges, header, Len(header))

LEMMA InitHeaderInv == Init => HeaderInv
<1> SUFFICES ASSUME Init PROVE HeaderInv
  OBVIOUS
<1>1. header = <<>> /\ ranges = <<>>
  BY DEF Init, Http!Init
<1>2. Named(header, Len(header)) = {}
  BY <1>1 DEF Named
<1>3. <<>> \in Bijection({}, 1..0)
  BY DEF Bijection, Injection, IsInjective, Surjection
<1>4. <<>> \in Seq(Ranges) /\ <<>> \in Seq(Http!Part) /\ Len(<<>>) = 0
  BY EmptySeq
<1>5. QED
  BY <1>1, <1>2, <1>3, <1>4 DEF HeaderInv, Ranking, Listing

LEMMA StepHeaderInv == HeaderInv /\ [Next]_vars => HeaderInv'
<1> SUFFICES ASSUME HeaderInv, [Next]_vars PROVE HeaderInv'
  OBVIOUS
<1>1. CASE Http!Read
  <2>1. header' \in Seq(Http!Part) /\ ranges' \in Http!from_accept_header(header')
    BY <1>1 DEF Http!Read, HeaderInv
  <2>2. PICK h, t : h = header' /\ t = ranges'
    OBVIOUS
  <2>3. Ranking(t, h, Len(h))
    BY <2>1, <2>2, HeaderRanked
  <2>4. HeaderInv' <=> h \in Seq(Http!Part) /\ Ranking(t, h, Len(h))
    BY <2>2 DEF HeaderInv, Ranking, Listing, Named, NumbersOnly, Place, Before
  <2>5. QED
    BY <2>1, <2>2, <2>3, <2>4
<1>2. CASE UNCHANGED <<header, ranges>>
  <2>1. PICK h, t : h = header' /\ t = ranges' /\ h = header /\ t = ranges
    BY <1>2
  <2>2. HeaderInv <=> h \in Seq(Http!Part) /\ Ranking(t, h, Len(h))
    BY <2>1 DEF HeaderInv
  <2>3. HeaderInv' <=> h \in Seq(Http!Part) /\ Ranking(t, h, Len(h))
    BY <2>1 DEF HeaderInv, Ranking, Listing, Named, NumbersOnly, Place, Before
  <2>4. QED
    BY <2>2, <2>3
<1>3. QED
  BY <1>1, <1>2 DEF Next, vars, http_vars, Http!Next, Http!Derive

(***************************************************************************)
(* Whatever parts an Accept header is read from, q that do not parse and   *)
(* NaN included, every range that names a type is listed once; and if no q *)
(* is NaN, better ones come first and equals in their order, and the most  *)
(* preferred type is that of the best of them.                             *)
(***************************************************************************)
THEOREM HeadersRanked == Spec => []PreferencesRanked
<1>1. HeaderInv => PreferencesRanked
  <2> SUFFICES ASSUME HeaderInv PROVE PreferencesRanked
    OBVIOUS
  <2>1. PICK h \in Seq(Http!Part) : h = header
    BY DEF HeaderInv
  <2> DEFINE s == ranges
  <2>2. PICK l \in Nat : l = Len(h) /\ l \in 0..Len(h)
    BY LenProperties
  <2>3. Ranking(s, h, l)
    BY <2>1, <2>2 DEF HeaderInv
  <2> DEFINE N == Named(h, l)
  <2>4. IsFiniteSet(N) /\ N \subseteq 1..Len(h)
    BY <2>2, NamedFinite
  <2>5. ASSUME NumbersOnly(h, l), N # {}
        PROVE  \E n \in N : /\ Http!most_preferred(s) = h[n].media_type
                            /\ \A m \in N \ {n} : Before(h, n, m)
    <3>1. PICK c \in Nat : c = Cardinality(N) /\ c # 0
      BY <2>4, <2>5, FS_CardinalityType, FS_EmptySet
    <3>2. [n \in N |-> Place(h, l, n)] \in Bijection(N, 1..c)
      BY <2>2, <2>5, <3>1, Places
    <3>3. PICK n \in N : Place(h, l, n) = 1
      <4>1. 1 \in 1..c
        BY <3>1
      <4> HIDE DEF N
      <4>2. QED
        BY <3>2, <4>1 DEF Bijection, Surjection
    <3> DEFINE A == {m \in N : Before(h, m, n)}
    <3>4. A = {}
      <4>1. A \in SUBSET N
        OBVIOUS
      <4>2. IsFiniteSet(A) /\ Cardinality(A) \in Nat
        BY <2>4, <4>1, FS_Subset, FS_CardinalityType
      <4>3. Cardinality(A) + 1 = 1
        BY <3>3 DEF Place
      <4>4. PICK a \in Nat : a = Cardinality(A)
        BY <4>2
      <4>5. a = 0
        BY <4>3, <4>4
      <4> HIDE DEF A
      <4>6. QED
        BY <4>2, <4>4, <4>5, FS_EmptySet
    <3>5. \A m \in N \ {n} : Before(h, n, m)
      BY <2>2, <2>5, <3>4, Ordered
    <3>6. s[1] = Http!MediaRange(h[n])
      BY <2>3, <2>5, <3>3 DEF Ranking
    <3>7. s # <<>>
      <4>1. PICK place \in Bijection(N, 1..Len(s)) : TRUE
        BY <2>3 DEF Ranking, Listing
      <4>2. place[n] \in 1..Len(s)
        BY <4>1 DEF Bijection, Injection
      <4>3. Len(<<>>) = 0
        OBVIOUS
      <4>4. QED
        BY <4>2, <4>3
    <3>8. Http!most_preferred(s) = h[n].media_type
      BY <2>4, <3>6, <3>7, Weighed DEF Http!most_preferred
    <3>9. QED
      BY <3>5, <3>8
  <2>6. PreferencesRanked <=>
          /\ Listing(s, h, l)
          /\ NumbersOnly(h, l) =>
               /\ \A n \in N : s[Place(h, l, n)] = Http!MediaRange(h[n])
               /\ N # {} => \E n \in N : /\ Http!most_preferred(s) = h[n].media_type
                                         /\ \A m \in N \ {n} : Before(h, n, m)
    BY <2>1, <2>2, SameCardinality, SameBijection
    DEF PreferencesRanked, Http!PreferencesRanked, Listing, NumbersOnly, Named,
        Place, Before
  <2>7. QED
    BY <2>3, <2>5, <2>6 DEF Ranking
<1>2. QED
  BY <1>1, InitHeaderInv, StepHeaderInv, PTL DEF Spec
=============================================================================

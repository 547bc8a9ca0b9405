---------------------------- MODULE ResourceStores ----------------------------
(***************************************************************************)
(* The decorators of solid-storage/src/resource_store.rs: handles are      *)
(* stacks of PassthroughStore and ReadOnlyStore over one shared store, or  *)
(* over BaseResourceStore.  A call goes down the stack in one poll; what   *)
(* it finds at the bottom, which no code in src/ implements, may make it   *)
(* wait.                                                                   *)
(***************************************************************************)
EXTENDS SequencesExt

CONSTANTS
  Clients,
  Handles,   \* the stacks, outermost layer first
  Urls, Bodies, None

\* Of the constants.
Stacked == Handles \subseteq Seq({"passthrough", "readonly", "base"})

VARIABLES
  data,   \* what the shared store holds, by url
  call,   \* the handle and the operation each client has at the shared store
  ret     \* the answer its last call has got

vars == <<data, call, ret>>

-----------------------------------------------------------------------------
Mutations == {"add_resource", "set_representation", "delete_resource",
              "modify_resource"}
Reads == {"has_resource", "get_representation"}

Operation ==
  [name: Reads \cup {"delete_resource"}, url: Urls]
    \cup [name: Mutations \ {"delete_resource"}, url: Urls, body: Bodies]

Forbidden == [name |-> "Forbidden"]
NotImplemented == [name |-> "NotImplemented"]
IsError(o) == o.name \notin Reads \cup Mutations

Passthrough(o) == o

ReadOnly_PatchPasses(o) ==   \* faulty: modify_resource is not overridden
  IF o.name \in Mutations \ {"modify_resource"} THEN Forbidden ELSE o

ReadOnly(o) == IF o.name \in Mutations THEN Forbidden ELSE o

Base(o) == NotImplemented

Layer(l, o) ==
  CASE l = "passthrough" -> Passthrough(o)
    [] l = "readonly"    -> ReadOnly(o)
    [] l = "base"        -> Base(o)

\* What is left of an operation below all layers, which hand it on unchanged
\* or refuse it: itself, or the error of the outermost that refuses.
Below(handle, o) ==
  LET refusing == {n \in DOMAIN handle : IsError(Layer(handle[n], o))} IN
  IF refusing = {} THEN o ELSE Layer(handle[Min(refusing)], o)

Init ==
  /\ data = [u \in {} |-> None]
  /\ call = [c \in Clients |-> None]
  /\ ret = [c \in Clients |-> None]

Call(c) ==
  /\ call[c] = None
  /\ \E h \in Handles, o \in Operation :
       LET b == Below(h, o) IN
       IF IsError(b) THEN ret' = [ret EXCEPT ![c] = b.name] /\ UNCHANGED call
       ELSE /\ call' = [call EXCEPT ![c] = [handle |-> h, op |-> b]]
            /\ ret' = [ret EXCEPT ![c] = None]
  /\ UNCHANGED data

\* The store at the bottom.  add_resource makes a child whose url it chooses.
Store(c) ==
  LET o == call[c].op IN
  /\ call[c] # None
  /\ CASE o.name = "delete_resource" ->
            data' = [u \in DOMAIN data \ {o.url} |-> data[u]]
       [] o.name = "add_resource" ->
            \E child \in Urls \ DOMAIN data :
              data' = [u \in DOMAIN data \cup {child} |->
                         IF u = child THEN o.body ELSE data[u]]
       [] o.name \in {"set_representation", "modify_resource"} ->
            data' = [u \in DOMAIN data \cup {o.url} |->
                       IF u = o.url THEN o.body ELSE data[u]]
       [] OTHER -> UNCHANGED data
  /\ ret' = [ret EXCEPT ![c] = "Ok"]
  /\ call' = [call EXCEPT ![c] = None]

\* It refuses (a url that is not there, a patch that does not apply), or the
\* caller drops the future.
Refuse(c) ==
  /\ call[c] # None
  /\ call' = [call EXCEPT ![c] = None]
  /\ \E r \in {"Refused", None} : ret' = [ret EXCEPT ![c] = r]
  /\ UNCHANGED data

Next == \E c \in Clients : Call(c) \/ Store(c) \/ Refuse(c)

-----------------------------------------------------------------------------
(***************************************************************************)
(* However the decorators are stacked, nothing changes by a call through a *)
(* handle with a ReadOnlyStore in it, while the store it shares with other *)
(* handles does change by theirs.                                          *)
(***************************************************************************)
ReadOnlyHandlesOnlyRead ==
  [][data' # data =>
       \E c \in Clients :
         /\ call[c] # None /\ call'[c] = None
         /\ ~Contains(call[c].handle, "readonly")]_vars
=============================================================================

----------------------------- MODULE WebIdStore -----------------------------
(***************************************************************************)
(* BaseWebIdStore (identity/src/webid.rs): links between WebIDs and        *)
(* accounts, by an id of their own, behind one RwLock.  Nothing keeps a    *)
(* WebID from being linked twice, to one account or to two.                *)
(***************************************************************************)
EXTENDS FiniteSets

CONSTANTS
  LinkIds,    \* the UUIDs create draws; bound on the links
  WebIds, Accounts,
  None

VARIABLES
  links,      \* WebIdLink by id
  created,    \* history: the ids create has returned, with their links
  deleted     \* history: the ids delete has returned Ok for

vars == <<links, created, deleted>>

-----------------------------------------------------------------------------
Link == [web_id: WebIds, account_id: Accounts]

Init ==
  /\ links = [l \in {} |-> None]
  /\ created = {} /\ deleted = {}

create(l, link) ==
  /\ \A x \in created : x[1] # l
  /\ links' = [x \in DOMAIN links \cup {l} |-> IF x = l THEN link ELSE links[x]]
  /\ created' = created \cup {<<l, link>>}
  /\ UNCHANGED deleted

delete_Pair(l) ==   \* faulty: deletes whatever links the same two
  /\ l \in DOMAIN links
  /\ links' = [x \in {y \in DOMAIN links : links[y] # links[l]} |-> links[x]]
  /\ deleted' = deleted \cup {l}
  /\ UNCHANGED created

\* Of an id that is not there it is an error, and changes nothing.
delete(l) ==
  /\ l \in DOMAIN links
  /\ links' = [x \in DOMAIN links \ {l} |-> links[x]]
  /\ deleted' = deleted \cup {l}
  /\ UNCHANGED created

is_linked(w, a) ==
  \E l \in DOMAIN links : links[l] = [web_id |-> w, account_id |-> a]
find_by_account(a) == {l \in DOMAIN links : links[l].account_id = a}

\* Every id has been drawn: nothing stops the program here, but the model.
Exhausted == Cardinality(deleted) = Cardinality(LinkIds) /\ UNCHANGED vars

Next ==
  \/ \E l \in LinkIds : delete(l) \/ \E link \in Link : create(l, link)
  \/ Exhausted

-----------------------------------------------------------------------------
TypeOK ==
  /\ DOMAIN links \subseteq LinkIds /\ links \in [DOMAIN links -> Link]
  /\ created \subseteq LinkIds \X Link
  /\ deleted \subseteq LinkIds

(***************************************************************************)
(* A WebID is linked to an account exactly as long as a link of the two    *)
(* has been created and not been deleted: deleting one link leaves the     *)
(* others, of the same pair too, and find_by_account sees the same.        *)
(***************************************************************************)
LinksAccounted ==
  /\ \A w \in WebIds, a \in Accounts :
       is_linked(w, a) <=>
         \E x \in created : /\ x[1] \notin deleted
                            /\ x[2] = [web_id |-> w, account_id |-> a]
  /\ \A a \in Accounts :
       find_by_account(a) =
         {x[1] : x \in {y \in created : /\ y[1] \notin deleted
                                        /\ y[2].account_id = a}}
=============================================================================

--------------------------- MODULE IdentityStores ---------------------------
(***************************************************************************)
(* The stores of the identity crate side by side: client credentials,      *)
(* accounts, cookies, pods and WebID links.  They share no state and no    *)
(* lock, so every behaviour of them together is one of each interleaved,   *)
(* and whatever is said of one store is decided by its steps alone.        *)
(* focus names the store that moves; the others stay as they began.        *)
(***************************************************************************)
EXTENDS ClientCredentials, Naturals

CONSTANTS
  AccountIds, WebIds, Values, Cookies, PodIds, Strangers, Rows, Bases, LinkIds,
  Expiry, Ttl, MaxTime, MaxLogins

VARIABLES
  focus, clock,
  accounts, account_task, served, linked, drawn, account_deleted,
  cookies, cookie_task, cookie_served, cookie_drawn, revived,
  pods, owners, pod_task, pod_given, raced, removed,
  links, link_created, link_deleted

AccountSide == INSTANCE AccountStore WITH
  Ids <- AccountIds, task <- account_task, deleted <- account_deleted
CookieSide == INSTANCE CookieStore WITH
  task <- cookie_task, served <- cookie_served, drawn <- cookie_drawn
PodSide == INSTANCE PodStore WITH task <- pod_task, given <- pod_given
LinkSide == INSTANCE WebIdStore WITH
  created <- link_created, deleted <- link_deleted

ASSUME IdentityAssumption ==
  /\ AccountSide!AccountAssumption
  /\ CookieSide!CookieAssumption
  /\ PodSide!PodAssumption

account_vars == <<accounts, account_task, served, linked, drawn,
                  account_deleted>>
pod_vars     == <<pods, owners, pod_task, pod_given, raced, removed>>
link_vars    == <<links, link_created, link_deleted>>
cookie_vars  == <<cookies, cookie_task, cookie_served, cookie_drawn, revived>>

Stores == {"credentials", "accounts", "cookies", "pods", "links"}

IdentityInit ==
  /\ focus \in Stores
  /\ Init /\ AccountSide!Init /\ CookieSide!Init
  /\ PodSide!Init /\ LinkSide!Init

IdentityNext ==
  /\ UNCHANGED focus
  /\ \/ /\ focus = "credentials" /\ Next
        /\ UNCHANGED <<clock, account_vars, cookie_vars, pod_vars, link_vars>>
     \/ /\ focus = "accounts" /\ AccountSide!Next
        /\ UNCHANGED <<vars, cookie_vars, pod_vars, link_vars>>
     \/ /\ focus = "cookies" /\ CookieSide!Next
        /\ UNCHANGED <<vars, account_vars, pod_vars, link_vars>>
     \/ /\ focus = "pods" /\ PodSide!Next
        /\ UNCHANGED <<vars, clock, account_vars, cookie_vars, link_vars>>
     \/ /\ focus = "links" /\ LinkSide!Next
        /\ UNCHANGED <<vars, clock, account_vars, cookie_vars, pod_vars>>

allVars == <<focus, clock, vars, account_vars, cookie_vars, pod_vars,
             link_vars>>

IdentitySpec == IdentityInit /\ [][IdentityNext]_allVars

-----------------------------------------------------------------------------
IdentityTypeOK ==
  /\ TypeOK
  /\ AccountSide!TypeOK /\ CookieSide!TypeOK
  /\ PodSide!TypeOK /\ LinkSide!TypeOK

\* An account that has had a login lives until it is deleted.
LinkedAccountsLive == AccountSide!LinkedAccountsLive
\* An account that expired without a login does not answer.
IdleNotServed == AccountSide!IdleNotServed
\* No account is pruned before its time.
NeverPrunedEarly == AccountSide!NeverPrunedEarly
\* An expired cookie is refused.
ExpiredRefused == CookieSide!ExpiredRefused
\* The TTL a refresh has set stands.
RefreshHolds == CookieSide!RefreshHolds
\* One row per owner of a pod.
OneRowPerOwner == PodSide!OneRowPerOwner
\* A removed owner is no owner.
RemovedIsNoOwner == PodSide!RemovedIsNoOwner
\* A pod keeps its first owner.
FirstOwnerKept == PodSide!FirstOwnerKept
\* A link is found until it is deleted.
LinksAccounted == LinkSide!LinksAccounted
=============================================================================

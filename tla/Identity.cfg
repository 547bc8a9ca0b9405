SPECIFICATION IdentitySpec
CONSTANTS
  c1 = c1
  c2 = c2
  u1 = u1
  u2 = u2
  u3 = u3
  n1 = n1
  n2 = n2
  p1 = p1
  p2 = p2
  stranger = stranger
  a1 = a1
  value = value
  base = base
  Clients = {c1, c2}
  Accounts = {a1}
  Ids = {u1, u2, u3}
  Labels = {n1, n2}
  AccountIds = {n1, n2}
  Values = {value}
  Cookies = {n1, n2}
  PodIds = {p1, p2}
  Strangers = {stranger}
  Rows = {u1, u2, u3}
  WebIds = {n1, n2}
  Bases = {base}
  LinkIds = {u1, u2, u3}
  Expiry = 2
  Ttl = 2
  MaxTime = 4
  MaxLogins = 2
  None = None
SYMMETRY Symmetry
INVARIANTS
  FoundIsHonest
  LabelResolves
  IdentityTypeOK
  LinkedAccountsLive
  IdleNotServed
  ExpiredRefused
  OneRowPerOwner
  RemovedIsNoOwner
  FirstOwnerKept
  LinksAccounted
PROPERTIES
  NeverPrunedEarly
  RefreshHolds

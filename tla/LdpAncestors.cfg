SPECIFICATION Spec
CONSTANTS
  r1 = r1
  r2 = r2
  r3 = r3
  anonymous = anonymous
  Requests = {r1, r2}
  Agents = {anonymous}
  Names <- MCNames
  Unprintable = {"b"}
  SplitLimit <- MCSplitLimit
  Methods = {"GET", "PUT", "POST", "DELETE"}
  Targets <- MCTargets
  ContentTypes <- OneType
  Accepts <- NoAccept
  Spellings = {"verbatim"}
  Policies = {"any"}
  Grants <- MCGrants
  ReaderMayFail = FALSE
  Empty = Empty
  None = None
PROPERTY
  PutLeavesEveryAncestor

SPECIFICATION Spec
CONSTANTS
  r1 = r1
  r2 = r2
  r3 = r3
  anonymous = anonymous
  Requests = {r1, r2, r3}
  Agents = {anonymous}
  Names <- MCNames
  Unprintable = {"b"}
  SplitLimit <- MCSplitLimit
  Methods = {"GET", "PUT", "POST", "DELETE", "TRACE"}
  Targets <- MCTargets
  ContentTypes <- OneType
  Accepts <- NoAccept
  Spellings = {"verbatim", "malformed"}
  Policies = {"any"}
  Grants <- MCGrants
  ReaderMayFail = FALSE
  Empty = Empty
  None = None
SYMMETRY Symmetry
INVARIANTS
  TypeOK
  AncestorsAccounted
  ExistenceAccounted
  StoredWasWritten
PROPERTIES
  ReplacedOnlyByRequest
  ImplementsResourceMap

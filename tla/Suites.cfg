SPECIFICATION SuitesSpec
CONSTANTS
  c1 = c1
  c2 = c2
  anonymous = anonymous
  Runners = {c1, c2}
  Selections <- MCSelections
  MaxTimeouts <- Impatience
  Requests <- MCRequests
  Agents = {anonymous}
  Names <- MCNames
  Unprintable = {}
  SplitLimit <- MCSplitLimit
  Methods <- MCMethods
  Targets <- MCTargets
  ContentTypes <- MCContentTypes
  Accepts <- MCAccepts
  Spellings = {"verbatim"}
  Policies = {"any"}
  Grants <- MCGrants
  ReaderMayFail = FALSE
  Empty = Empty
  None = None
INVARIANTS
  SuitesTypeOK
  Verdicts
  LeftBehind
  DocumentsOfPassedCasesGone
PROPERTY
  RunsEnd

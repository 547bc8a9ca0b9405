SPECIFICATION Spec
CONSTANTS
  r1 = r1
  r2 = r2
  r3 = r3
  anonymous = anonymous
  Requests = {r1, r2}
  Agents = {anonymous}
  Names <- MCNames
  Unprintable = {"b"}
  SplitLimit <- MCSplitLimit
  Methods = {"GET", "HEAD", "PUT", "POST", "DELETE", "OPTIONS", "PATCH"}
  Targets <- OneContainer
  ContentTypes <- MCContentTypes
  Accepts <- MCAccepts
  Spellings = {"verbatim", "encoded"}
  Policies = {"any", "closed"}
  Grants <- MCGrants
  ReaderMayFail = TRUE
  Empty = Empty
  None = None
INVARIANTS
  ServedWasWritten
  EffectsAuthorized
PROPERTY
  StalledUploadBlocksNobody

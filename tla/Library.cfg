SPECIFICATION Spec
CONSTANTS
  c1 = c1
  c2 = c2
  v1 = v1
  v2 = v2
  x = x
  left = left
  right = right
  pl = pl
  pr = pr
  host = host
  start = start
  plain = plain
  spaced = spaced
  encoded = encoded
  fragment = fragment
  u1 = u1
  u2 = u2
  Clients = {c1, c2}
  Keys <- MCKeys
  Values = {v1, v2}
  Views = {left, right}
  Mine = left
  ViewOf <- MCViewOf
  Prefix <- MCPrefix
  Callers = {c1, c2}
  Handles <- MCHandles
  Urls = {u1, u2}
  dot = dot
  dotdot = dotdot
  m1 = m1
  m2 = m2
  Scheme = scheme
  BlankPart = blank
  Names <- MCNames
  Hosts = {host}
  Dot = dot
  DotDot = dotdot
  Encoded <- MCEncoded
  Cut = {fragment}
  Beginnings <- MCBeginnings
  MaxParts = 6
  MediaTypes = {m1, m2}
  Weights <- MCWeights
  NoWeight = NoWeight
  Unparsable = Unparsable
  NaN = NaN
  SmallSort = 3
  MaxRanges = 4
  None = None
CHECK_DEADLOCK FALSE
INVARIANTS
  IdentifiersRelate
  PreferencesRanked
PROPERTIES
  ViewIsStorage
  ReadOnlyHandlesOnlyRead

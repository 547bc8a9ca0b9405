SPECIFICATION Spec
CONSTANTS
  c1 = c1
  c2 = c2
  k1 = k1
  Clients = {c1, c2}
  Keys = {k1}
  TicksPerSecond = 2
  CleanupTicks = 2
  SourceMayFail = TRUE
  MaxTime = 4
  MaxWrites = 2
  Never = Never
  None = None
INVARIANT
  TypeOK
PROPERTIES
  ExpiryIsTight
  UnexpiredLostOnlyInRace
  ExpiredIsSwept
  DropEndsSweeper

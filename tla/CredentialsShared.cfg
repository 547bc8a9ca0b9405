SPECIFICATION Spec
CONSTANTS
  c1 = c1
  c2 = c2
  i1 = i1
  i2 = i2
  i3 = i3
  l1 = l1
  l2 = l2
  a1 = a1
  a2 = a2
  Clients = {c1, c2}
  Ids = {i1, i2}
  Labels = {l1, l2}
  Accounts = {a1, a2}
  None = None
SYMMETRY Symmetry
INVARIANT
  UniquePerAccountResolves

SPECIFICATION Spec
CONSTANTS
  Ids = {i1, i2, i3}
  Orgs = {o1, o2}
  Uris = {frontend, a, b}
  Base = {frontend}
  Reqs = {r1}
  Free = Free
  Gone = Gone
  None = None
SYMMETRY Symmetry
INVARIANTS
  AddedIsAllowed
  RemovedIsRefused

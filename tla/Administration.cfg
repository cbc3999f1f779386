SPECIFICATION Spec
CONSTANTS
  Users = {u1, u2}
  Keys = {k1}
  Profiles = {p1, p2}
  Orgs = {o1, o2}
  Emails = {small, large}
  small = small
  Address <- LowerCase
  Reqs = {r1, r2}
  MaxTotp = 2
  Free = Free
  Gone = Gone
  None = None
SYMMETRY Symmetry
INVARIANTS
  TypeOK
  ChildrenHaveUsers
  OneAccountPerAddress
  EnrolledOnce
PROPERTIES
  SameProfileSameUser
  NothingUndone
  RevokedForGood
  ScopedToOrg

SPECIFICATION Spec
CONSTANTS
  Users = {u1, u2}
  Emails = {e1, e2}
  Passwords = {p1}
  Creds = {c1, c2}
  Sessions = {s1, s2}
  Grants = {g1, g2}
  Links = {l1, l2}
  Reqs = {r1, r2}
  Ops <- SessionOps
  Free = Free
  Gone = Gone
  None = None
SYMMETRY Symmetry
INVARIANTS
  OwnSession
  LoginAnnounced
PROPERTIES
  OnlyOwnerCloses
  ClosedForGood
  KeepsLifecycle

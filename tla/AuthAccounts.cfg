SPECIFICATION Spec
CONSTANTS
  Users = {u1, u2}
  Emails = {e1}
  Passwords = {p1}
  Creds = {c1, c2}
  Sessions = {s1, s2}
  Grants = {g1}
  Links = {l1, l2, l3}
  Reqs = {r1, r2}
  Ops <- AccountOps
  Free = Free
  Gone = Gone
  None = None
SYMMETRY Symmetry
INVARIANTS
  TypeOK
  RowsHaveUsers
PROPERTIES
  DeletedForGood
  UsedOnceDone

SPECIFICATION Spec
CONSTANTS
  Users = {u1}
  Emails = {e1}
  Passwords = {p1}
  Creds = {c1}
  Sessions = {s1}
  Grants = {g1}
  Links = {l1, l2}
  Reqs = {r1, r2}
  Ops <- AccountOps
  Free = Free
  Gone = Gone
  None = None
SYMMETRY Symmetry
INVARIANTS
  ConsumedOnce

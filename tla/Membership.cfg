SPECIFICATION Spec
CONSTANTS
  Users = {u1, u2}
  Emails = {e1, e2}
  Orgs = {o1}
  Roles = {x1, x2, x3}
  Members = {m1, m2}
  Grants = {h1, h2}
  Invites = {i1}
  Slugs <- TemplateRoles
  Templates <- ThreeTemplates
  Reqs = {r1, r2}
  Traffics <- BothTraffics
  Free = Free
  Gone = Gone
  None = None
SYMMETRY Symmetry
INVARIANTS
  TypeOK
  RowsHaveOwners
  HoldersAreMembers
  AddedOnce
PROPERTIES
  OnlyPlatformAppoints

SPECIFICATION Spec
CONSTANTS
  Users = {u1, u2}
  Orgs = {o1, o2}
  Roles = {x1, x2, x3}
  Resources = {s1, s2}
  Names = {thing, other}
  Actions = {read, write}
  read = read
  write = write
  thing = thing
  Perms <- AllPerms
  OrgPerms <- ReadOnly
  Slugs <- AllSlugs
  Budgets <- Bounds
  SystemResources <- Things
  DefaultRoles <- Defaults
  DefaultPerms <- AdminMay
  Instances = {i1, i2}
  Reqs = {r1}
  Free = Free
  Gone = Gone
  None = None
SYMMETRY Symmetry
CHECK_DEADLOCK FALSE
INVARIANTS
  TypeOK
  AllowedWasHeld
  HeldIsAllowed
  ServingIsSeeded
  SeededOnce
  AdminIsSeeded

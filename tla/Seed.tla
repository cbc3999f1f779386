-------------------------------- MODULE Seed --------------------------------
(***************************************************************************)
(* seed.service.ts: what every instance does before it serves, with a step *)
(* for each query, and crashes and restarts in between.  Apart from slugs  *)
(* of organisations, addresses and the roles of a user, nothing is unique. *)
(***************************************************************************)
EXTENDS RbacStore

CONSTANTS Instances,
          SystemResources, \* the sequence of their names
          DefaultRoles,    \* the sequence of their slugs
          DefaultPerms     \* per slug, the sequence of its permissions

ASSUME SeedAssumption ==
  /\ SystemResources \in Seq(Names) /\ SystemResources # <<>>
  /\ DefaultRoles \in Seq(Slugs) /\ DefaultRoles # <<>>
  /\ DefaultPerms \in [{DefaultRoles[k] : k \in DOMAIN DefaultRoles} ->
                         Seq(Perms) \ {<<>>}]
  /\ "platform_admin" \in DOMAIN DefaultPerms
  /\ \A slug \in DOMAIN DefaultPerms :
       \A m, n \in DOMAIN DefaultPerms[slug] :
         DefaultPerms[slug][m] = DefaultPerms[slug][n] => m = n

VARIABLES boot,  \* per instance
          twice, \* history: something was seeded although it was there
          alone  \* history: nothing else happened while an instance started

Boot == [pc: {"down", "organisation", "saveOrg", "resource", "saveResource",
              "role", "saveRole", "permissions", "permission", "admin",
              "adminRole", "adminGrant", "saveGrant", "up"},
         org: Opt(Orgs), k: Nat,
         map: Seq(Opt(Roles)),  \* rolesMap
         have: SUBSET Perms,    \* existingKeys
         role: Opt(Roles),
         admin: Opt(Users)]     \* kept as history by an instance that serves
Down == [pc |-> "down", org |-> None, k |-> 1, map |-> <<>>, have |-> {},
         role |-> None, admin |-> None]

On(i, pc)    == boot[i].pc = pc
Goes(i, b)   == boot' = [boot EXCEPT ![i] = b]
Starting     == {i \in Instances : boot[i].pc \notin {"down", "up"}}
Up(b)        == [Down EXCEPT !.pc = "up", !.admin = b.admin]

\* Mutant: the instance listens before it has seeded.
ServesAtOnce(i, b) == serving' = serving \cup {i}

\* onApplicationBootstrap() is awaited before the server listens.
Serves(i, b) == serving' = IF b.pc = "up" THEN serving \cup {i} ELSE serving

Start(i) ==
  /\ On(i, "down") /\ left.starts > 0
  /\ left' = [left EXCEPT !.starts = @ - 1]
  /\ alone' = (alone /\ Starting = {})
  /\ Goes(i, [Down EXCEPT !.pc = "organisation"])
  /\ UNCHANGED <<tables, serving, twice>>

\* A query fails and with it the start, or the process dies.
Crash(i) ==
  /\ ~On(i, "down")
  /\ Goes(i, Down)
  /\ serving' = serving \ {i}
  /\ UNCHANGED <<tables, left, twice, alone>>

-----------------------------------------------------------------------------
(* ensureSystemOrganization(), ensureSystemResources() *)

EnsureOrganization(i) ==
  /\ On(i, "organisation")
  /\ \/ SystemOrgs = {} /\ Goes(i, [boot[i] EXCEPT !.pc = "saveOrg"])
     \/ \E o \in SystemOrgs :
          Goes(i, [boot[i] EXCEPT !.pc = "resource", !.org = o])
  /\ UNCHANGED <<tables, twice>>

\* The slug is unique.
SaveOrganization(i) ==
  /\ On(i, "saveOrg")
  /\ SystemOrgs = {}
  /\ \E o \in Fresh(orgs) :
       /\ orgs' = [orgs EXCEPT ![o] = "system"]
       /\ Goes(i, [boot[i] EXCEPT !.pc = "resource", !.org = o])
  /\ UNCHANGED <<users, members, resources, roles, grants, erased, twice>>

NextResource(b) ==
  IF b.k = Len(SystemResources) THEN [b EXCEPT !.pc = "role", !.k = 1]
                                ELSE [b EXCEPT !.pc = "resource", !.k = @ + 1]

EnsureResource(i) ==
  /\ On(i, "resource")
  /\ LET b == boot[i]
     IN  Goes(i, IF FindResource(b.org, SystemResources[b.k]) # {}
                   THEN NextResource(b)
                   ELSE [b EXCEPT !.pc = "saveResource"])
  /\ UNCHANGED <<tables, twice>>

SaveSystemResource(i) ==
  /\ On(i, "saveResource")
  /\ LET b == boot[i]
         n == SystemResources[b.k]
     IN  /\ SaveResource(b.org, n)
         /\ twice' = (twice \/ FindResource(b.org, n) # {})
         /\ Goes(i, NextResource(b))
  /\ UNCHANGED <<users, members, orgs, roles, grants, erased>>

-----------------------------------------------------------------------------
(* ensureDefaultRoles(), ensurePermissions() *)

NextRole(b, x) ==
  LET c == [b EXCEPT !.map = Append(@, x)]
  IN  IF b.k = Len(DefaultRoles) THEN [c EXCEPT !.pc = "permissions", !.k = 1]
                                 ELSE [c EXCEPT !.pc = "role", !.k = @ + 1]

\* Mutant: a role is looked for among those of organisations.
FindDefaultAnywhere(slug) ==
  UNION {FindBySlug(slug, o) : o \in Orgs}

FindDefault(slug) == FindBySlug(slug, None)

EnsureRole(i) ==
  /\ On(i, "role")
  /\ LET b == boot[i]
         found == FindDefault(DefaultRoles[b.k])
     IN  \/ found = {} /\ Goes(i, [b EXCEPT !.pc = "saveRole"])
         \/ \E x \in found : Goes(i, NextRole(b, x))
  /\ UNCHANGED <<tables, twice>>

SaveRole(i) ==
  /\ On(i, "saveRole")
  /\ LET b == boot[i]
         slug == DefaultRoles[b.k]
     IN  /\ twice' = (twice \/ FindBySlug(slug, None) # {})
         /\ \E x \in Fresh(roles) :
              /\ roles' = [roles EXCEPT ![x] =
                             [org |-> None, slug |-> slug, perms |-> {}]]
              /\ Goes(i, NextRole(b, x))
  /\ UNCHANGED <<users, members, orgs, resources, grants, erased>>

\* Mutant: a role that has some permissions is taken to have all.
AnyIsAll(j, slug, have) ==
  IF have # {} THEN Len(DefaultPerms[slug]) + 1 ELSE j

\* The first permission from j on that is not among existingKeys, or one past
\* the end.
MissingFrom(j, slug, have) ==
  LET defs == DefaultPerms[slug]
      free == {n \in j .. Len(defs) : defs[n] \notin have}
  IN  IF free = {} THEN Len(defs) + 1
                   ELSE CHOOSE n \in free : \A m \in free : n <= m

\* Role m of the map goes on with the permission j, or its successor begins.
NextPermission(b, m, j) ==
  IF j <= Len(DefaultPerms[DefaultRoles[m]])
    THEN [b EXCEPT !.pc = "permission", !.k = j]
    ELSE IF m < Len(DefaultRoles)
           THEN [b EXCEPT !.pc = "permissions", !.k = 1, !.have = {},
                          !.map = Tail(@)]
           ELSE [b EXCEPT !.pc = "admin", !.k = 1, !.have = {}, !.map = <<>>]

\* The roles that are left are the last ones of DefaultRoles.
Current(b) == Len(DefaultRoles) - Len(b.map) + 1

ReadPermissions(i) ==
  /\ On(i, "permissions")
  /\ LET b == boot[i]
         have == roles[Head(b.map)].perms
         slug == DefaultRoles[Current(b)]
     IN  Goes(i, NextPermission([b EXCEPT !.have = have], Current(b),
                                MissingFrom(1, slug, have)))
  /\ UNCHANGED <<tables, twice>>

SaveDefaultPermission(i) ==
  /\ On(i, "permission")
  /\ LET b == boot[i]
         slug == DefaultRoles[Current(b)]
         p == DefaultPerms[slug][b.k]
     IN  /\ SavePermission(Head(b.map), p)
         /\ twice' = (twice \/ p \in roles[Head(b.map)].perms)
         /\ Goes(i, NextPermission(b, Current(b),
                                   MissingFrom(b.k + 1, slug, b.have)))
  /\ UNCHANGED <<users, members, orgs, resources, grants, erased>>

-----------------------------------------------------------------------------
(* ensurePlatformAdmin(), which is the last: the instance serves. *)

\* The user who has not signed up yet is left for another start.
FindPlatformAdmin(i) ==
  /\ On(i, "admin")
  /\ \/ PlatformAdmins = {} /\ Goes(i, Up(boot[i]))
     \/ \E u \in PlatformAdmins :
          Goes(i, [boot[i] EXCEPT !.pc = "adminRole", !.admin = u])
  /\ UNCHANGED <<tables, twice>>

FindAdminRole(i) ==
  /\ On(i, "adminRole")
  /\ LET b == boot[i]
         found == FindDefault("platform_admin")
     IN  \/ found = {} /\ Goes(i, Up([b EXCEPT !.admin = None]))
         \/ \E x \in found :
              Goes(i, [b EXCEPT !.pc = "adminGrant", !.role = x])
  /\ UNCHANGED <<tables, twice>>

FindUserRole(i) ==
  /\ On(i, "adminGrant")
  /\ LET b == boot[i]
     IN  Goes(i, IF b.role \in grants[b.admin]
                   THEN Up(b) ELSE [b EXCEPT !.pc = "saveGrant"])
  /\ UNCHANGED <<tables, twice>>

\* Mutant: the role is assigned without waiting for the answer.
GrantUnawaited(i) ==
  /\ On(i, "saveGrant")
  /\ SaveUserRole(boot[i].admin, boot[i].role) \/ UNCHANGED grants
  /\ Goes(i, Up(boot[i]))
  /\ UNCHANGED <<users, members, orgs, resources, roles, erased, twice>>

SaveGrant(i) ==
  /\ On(i, "saveGrant")
  /\ SaveUserRole(boot[i].admin, boot[i].role)
  /\ Goes(i, Up(boot[i]))
  /\ UNCHANGED <<users, members, orgs, resources, roles, erased, twice>>

SeedStep ==
  \E i \in Instances :
    /\ \/ EnsureOrganization(i) \/ SaveOrganization(i)
       \/ EnsureResource(i) \/ SaveSystemResource(i)
       \/ EnsureRole(i) \/ SaveRole(i)
       \/ ReadPermissions(i) \/ SaveDefaultPermission(i)
       \/ FindPlatformAdmin(i) \/ FindAdminRole(i)
       \/ FindUserRole(i) \/ SaveGrant(i)
    /\ Serves(i, boot'[i])
    /\ UNCHANGED <<left, alone>>
=============================================================================

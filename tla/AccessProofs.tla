---------------------------- MODULE AccessProofs ----------------------------
(***************************************************************************)
(* Proofs about Access: what the seed leaves behind and what a check       *)
(* answers, for any number of instances, checks and users, any defaults,   *)
(* and any changes by administrators.                                      *)
(***************************************************************************)
EXTENDS Access, WellFoundedInduction, TLAPS

-----------------------------------------------------------------------------
(* What an instance that starts knows at each await *)

Early   == {"organisation", "saveOrg"}
Naming  == {"resource", "saveResource"}
Looking == {"role", "saveRole"}
Filling == {"permissions", "permission"}
Ending  == {"admin", "adminRole", "adminGrant", "saveGrant", "up"}

SlugOf(b) == DefaultRoles[Current(b)]

Locals(b) ==
  /\ b.pc \in Early => b.k = 1
  /\ b.pc \in Naming => b.org \in Orgs /\ b.k \in DOMAIN SystemResources
  /\ b.pc \in Looking => b.k \in DOMAIN DefaultRoles /\ Len(b.map) = b.k - 1
  /\ b.pc \in Filling => Len(b.map) \in DOMAIN DefaultRoles
  /\ b.pc = "permission" =>
       /\ b.k \in DOMAIN DefaultPerms[SlugOf(b)]
       /\ DefaultPerms[SlugOf(b)][b.k] \notin b.have
  /\ b.pc \notin Looking \cup Filling => b.map = <<>>
  /\ b.pc \in {"adminRole", "adminGrant", "saveGrant"} => b.admin \in Users
  /\ b.pc \in {"adminGrant", "saveGrant"} => b.role \in Roles
  /\ b.pc \notin {"adminRole", "adminGrant", "saveGrant", "up"} =>
       b.admin = None

\* Roles of the map are there, and are global.
Mapped(rows, map) ==
  \A n \in DOMAIN map :
    map[n] \in Roles /\ Live(rows[map[n]]) /\ rows[map[n]].org = None

\* A role that a user has is there, and a check knows its user and actions.
Typed ==
  /\ TypeOK
  /\ \A i \in Instances : Locals(boot[i])
  /\ \A i \in Instances : Mapped(roles, boot[i].map)
  /\ \A u \in Users : \A x \in grants[u] : Live(roles[x])
  /\ \A r \in Reqs : ~At(r, "idle") =>
       req[r].user \in Users /\ req[r].target \in Targets

-----------------------------------------------------------------------------
(* What a check has read so far *)

\* The ground still holds by the name that the check goes by, and once the
\* roles are read, by what was read.
Heard(q, g) ==
  /\ q.pc \in {"roles", "members"} =>
       \E p \in roles[g.role].perms : Matches(p, g.action, q.name)
  /\ q.pc = "members" =>
       \E x \in q.held : /\ x.org = g.org
                         /\ \E p \in x.perms : Matches(p, g.action, q.name)

\* What was there all the time is there now and counts.
Sure(r) ==
  ~At(r, "idle") =>
    \A g \in watch[r].sure :
      /\ g \in Grounds(Standing(req[r].user), NameOf(req[r].target))
      /\ Heard(req[r], g)

\* What is held was there at one moment.
Ever(r) ==
  At(r, "members") =>
    \A x \in req[r].held : \A p \in x.perms : \A a \in Actions :
      Matches(p, a, req[r].name) =>
        [org |-> x.org, action |-> a] \in watch[r].ever

Named(r) == req[r].pc \in {"roles", "members"} => req[r].name \in Targets

Answers ==
  \A r \in Reqs : Named(r) /\ Sure(r) /\ Ever(r)

-----------------------------------------------------------------------------
(* What the seed leaves *)

\* One of the roles of that slug is complete.
Ready(n) ==
  \E x \in FindDefault(DefaultRoles[n]) : Complete(x, DefaultRoles[n])

\* The place of the first role of the map among DefaultRoles.
Offset(b) == IF b.pc \in Looking THEN 0 ELSE Len(DefaultRoles) - Len(b.map)

\* Roles that were completed earlier are complete, and the one that is worked
\* on has its permissions up to the next one to save.
Progress(b) ==
  /\ \A n \in DOMAIN b.map :
       b.map[n] \in FindDefault(DefaultRoles[Offset(b) + n])
  /\ b.pc \in Filling => \A n \in 1 .. Offset(b) : Ready(n)
  /\ b.pc \in Ending => \A n \in DOMAIN DefaultRoles : Ready(n)
  /\ b.pc = "permission" =>
       /\ b.have \subseteq roles[Head(b.map)].perms
       /\ \A m \in 1 .. (b.k - 1) :
            DefaultPerms[SlugOf(b)][m] \in roles[Head(b.map)].perms

Granted(u) == \E x \in FindDefault("platform_admin") : x \in grants[u]

AdminKnown(b) ==
  /\ b.pc \in {"adminGrant", "saveGrant"} =>
       b.role \in FindDefault("platform_admin")
  /\ b.pc = "up" => b.admin \in erased \cup {None} \/ Granted(b.admin)

Seeding ==
  \A b \in {boot[i] : i \in Instances} : Progress(b) /\ AdminKnown(b)

\* What an instance has found missing is missing.
Missing(b) ==
  /\ b.pc = "saveResource" => FindResource(b.org, SystemResources[b.k]) = {}
  /\ b.pc = "saveRole" => FindDefault(DefaultRoles[b.k]) = {}
  /\ b.pc = "permission" =>
       \A m \in DOMAIN DefaultPerms[SlugOf(b)] :
         m >= b.k /\ DefaultPerms[SlugOf(b)][m] \notin b.have =>
           DefaultPerms[SlugOf(b)][m] \notin roles[Head(b.map)].perms

Alone ==
  alone => /\ ~twice
           /\ \A i, j \in Starting : i = j
           /\ \A b \in {boot[i] : i \in Instances} : Missing(b)

-----------------------------------------------------------------------------
(* The tables *)

Stored ==
  /\ users     \in [Users -> {Free, Gone} \cup Addresses]
  /\ members   \in [Users -> SUBSET Orgs]
  /\ orgs      \in [Orgs -> {Free, Gone} \cup OrgSlugs]
  /\ resources \in [Resources -> {Free, Gone} \cup ResourceRow]
  /\ roles     \in [Roles -> {Free, Gone} \cup RoleRow]
  /\ grants    \in [Users -> SUBSET Roles]
  /\ erased    \subseteq Users
  /\ left      \in Budget
  /\ \A u \in Users : \A x \in grants[u] : Live(roles[x])

\* A role goes with its organisation only, and permissions are only added.
RoleKept(x) ==
  Live(roles[x]) =>
    \/ roles[x].org # None /\ roles'[x] = Gone
    \/ /\ Live(roles'[x])
       /\ roles'[x].org = roles[x].org /\ roles'[x].slug = roles[x].slug
       /\ roles[x].perms \subseteq roles'[x].perms

\* Nobody loses a global role but with the account.
GrantsKept ==
  /\ erased \subseteq erased'
  /\ \A u \in Users : \A x \in grants[u] :
       roles[x].org = None => x \in grants'[u] \/ u \in erased'

Kept == GrantsKept /\ \A x \in Roles : RoleKept(x)

LEMMA RowsAreLive ==
  /\ \A x \in RoleRow : Live(x)
  /\ \A s \in ResourceRow : Live(s)
  BY RbacAssumption DEF Live

LEMMA SameTables ==
  ASSUME Stored, UNCHANGED tables, left' \in Budget
  PROVE  Stored' /\ Kept
  BY DEF Stored, Kept, GrantsKept, RoleKept, tables, Live

LEMMA NewRole ==
  ASSUME Stored, NEW x \in Roles, roles[x] = Free, NEW row \in RoleRow,
         roles' = [roles EXCEPT ![x] = row],
         orgs' \in [Orgs -> {Free, Gone} \cup OrgSlugs],
         UNCHANGED <<users, members, resources, grants, erased>>,
         left' \in Budget
  PROVE  Stored' /\ Kept
<1>1. /\ roles' \in [Roles -> {Free, Gone} \cup RoleRow]
      /\ Live(roles'[x])
      /\ \A y \in Roles \ {x} : roles'[y] = roles[y]
  BY RowsAreLive DEF Stored
<1>2. ~Live(roles[x])
  BY DEF Live
<1>3. \A u \in Users : \A y \in grants[u] : Live(roles'[y])
  BY <1>1 DEF Stored, Live
<1>4. Stored'
  BY <1>1, <1>3 DEF Stored
<1>5. Kept
  BY <1>1, <1>2 DEF Kept, GrantsKept, RoleKept, Stored, Live
<1> QED
  BY <1>4, <1>5

LEMMA MorePermissions ==
  ASSUME Stored, NEW x \in Roles, NEW p \in Perms, SavePermission(x, p),
         UNCHANGED <<users, members, orgs, resources, grants, erased>>,
         left' \in Budget
  PROVE  Stored' /\ Kept /\ roles'[x].perms = roles[x].perms \cup {p}
<1>1. roles[x] \in RoleRow /\ roles' = [roles EXCEPT ![x].perms = @ \cup {p}]
  BY DEF SavePermission, Stored, Live
<1>2. /\ roles' \in [Roles -> {Free, Gone} \cup RoleRow]
      /\ roles'[x] \in RoleRow
      /\ roles'[x].org = roles[x].org /\ roles'[x].slug = roles[x].slug
      /\ roles'[x].perms = roles[x].perms \cup {p}
      /\ \A y \in Roles \ {x} : roles'[y] = roles[y]
  BY <1>1 DEF Stored, RoleRow
<1>3. \A y \in Roles : Live(roles[y]) => Live(roles'[y])
  BY <1>2, RowsAreLive DEF Live
<1>4. Stored'
  BY <1>2, <1>3 DEF Stored
<1>5. Kept
  BY <1>2, <1>3 DEF Kept, GrantsKept, RoleKept, Stored
<1> QED
  BY <1>2, <1>4, <1>5

LEMMA MoreGrants ==
  ASSUME Stored, NEW u \in Users, NEW x \in Roles, Live(roles[x]),
         \/ grants' = [grants EXCEPT ![u] = @ \cup {x}]
         \/ roles[x].org # None /\ grants' = [grants EXCEPT ![u] = @ \ {x}],
         UNCHANGED <<users, members, orgs, resources, roles, erased>>,
         left' \in Budget
  PROVE  Stored' /\ Kept
<1>1. /\ grants' \in [Users -> SUBSET Roles]
      /\ \A v \in Users : grants'[v] \subseteq grants[v] \cup {x}
  BY DEF Stored
<1>2. \A v \in Users : \A y \in grants[v] :
        roles[y].org = None => y \in grants'[v]
  BY DEF Stored
<1>3. Stored'
  BY <1>1 DEF Stored, Live
<1>4. Kept
  BY <1>2 DEF Kept, GrantsKept, RoleKept, Live
<1> QED
  BY <1>3, <1>4

LEMMA MoreResources ==
  ASSUME Stored, NEW o \in Orgs, NEW n \in Names, SaveResource(o, n),
         UNCHANGED <<users, members, orgs, roles, grants, erased>>,
         left' \in Budget
  PROVE  Stored' /\ Kept
<1>1. resources' \in [Resources -> {Free, Gone} \cup ResourceRow]
  BY DEF SaveResource, Stored, ResourceRow, Fresh
<1>2. Stored'
  BY <1>1 DEF Stored, Live
<1> QED
  BY <1>2 DEF Kept, GrantsKept, RoleKept, Live

-----------------------------------------------------------------------------
(* What administrators and instances do to the tables *)

LEMMA UsersWritten ==
  ASSUME Stored, UserWrite
  PROVE  Stored' /\ Kept /\ UNCHANGED <<resources, roles>>
<1> USE DEF Change
<1>1. ASSUME Change PROVE left' \in Budget
  BY <1>1 DEF Stored, Budget
<1>2. CASE SignUp
  <2>1. left' \in Budget
    BY <1>2 DEF SignUp, Stored, Budget
  <2> QED
    BY <1>2, <2>1 DEF SignUp, Stored, Kept, GrantsKept, RoleKept, Live
<1>3. CASE UpdateUser
  BY <1>1, <1>3 DEF UpdateUser, Stored, Kept, GrantsKept, RoleKept, Live
<1>4. CASE DeleteUser
  <2>1. PICK u \in Users :
          /\ users' = [users EXCEPT ![u] = Gone]
          /\ members' = [members EXCEPT ![u] = {}]
          /\ grants' = [grants EXCEPT ![u] = {}]
          /\ erased' = erased \cup {u}
    BY <1>4 DEF DeleteUser
  <2>2. /\ users' \in [Users -> {Free, Gone} \cup Addresses]
        /\ members' \in [Users -> SUBSET Orgs]
        /\ grants' \in [Users -> SUBSET Roles]
        /\ erased' \subseteq Users
        /\ \A v \in Users : grants'[v] \subseteq grants[v]
        /\ \A v \in Users \ {u} : grants'[v] = grants[v]
    BY <2>1 DEF Stored
  <2>3. UNCHANGED <<orgs, resources, roles>>
    BY <1>4 DEF DeleteUser
  <2>4. Stored'
    BY <1>1, <1>4, <2>2, <2>3 DEF Stored, Live, DeleteUser
  <2>5. Kept
    BY <2>1, <2>2, <2>3 DEF Kept, GrantsKept, RoleKept, Live
  <2> QED
    BY <2>3, <2>4, <2>5
<1> QED
  BY <1>2, <1>3, <1>4 DEF UserWrite

LEMMA MembersWritten ==
  ASSUME Stored, MemberWrite
  PROVE  Stored' /\ Kept
<1>1. ASSUME Change PROVE left' \in Budget
  BY <1>1 DEF Stored, Change, Budget
<1>2. CASE SaveMembership \/ DeleteMembership
  <2>1. UNCHANGED <<users, orgs, resources, roles, grants, erased>>
    BY <1>2 DEF SaveMembership, DeleteMembership
  <2>2. members' \in [Users -> SUBSET Orgs]
    BY <1>2 DEF SaveMembership, DeleteMembership, Stored
  <2>3. Stored'
    BY <1>1, <1>2, <2>1, <2>2
    DEF SaveMembership, DeleteMembership, Stored, Live
  <2> QED
    BY <2>1, <2>3 DEF Kept, GrantsKept, RoleKept, Live
<1>3. CASE AssignRole
  <2>1. PICK u \in Users, x \in Roles : SaveUserRole(u, x)
    BY <1>3 DEF AssignRole
  <2> QED
    BY <1>1, <1>3, <2>1, MoreGrants DEF AssignRole, SaveUserRole
<1>4. CASE UnassignRole
  <2>0. PICK u \in Users : \E x \in grants[u] :
          roles[x].org # None /\ grants' = [grants EXCEPT ![u] = @ \ {x}]
    BY <1>4 DEF UnassignRole
  <2>1. PICK x \in grants[u] :
          roles[x].org # None /\ grants' = [grants EXCEPT ![u] = @ \ {x}]
    BY <2>0
  <2>2. x \in Roles /\ Live(roles[x])
    BY DEF Stored
  <2> QED
    BY <1>1, <1>4, <2>1, <2>2, MoreGrants DEF UnassignRole
<1> QED
  BY <1>2, <1>3, <1>4 DEF MemberWrite

LEMMA Administered ==
  ASSUME Stored, Administer
  PROVE  Stored' /\ Kept
<1>1. ASSUME Change PROVE left' \in Budget
  BY <1>1 DEF Stored, Change, Budget
<1>2. CASE CreateOrganization
  <2>1. PICK o \in Fresh(orgs), g \in OrgSlugs, x \in Fresh(roles) :
          /\ orgs' = [orgs EXCEPT ![o] = g]
          /\ roles' = [roles EXCEPT ![x] =
               [org |-> o, slug |-> "org_admin", perms |-> OrgPerms]]
    BY <1>2 DEF CreateOrganization
  <2>2. /\ o \in Orgs /\ x \in Roles /\ roles[x] = Free
        /\ [org |-> o, slug |-> "org_admin", perms |-> OrgPerms] \in RoleRow
    BY <2>1, RbacAssumption DEF Fresh, Stored, RoleRow, Opt
  <2>3. /\ orgs' \in [Orgs -> {Free, Gone} \cup OrgSlugs]
        /\ UNCHANGED <<users, members, resources, grants, erased>>
    BY <1>2, <2>1 DEF CreateOrganization, Stored
  <2> QED
    BY <1>1, <1>2, <2>1, <2>2, <2>3, NewRole DEF CreateOrganization
<1>3. CASE UpdateOrganization
  BY <1>1, <1>3
  DEF UpdateOrganization, Stored, Kept, GrantsKept, RoleKept, Live
<1>4. CASE DeleteOrganization
  <2>1. PICK o \in Orgs :
          /\ orgs' = [orgs EXCEPT ![o] = Gone]
          /\ members' = [u \in Users |-> members[u] \ {o}]
          /\ resources' = [s \in Resources |->
               IF Live(resources[s]) /\ resources[s].org = o
                 THEN Gone ELSE resources[s]]
          /\ LET old == {x \in Roles : Live(roles[x]) /\ roles[x].org = o}
             IN  /\ roles' = [x \in Roles |-> IF x \in old THEN Gone
                                                           ELSE roles[x]]
                 /\ grants' = [u \in Users |-> grants[u] \ old]
    BY <1>4 DEF DeleteOrganization
  <2>2. o # None
    BY RbacAssumption
  <2>3. /\ orgs' \in [Orgs -> {Free, Gone} \cup OrgSlugs]
        /\ members' \in [Users -> SUBSET Orgs]
        /\ resources' \in [Resources -> {Free, Gone} \cup ResourceRow]
        /\ roles' \in [Roles -> {Free, Gone} \cup RoleRow]
        /\ grants' \in [Users -> SUBSET Roles]
        /\ UNCHANGED <<users, erased>>
    BY <1>4, <2>1 DEF Stored, DeleteOrganization
  <2>4. \A u \in Users : \A x \in grants'[u] : Live(roles'[x])
    BY <2>1 DEF Stored, Live
  <2>5. Stored'
    BY <1>1, <1>4, <2>3, <2>4 DEF Stored, DeleteOrganization
  <2>6. Kept
    BY <2>1, <2>2, <2>3 DEF Kept, GrantsKept, RoleKept, Stored, Live
  <2> QED
    BY <2>5, <2>6
<1>5. CASE CreateResource
  BY <1>1, <1>5, MoreResources DEF CreateResource
<1>6. CASE DeleteResource
  BY <1>1, <1>6 DEF DeleteResource, Stored, Kept, GrantsKept, RoleKept, Live
<1>7. CASE CreateRole
  <2>1. PICK o \in Opt({p \in Orgs : Live(orgs[p])}), x \in Fresh(roles),
             slug \in Slugs :
          roles' = [roles EXCEPT
                      ![x] = [org |-> o, slug |-> slug, perms |-> {}]]
    BY <1>7 DEF CreateRole
  <2>2. /\ x \in Roles /\ roles[x] = Free
        /\ [org |-> o, slug |-> slug, perms |-> {}] \in RoleRow
    BY DEF Fresh, Stored, RoleRow, Opt
  <2> QED
    BY <1>1, <1>7, <2>1, <2>2, NewRole DEF CreateRole, Stored
<1>8. CASE AddRolePermission
  BY <1>1, <1>8, MorePermissions DEF AddRolePermission
<1>9. CASE MemberWrite
  BY <1>9, MembersWritten
<1> QED
  BY <1>2, <1>3, <1>4, <1>5, <1>6, <1>7, <1>8, <1>9 DEF Administer

\* The steps of the seed that write.
Saves(i) ==
  \/ SaveOrganization(i) \/ SaveSystemResource(i) \/ SaveRole(i)
  \/ SaveDefaultPermission(i) \/ SaveGrant(i)

\* Those that only read.
Reads(i) ==
  \/ EnsureOrganization(i) \/ EnsureResource(i) \/ EnsureRole(i)
  \/ ReadPermissions(i) \/ FindPlatformAdmin(i) \/ FindAdminRole(i)
  \/ FindUserRole(i)

LEMMA DefaultsThere ==
  /\ Len(SystemResources) \in Nat /\ Len(DefaultRoles) \in Nat
  /\ DOMAIN SystemResources = 1 .. Len(SystemResources)
  /\ DOMAIN DefaultRoles = 1 .. Len(DefaultRoles)
  /\ 1 \in DOMAIN SystemResources /\ 1 \in DOMAIN DefaultRoles
  BY SeedAssumption

LEMMA TypedStored == Typed => Stored
  BY DEF Typed, TypeOK, Stored

\* Where the seed is among the default roles.
LEMMA CurrentRole ==
  ASSUME NEW b, Len(b.map) \in DOMAIN DefaultRoles
  PROVE  /\ Current(b) \in DOMAIN DefaultRoles
         /\ SlugOf(b) \in DOMAIN DefaultPerms
         /\ DefaultPerms[SlugOf(b)] \in Seq(Perms) \ {<<>>}
<1>1. DefaultRoles \in Seq(Slugs)
  BY SeedAssumption
<1>2. Current(b) \in DOMAIN DefaultRoles
  <2>1. /\ Len(DefaultRoles) \in Nat
        /\ DOMAIN DefaultRoles = 1 .. Len(DefaultRoles)
    BY <1>1
  <2>2. \A n \in 1 .. Len(DefaultRoles) :
          Len(DefaultRoles) - n + 1 \in 1 .. Len(DefaultRoles)
    BY <2>1
  <2> QED
    BY <2>1, <2>2 DEF Current
<1>3. SlugOf(b) \in DOMAIN DefaultPerms
  <2>1. DOMAIN DefaultPerms = {DefaultRoles[k] : k \in DOMAIN DefaultRoles}
    BY SeedAssumption
  <2> QED
    BY <1>2, <2>1 DEF SlugOf
<1> QED
  BY <1>2, <1>3, SeedAssumption

LEMMA Saved ==
  ASSUME Typed, NEW i \in Instances, Saves(i), UNCHANGED left
  PROVE  Stored' /\ Kept
<1> DEFINE b == boot[i]
<1>1. /\ Stored /\ b \in Boot /\ Locals(b)
      /\ left' \in Budget
  BY TypedStored DEF Typed, TypeOK
<1>2. CASE SaveOrganization(i)
  <2>1. /\ UNCHANGED <<users, members, resources, roles, grants, erased>>
        /\ \E o \in Orgs : orgs' = [orgs EXCEPT ![o] = "system"]
    BY <1>1, <1>2 DEF SaveOrganization, Fresh, Stored
  <2>2. orgs' \in [Orgs -> {Free, Gone} \cup OrgSlugs]
    BY <1>1, <2>1 DEF Stored, OrgSlugs
  <2>3. Stored'
    BY <1>1, <2>1, <2>2 DEF Stored, Live
  <2> QED
    BY <2>1, <2>3 DEF Kept, GrantsKept, RoleKept, Live
<1>3. CASE SaveSystemResource(i)
  <2>1. b.org \in Orgs /\ SystemResources[b.k] \in Names
    BY <1>1, <1>3, SeedAssumption DEF SaveSystemResource, On, Locals, Naming
  <2> QED
    BY <1>1, <1>3, <2>1, MoreResources DEF SaveSystemResource
<1>4. CASE SaveRole(i)
  <2>1. DefaultRoles[b.k] \in Slugs
    BY <1>1, <1>4, SeedAssumption DEF SaveRole, On, Locals, Looking
  <2>2. PICK x \in Fresh(roles) :
          roles' = [roles EXCEPT ![x] =
                      [org |-> None, slug |-> DefaultRoles[b.k], perms |-> {}]]
    BY <1>4 DEF SaveRole
  <2>3. /\ x \in Roles /\ roles[x] = Free
        /\ [org |-> None, slug |-> DefaultRoles[b.k], perms |-> {}] \in RoleRow
    BY <1>1, <2>1 DEF Fresh, Stored, RoleRow, Opt
  <2> QED
    BY <1>1, <1>4, <2>2, <2>3, NewRole DEF SaveRole, Stored
<1>5. CASE SaveDefaultPermission(i)
  <2>1. /\ b.pc = "permission" /\ Len(b.map) \in DOMAIN DefaultRoles
        /\ b.k \in DOMAIN DefaultPerms[SlugOf(b)]
        /\ b.map \in Seq(Opt(Roles))
    BY <1>1, <1>5 DEF SaveDefaultPermission, On, Locals, Filling, Boot
  <2>3. DefaultPerms[SlugOf(b)][b.k] \in Perms
    BY <2>1, CurrentRole
  <2>4. 1 \in DOMAIN b.map /\ Head(b.map) = b.map[1]
    BY <2>1, SeedAssumption
  <2>5. Head(b.map) \in Roles
    BY <2>4 DEF Typed, Mapped
  <2> QED
    BY <1>1, <1>5, <2>3, <2>5, MorePermissions
    DEF SaveDefaultPermission, SlugOf
<1>6. CASE SaveGrant(i)
  <2>1. b.admin \in Users /\ b.role \in Roles
    BY <1>1, <1>6 DEF SaveGrant, On, Locals
  <2> QED
    BY <1>1, <1>6, <2>1, MoreGrants DEF SaveGrant, SaveUserRole
<1> QED
  BY <1>2, <1>3, <1>4, <1>5, <1>6 DEF Saves

LEMMA NextStored ==
  ASSUME Typed, Next
  PROVE  Stored' /\ Kept
<1>1. Stored
  BY TypedStored
<1>2. CASE UserWrite \/ Administer
  BY <1>1, <1>2, UsersWritten, Administered
<1>3. CASE CheckStep
  <2>1. UNCHANGED tables
    BY <1>3 DEF CheckStep, Receive, ResolveOrganization, Normalize, FindRoles,
       FindMemberships, Return, Becomes
  <2>2. ASSUME NEW r \in Reqs, Receive(r) PROVE left' \in Budget
    BY <1>1, <2>2 DEF Receive, Stored, Budget
  <2>3. left' \in Budget
    BY <1>1, <1>3, <2>2 DEF CheckStep, Stored
  <2> QED
    BY <1>1, <2>1, <2>3, SameTables
<1>4. CASE SeedStep
  <2>1. PICK i \in Instances : (Saves(i) \/ Reads(i)) /\ UNCHANGED left
    BY <1>4 DEF SeedStep, Saves, Reads
  <2>2. Reads(i) => UNCHANGED tables
    BY DEF Reads, EnsureOrganization, EnsureResource, EnsureRole,
       ReadPermissions, FindPlatformAdmin, FindAdminRole, FindUserRole
  <2> QED
    BY <1>1, <2>1, <2>2, Saved, SameTables DEF Stored
<1>5. ASSUME NEW i \in Instances, Start(i) \/ Crash(i) PROVE Stored' /\ Kept
  <2>1. UNCHANGED tables /\ left' \in Budget
    BY <1>1, <1>5 DEF Start, Crash, Stored, Budget
  <2> QED
    BY <1>1, <2>1, SameTables
<1> QED
  BY <1>2, <1>3, <1>4, <1>5 DEF Next

-----------------------------------------------------------------------------
(* Where the loops of the seed go on *)

LEMMA Least ==
  ASSUME NEW S \in SUBSET Nat, S # {}
  PROVE  \E n \in S : \A m \in S : n <= m
<1>1. PICK n \in S : \A m \in S : <<m, n>> \notin OpToRel(<, Nat)
  BY WFMin, NatLessThanWellFounded, Zenon
<1>2. \A m \in S : ~(m < n)
  BY <1>1 DEF OpToRel
<1> QED
  BY <1>2

\* existingKeys has the permissions that are passed over, and not the next one.
LEMMA MissingFound ==
  ASSUME NEW slug \in DOMAIN DefaultPerms, NEW have,
         NEW j \in 1 .. (Len(DefaultPerms[slug]) + 1)
  PROVE  LET m == MissingFrom(j, slug, have)
         IN  /\ m \in j .. (Len(DefaultPerms[slug]) + 1)
             /\ m <= Len(DefaultPerms[slug]) =>
                  DefaultPerms[slug][m] \notin have
             /\ \A n \in j .. (m - 1) : DefaultPerms[slug][n] \in have
<1> DEFINE defs == DefaultPerms[slug]
           free == {n \in j .. Len(defs) : defs[n] \notin have}
<1>1. Len(defs) \in Nat
  BY SeedAssumption
<1> HIDE DEF defs
<1>2. CASE free = {}
  <2>1. MissingFrom(j, slug, have) = Len(defs) + 1
    BY <1>2 DEF MissingFrom, defs
  <2> QED
    BY <1>1, <1>2, <2>1 DEF defs
<1>3. CASE free # {}
  <2>1. free \in SUBSET Nat
    BY <1>1
  <2> HIDE DEF free
  <2>2. PICK n \in free : \A m \in free : n <= m
    BY <1>3, <2>1, Least
  <2> USE DEF free
  <2>3. MissingFrom(j, slug, have) =
          CHOOSE m \in free : \A l \in free : m <= l
    BY <1>3 DEF MissingFrom, defs
  <2>4. /\ MissingFrom(j, slug, have) \in free
        /\ \A l \in free : MissingFrom(j, slug, have) <= l
    BY <2>2, <2>3
  <2> QED
    BY <1>1, <2>4 DEF defs
<1> QED
  BY <1>2, <1>3

\* The state of an instance that goes on is well typed.
LEMMA BootCounts ==
  ASSUME NEW b \in Boot, NEW k \in Nat
  PROVE  /\ [b EXCEPT !.pc = "role", !.k = k] \in Boot
         /\ [b EXCEPT !.pc = "resource", !.k = k] \in Boot
         /\ [b EXCEPT !.pc = "permission", !.k = k] \in Boot
  BY DEF Boot

LEMMA BootMaps ==
  ASSUME NEW b \in Boot, NEW k \in Nat, NEW map \in Seq(Opt(Roles))
  PROVE  /\ [b EXCEPT !.map = map, !.pc = "role", !.k = k] \in Boot
         /\ [b EXCEPT !.map = map, !.pc = "permissions", !.k = k] \in Boot
         /\ [b EXCEPT !.pc = "permissions", !.k = k, !.have = {},
                      !.map = map] \in Boot
         /\ [b EXCEPT !.pc = "admin", !.k = k, !.have = {}, !.map = map]
              \in Boot
  BY DEF Boot

LEMMA AfterResource ==
  ASSUME NEW b \in Boot, Locals(b), b.pc \in Naming, NEW c,
         c = NextResource(b)
  PROVE  /\ c \in Boot /\ Locals(c)
         /\ c.pc \in {"resource", "role"} /\ c.map = <<>>
<1>1. /\ Len(SystemResources) \in Nat
      /\ DOMAIN SystemResources = 1 .. Len(SystemResources)
      /\ 1 \in DOMAIN DefaultRoles
  BY SeedAssumption
<1>2. /\ b.org \in Orgs /\ b.k \in 1 .. Len(SystemResources)
      /\ b.map = <<>> /\ b.admin = None
  BY <1>1 DEF Locals, Naming, Looking, Filling
<1>3. CASE b.k = Len(SystemResources)
  <2>1. c = [b EXCEPT !.pc = "role", !.k = 1]
    BY <1>3 DEF NextResource
  <2>2. c.pc = "role" /\ c.k = 1 /\ c.map = <<>> /\ c.admin = None
    BY <1>2, <2>1 DEF Boot
  <2>3. c \in Boot
    BY <2>1, BootCounts
  <2>4. Locals(c)
    BY <1>1, <2>2 DEF Locals, Early, Naming, Looking, Filling
  <2> QED
    BY <2>2, <2>3, <2>4
<1>4. CASE b.k # Len(SystemResources)
  <2>1. c = [b EXCEPT !.pc = "resource", !.k = @ + 1]
    BY <1>4 DEF NextResource
  <2>2. /\ c.pc = "resource" /\ c.k = b.k + 1 /\ c.map = <<>> /\ c.admin = None
        /\ c.org \in Orgs
    BY <1>2, <2>1 DEF Boot
  <2>3. b.k + 1 \in Nat
    BY DEF Boot
  <2>4. c \in Boot
    BY <2>1, <2>3, BootCounts
  <2>5. Locals(c)
    BY <1>1, <1>2, <1>4, <2>2 DEF Locals, Early, Naming, Looking, Filling
  <2> QED
    BY <2>2, <2>4, <2>5
<1> QED
  BY <1>3, <1>4

LEMMA AfterRole ==
  ASSUME NEW b \in Boot, Locals(b), b.pc \in Looking, NEW x \in Roles, NEW c,
         c = NextRole(b, x)
  PROVE  /\ c \in Boot /\ Locals(c)
         /\ c.pc \in {"role", "permissions"}
         /\ c.map = Append(b.map, x) /\ Len(c.map) = b.k
         /\ c.pc = "permissions" => b.k = Len(DefaultRoles)
<1>1. /\ Len(DefaultRoles) \in Nat
      /\ DOMAIN DefaultRoles = 1 .. Len(DefaultRoles)
  BY SeedAssumption
<1>2. /\ b.k \in 1 .. Len(DefaultRoles) /\ Len(b.map) = b.k - 1
      /\ b.map \in Seq(Opt(Roles)) /\ b.admin = None
  BY <1>1 DEF Boot, Locals, Looking
<1>3. /\ Append(b.map, x) \in Seq(Opt(Roles))
      /\ Len(Append(b.map, x)) = b.k
  BY <1>2 DEF Opt
<1>4. 1 \in Nat
  OBVIOUS
<1>5. CASE b.k = Len(DefaultRoles)
  <2>1. c = [b EXCEPT !.map = Append(@, x), !.pc = "permissions", !.k = 1]
    BY <1>5 DEF NextRole, Boot
  <2>2. c.pc = "permissions" /\ c.map = Append(b.map, x) /\ c.admin = None
    BY <1>2, <2>1 DEF Boot
  <2>3. c \in Boot
    <3>1. [b EXCEPT !.map = Append(b.map, x), !.pc = "permissions", !.k = 1]
            \in Boot
      BY <1>3, <1>4, BootMaps
    <3> QED
      BY <2>1, <3>1
  <2>4. Locals(c)
    BY <1>1, <1>2, <1>3, <1>5, <2>2
    DEF Locals, Early, Naming, Looking, Filling
  <2> QED
    BY <1>3, <1>5, <2>2, <2>3, <2>4
<1>6. CASE b.k # Len(DefaultRoles)
  <2>1. c = [b EXCEPT !.map = Append(@, x), !.pc = "role", !.k = @ + 1]
    BY <1>6 DEF NextRole, Boot
  <2>2. /\ c.pc = "role" /\ c.map = Append(b.map, x) /\ c.admin = None
        /\ c.k = b.k + 1
    BY <1>2, <2>1 DEF Boot
  <2>3. b.k + 1 \in Nat
    BY <1>2
  <2>4. c \in Boot
    <3>1. [b EXCEPT !.map = Append(b.map, x), !.pc = "role", !.k = b.k + 1]
            \in Boot
      BY <1>3, <2>3, BootMaps
    <3> QED
      BY <2>1, <3>1
  <2>5. Locals(c)
    BY <1>1, <1>2, <1>3, <1>6, <2>2
    DEF Locals, Early, Naming, Looking, Filling
  <2> QED
    BY <1>3, <1>6, <2>2, <2>4, <2>5
<1> QED
  BY <1>5, <1>6

\* The seed goes on with the permission j of the first role of the map, with the
\* next role or, when there is none, with the administrator.
Onward(b, j, c) ==
  /\ c \in Boot /\ Locals(c)
  /\ \/ /\ j <= Len(DefaultPerms[SlugOf(b)])
        /\ c.pc = "permission" /\ c.k = j
        /\ c.map = b.map /\ c.have = b.have
     \/ /\ j = Len(DefaultPerms[SlugOf(b)]) + 1
        /\ Len(b.map) > 1
        /\ c.pc = "permissions" /\ c.map = Tail(b.map)
     \/ /\ j = Len(DefaultPerms[SlugOf(b)]) + 1
        /\ Len(b.map) = 1
        /\ c.pc = "admin" /\ c.map = <<>>

LEMMA AfterPermission ==
  ASSUME NEW b \in Boot, b.pc \in Filling, b.admin = None,
         Len(b.map) \in DOMAIN DefaultRoles,
         NEW j \in 1 .. (Len(DefaultPerms[SlugOf(b)]) + 1),
         j <= Len(DefaultPerms[SlugOf(b)]) =>
           DefaultPerms[SlugOf(b)][j] \notin b.have,
         NEW c, c = NextPermission(b, Current(b), j)
  PROVE  Onward(b, j, c)
<1> DEFINE last == Len(DefaultPerms[SlugOf(b)])
<1>1. /\ DefaultRoles \in Seq(Slugs)
      /\ DefaultPerms[SlugOf(b)] \in Seq(Perms)
  BY SeedAssumption, CurrentRole
<1>2. /\ Len(DefaultRoles) \in Nat /\ Len(b.map) \in 1 .. Len(DefaultRoles)
      /\ DOMAIN DefaultRoles = 1 .. Len(DefaultRoles)
      /\ last \in Nat /\ DOMAIN DefaultPerms[SlugOf(b)] = 1 .. last
      /\ b.map \in Seq(Opt(Roles))
  BY <1>1 DEF Boot
<1>3. Current(b) < Len(DefaultRoles) <=> Len(b.map) > 1
  <2>1. \A m, n \in Int : m - n + 1 < m <=> n > 1
    OBVIOUS
  <2>2. Len(DefaultRoles) \in Int /\ Len(b.map) \in Int
    BY <1>2
  <2> QED
    BY <2>1, <2>2 DEF Current
<1>9. 1 \in Nat /\ j \in Nat
  BY <1>2
<1> HIDE DEF last
<1>4. CASE j <= last
  <2>1. c = [b EXCEPT !.pc = "permission", !.k = j]
    BY <1>4 DEF NextPermission, SlugOf, last
  <2>2. /\ c.pc = "permission" /\ c.k = j /\ c.map = b.map
        /\ c.have = b.have /\ c.admin = None
    BY <2>1 DEF Boot
  <2>3. c \in Boot
    BY <1>9, <2>1, BootCounts, Zenon
  <2>4. SlugOf(c) = SlugOf(b)
    BY <2>2 DEF SlugOf, Current
  <2>5. Locals(c)
    BY <1>2, <1>4, <2>2, <2>4
    DEF Locals, Early, Naming, Looking, Filling, last
  <2> QED
    BY <1>4, <2>2, <2>3, <2>5 DEF last, Onward
<1>5. CASE j = last + 1 /\ Len(b.map) > 1
  <2>1. c = [b EXCEPT !.pc = "permissions", !.k = 1, !.have = {},
                      !.map = Tail(@)]
    BY <1>2, <1>3, <1>5 DEF NextPermission, SlugOf, last
  <2>2. /\ Tail(b.map) \in Seq(Opt(Roles))
        /\ Len(Tail(b.map)) = Len(b.map) - 1
        /\ Len(Tail(b.map)) \in DOMAIN DefaultRoles
    BY <1>2, <1>5
  <2>3. c.pc = "permissions" /\ c.map = Tail(b.map) /\ c.admin = None
    BY <2>1 DEF Boot
  <2>4. c \in Boot
    <3>1. [b EXCEPT !.pc = "permissions", !.k = 1, !.have = {},
                    !.map = Tail(b.map)] \in Boot
      BY <1>9, <2>2, BootMaps
    <3> QED
      BY <2>1, <3>1
  <2>5. Locals(c)
    BY <2>2, <2>3 DEF Locals, Early, Naming, Looking, Filling
  <2> QED
    BY <1>5, <2>3, <2>4, <2>5 DEF last, Onward
<1>6. CASE j = last + 1 /\ Len(b.map) = 1
  <2>1. c = [b EXCEPT !.pc = "admin", !.k = 1, !.have = {}, !.map = <<>>]
    BY <1>2, <1>3, <1>6 DEF NextPermission, SlugOf, last
  <2>2. c.pc = "admin" /\ c.map = <<>> /\ c.admin = None
    BY <2>1 DEF Boot
  <2>3. <<>> \in Seq(Opt(Roles))
    OBVIOUS
  <2>4. c \in Boot
    <3>1. [b EXCEPT !.pc = "admin", !.k = 1, !.have = {}, !.map = <<>>]
            \in Boot
      BY <1>9, <2>3, BootMaps
    <3> QED
      BY <2>1, <3>1
  <2>5. Locals(c)
    BY <2>2 DEF Locals, Early, Naming, Looking, Filling
  <2> QED
    BY <1>6, <2>2, <2>4, <2>5 DEF last, Onward
<1>7. j <= last \/ j = last + 1
  BY <1>2 DEF last
<1>8. Len(b.map) > 1 \/ Len(b.map) = 1
  <2>1. \A m \in Nat : \A n \in 1 .. m : n > 1 \/ n = 1
    OBVIOUS
  <2> QED
    BY <1>2, <2>1
<1> QED
  BY <1>4, <1>5, <1>6, <1>7, <1>8

-----------------------------------------------------------------------------
(* The state of an instance after a step of the seed *)

LEMMA MapKept ==
  ASSUME Kept, NEW map, Mapped(roles, map)
  PROVE  Mapped(roles', map)
  BY DEF Mapped, Kept, RoleKept

LEMMA BootTurns ==
  ASSUME NEW b \in Boot
  PROVE  /\ [b EXCEPT !.pc = "saveOrg"] \in Boot
         /\ [b EXCEPT !.pc = "saveResource"] \in Boot
         /\ [b EXCEPT !.pc = "saveRole"] \in Boot
         /\ \A o \in Orgs : [b EXCEPT !.pc = "resource", !.org = o] \in Boot
         /\ \A u \in Users : [b EXCEPT !.pc = "adminRole", !.admin = u] \in Boot
         /\ \A x \in Roles :
              [b EXCEPT !.pc = "adminGrant", !.role = x] \in Boot
         /\ [b EXCEPT !.pc = "saveGrant"] \in Boot
         /\ \A have \in SUBSET Perms : [b EXCEPT !.have = have] \in Boot
  BY DEF Boot, Opt

LEMMA UpIsTyped ==
  ASSUME NEW b \in Boot, NEW c,
         c = Up(b) \/ c = Up([b EXCEPT !.admin = None])
  PROVE  /\ c \in Boot /\ Locals(c) /\ c.pc = "up" /\ c.map = <<>>
         /\ c.admin \in {None, b.admin}
<1>1. Down \in Boot
  <2>1. <<>> \in Seq(Opt(Roles))
    OBVIOUS
  <2> QED
    BY <2>1 DEF Down, Boot, Opt
<1>2. \E u \in {None, b.admin} : c = [Down EXCEPT !.pc = "up", !.admin = u]
  <2>1. [b EXCEPT !.admin = None].admin = None
    BY DEF Boot
  <2> QED
    BY <2>1 DEF Up
<1>3. \A u \in Opt(Users) :
        /\ [Down EXCEPT !.pc = "up", !.admin = u] \in Boot
        /\ [Down EXCEPT !.pc = "up", !.admin = u].admin = u
  BY <1>1 DEF Boot
<1>4. b.admin \in Opt(Users) /\ None \in Opt(Users)
  BY DEF Boot, Opt
<1>5. c \in Boot /\ c.pc = "up" /\ c.map = <<>> /\ c.admin \in {None, b.admin}
  <2>1. PICK u \in {None, b.admin} : c = [Down EXCEPT !.pc = "up", !.admin = u]
    BY <1>2
  <2>2. c \in Boot /\ c.admin = u
    BY <1>3, <1>4, <2>1
  <2>3. c.pc = "up" /\ c.map = <<>>
    BY <2>1 DEF Down
  <2> QED
    BY <2>1, <2>2, <2>3
<1>6. Locals(c)
  BY <1>5 DEF Locals, Early, Naming, Looking, Filling
<1> QED
  BY <1>5, <1>6

\* Until the roles are looked for: the map is empty.
LEMMA StepToResources ==
  ASSUME NEW b \in Boot, Locals(b), NEW c,
         \/ b.pc = "organisation" /\ c = [b EXCEPT !.pc = "saveOrg"]
         \/ /\ b.pc \in Early
            /\ \E o \in Orgs : c = [b EXCEPT !.pc = "resource", !.org = o]
         \/ b.pc = "resource" /\ c = [b EXCEPT !.pc = "saveResource"]
         \/ b.pc \in Naming /\ c = NextResource(b)
  PROVE  c \in Boot /\ Locals(c) /\ c.map = <<>>
<1>1. 1 \in DOMAIN SystemResources
  BY DefaultsThere, Zenon
<1>2. b.map = <<>> /\ b.admin = None
  BY DEF Locals, Early, Naming, Looking, Filling
<1>3. CASE b.pc = "organisation" /\ c = [b EXCEPT !.pc = "saveOrg"]
  <2>1. c.pc = "saveOrg" /\ c.k = 1 /\ c.map = <<>> /\ c.admin = None
    BY <1>2, <1>3 DEF Boot, Locals, Early
  <2>2. c \in Boot
    BY <1>3, BootTurns
  <2> QED
    BY <2>1, <2>2 DEF Locals, Early, Naming, Looking, Filling
<1>4. ASSUME b.pc \in Early, NEW o \in Orgs,
             c = [b EXCEPT !.pc = "resource", !.org = o]
      PROVE  c \in Boot /\ Locals(c) /\ c.map = <<>>
  <2>1. /\ c.pc = "resource" /\ c.k = 1 /\ c.org \in Orgs
        /\ c.map = <<>> /\ c.admin = None
    BY <1>2, <1>4 DEF Boot, Locals, Early
  <2>2. c \in Boot
    BY <1>4, BootTurns
  <2> QED
    BY <1>1, <2>1, <2>2 DEF Locals, Early, Naming, Looking, Filling
<1>5. CASE b.pc = "resource" /\ c = [b EXCEPT !.pc = "saveResource"]
  <2>1. /\ c.pc = "saveResource" /\ c.k = b.k /\ c.org = b.org
        /\ c.map = <<>> /\ c.admin = None
    BY <1>2, <1>5 DEF Boot
  <2>2. c \in Boot
    BY <1>5, BootTurns
  <2> QED
    BY <1>5, <2>1, <2>2 DEF Locals, Early, Naming, Looking, Filling
<1>6. CASE b.pc \in Naming /\ c = NextResource(b)
  BY <1>6, AfterResource
<1> QED
  BY <1>3, <1>4, <1>5, <1>6

\* What the seed asks for next when existingKeys is known.
LEMMA NextMissing ==
  ASSUME NEW b \in Boot, b.pc \in Filling, b.admin = None,
         Len(b.map) \in DOMAIN DefaultRoles,
         NEW k \in 1 .. (Len(DefaultPerms[SlugOf(b)]) + 1)
  PROVE  LET j == MissingFrom(k, SlugOf(b), b.have)
         IN  /\ Onward(b, j, NextPermission(b, Current(b), j))
             /\ j \in k .. (Len(DefaultPerms[SlugOf(b)]) + 1)
             /\ \A n \in k .. (j - 1) : DefaultPerms[SlugOf(b)][n] \in b.have
<1> DEFINE j == MissingFrom(k, SlugOf(b), b.have)
<1>1. /\ SlugOf(b) \in DOMAIN DefaultPerms
      /\ Len(DefaultPerms[SlugOf(b)]) \in Nat
  BY CurrentRole
<1>2. /\ j \in k .. (Len(DefaultPerms[SlugOf(b)]) + 1)
      /\ j <= Len(DefaultPerms[SlugOf(b)]) =>
           DefaultPerms[SlugOf(b)][j] \notin b.have
      /\ \A n \in k .. (j - 1) : DefaultPerms[SlugOf(b)][n] \in b.have
  BY <1>1, MissingFound
<1> HIDE DEF j
<1>3. j \in 1 .. (Len(DefaultPerms[SlugOf(b)]) + 1)
  BY <1>1, <1>2
<1>4. Onward(b, j, NextPermission(b, Current(b), j))
  BY <1>2, <1>3, AfterPermission
<1> QED
  BY <1>2, <1>4 DEF j

LEMMA HeadOfMap ==
  ASSUME NEW b \in Boot, Len(b.map) \in DOMAIN DefaultRoles, Mapped(roles, b.map)
  PROVE  /\ Head(b.map) = b.map[1] /\ Head(b.map) \in Roles
         /\ Live(roles[Head(b.map)]) /\ 1 \in DOMAIN b.map
<1>1. b.map \in Seq(Opt(Roles)) /\ Len(b.map) \in Nat \ {0}
  BY DefaultsThere DEF Boot
<1>2. Head(b.map) = b.map[1] /\ 1 \in DOMAIN b.map
  BY <1>1
<1> QED
  BY <1>2 DEF Mapped

\* A longer map of global roles, and one without its first.
LEMMA MapGrows ==
  ASSUME NEW rows, NEW s \in Seq(Opt(Roles)), Mapped(rows, s), NEW x \in Roles,
         Live(rows[x]), rows[x].org = None
  PROVE  Mapped(rows, Append(s, x))
<1>1. \A n \in DOMAIN Append(s, x) :
        (n \in DOMAIN s /\ Append(s, x)[n] = s[n]) \/ Append(s, x)[n] = x
  OBVIOUS
<1> QED
  BY <1>1 DEF Mapped

LEMMA MapShrinks ==
  ASSUME NEW rows, NEW s \in Seq(Opt(Roles)), Mapped(rows, s), Len(s) > 1
  PROVE  Mapped(rows, Tail(s))
<1>1. \A n \in DOMAIN Tail(s) : n + 1 \in DOMAIN s /\ Tail(s)[n] = s[n + 1]
  OBVIOUS
<1> QED
  BY <1>1 DEF Mapped

\* A step of the seed moves one instance, whose state stays well typed.
Moved(i, c) ==
  /\ boot' = [boot EXCEPT ![i] = c]
  /\ c \in Boot /\ Locals(c) /\ Mapped(roles', c.map)
  /\ twice' \in BOOLEAN

LEMMA Booted ==
  ASSUME Typed, Kept, Stored', NEW i \in Instances, Saves(i) \/ Reads(i)
  PROVE  \E c : Moved(i, c)
<1>0. PICK b : b = boot[i]
  OBVIOUS
<1>1. /\ b \in Boot /\ Locals(b) /\ Mapped(roles, b.map) /\ Mapped(roles', b.map)
      /\ b.map \in Seq(Opt(Roles)) /\ twice \in BOOLEAN /\ Stored
  BY <1>0, MapKept, TypedStored DEF Typed, TypeOK, Boot
<1>2. Mapped(roles', <<>>)
  BY DEF Mapped
<1>3. ASSUME NEW c, Goes(i, c), c \in Boot, Locals(c), c.map = <<>>,
             twice' \in BOOLEAN
      PROVE  \E d : Moved(i, d)
  BY <1>2, <1>3 DEF Moved, Goes
<1>4. CASE EnsureOrganization(i)
  <2>1. PICK c : /\ Goes(i, c)
                 /\ \/ b.pc = "organisation" /\ c = [b EXCEPT !.pc = "saveOrg"]
                    \/ /\ b.pc \in Early
                       /\ \E o \in Orgs :
                            c = [b EXCEPT !.pc = "resource", !.org = o]
    BY <1>0, <1>4 DEF EnsureOrganization, SystemOrgs, On, Early
  <2>2. c \in Boot /\ Locals(c) /\ c.map = <<>>
    BY <1>1, <2>1, StepToResources
  <2> QED
    BY <1>0, <1>1, <1>3, <1>4, <2>1, <2>2 DEF EnsureOrganization
<1>5. CASE SaveOrganization(i)
  <2>1. PICK c : /\ Goes(i, c)
                 /\ b.pc \in Early
                 /\ \E o \in Orgs : c = [b EXCEPT !.pc = "resource", !.org = o]
    BY <1>0, <1>1, <1>5 DEF SaveOrganization, Fresh, On, Early, Stored
  <2>2. c \in Boot /\ Locals(c) /\ c.map = <<>>
    BY <1>1, <2>1, StepToResources
  <2> QED
    BY <1>0, <1>1, <1>3, <1>5, <2>1, <2>2 DEF SaveOrganization
<1>6. CASE EnsureResource(i)
  <2>1. PICK c : /\ Goes(i, c)
                 /\ \/ b.pc = "resource" /\ c = [b EXCEPT !.pc = "saveResource"]
                    \/ b.pc \in Naming /\ c = NextResource(b)
    BY <1>0, <1>6 DEF EnsureResource, On, Naming
  <2>2. c \in Boot /\ Locals(c) /\ c.map = <<>>
    BY <1>1, <2>1, StepToResources
  <2> QED
    BY <1>0, <1>1, <1>3, <1>6, <2>1, <2>2 DEF EnsureResource
<1>7. CASE SaveSystemResource(i)
  <2>1. PICK c : Goes(i, c) /\ b.pc \in Naming /\ c = NextResource(b)
    BY <1>0, <1>7 DEF SaveSystemResource, On, Naming
  <2>2. c \in Boot /\ Locals(c) /\ c.map = <<>>
    BY <1>1, <2>1, StepToResources
  <2>3. twice' \in BOOLEAN
    BY <1>0, <1>1, <1>7 DEF SaveSystemResource
  <2> QED
    BY <1>3, <2>1, <2>2, <2>3
<1>8. ASSUME NEW x \in Roles, Live(roles'[x]), roles'[x].org = None,
             On(i, "role") \/ On(i, "saveRole"), Goes(i, NextRole(b, x)),
             twice' \in BOOLEAN
      PROVE  \E c : Moved(i, c)
  <2>1. PICK c : c = NextRole(b, x)
    OBVIOUS
  <2>2. b.pc \in Looking
    BY <1>0, <1>8 DEF On, Looking
  <2>3. c \in Boot /\ Locals(c) /\ c.map = Append(b.map, x)
    BY <1>1, <2>1, <2>2, AfterRole
  <2>4. Mapped(roles', Append(b.map, x))
    BY <1>1, <1>8, MapGrows
  <2> QED
    BY <1>8, <2>1, <2>3, <2>4 DEF Moved, Goes
<1>9. CASE EnsureRole(i)
  <2>1. CASE Goes(i, [b EXCEPT !.pc = "saveRole"])
    <3>1. PICK c : c = [b EXCEPT !.pc = "saveRole"]
      OBVIOUS
    <3>2. b.pc = "role" /\ UNCHANGED twice
      BY <1>0, <1>9 DEF EnsureRole, On
    <3>3. /\ c.pc = "saveRole" /\ c.k = b.k /\ c.map = b.map
          /\ c.admin = b.admin
      BY <1>1, <3>1 DEF Boot
    <3>4. c \in Boot
      BY <1>1, <3>1, BootTurns
    <3>5. Locals(c)
      BY <1>1, <3>2, <3>3 DEF Locals, Early, Naming, Looking, Filling
    <3> QED
      BY <1>1, <2>1, <3>1, <3>2, <3>3, <3>4, <3>5 DEF Moved, Goes
  <2>2. ASSUME NEW x \in FindDefault(DefaultRoles[b.k]),
               Goes(i, NextRole(b, x))
        PROVE  \E c : Moved(i, c)
    <3>1. x \in Roles /\ Live(roles'[x]) /\ roles'[x].org = None
      BY <1>0, <1>9 DEF EnsureRole, FindDefault, FindBySlug, tables
    <3> QED
      BY <1>0, <1>1, <1>8, <1>9, <2>2, <3>1 DEF EnsureRole
  <2> QED
    BY <1>0, <1>9, <2>1, <2>2 DEF EnsureRole
<1>10. CASE SaveRole(i)
  <2>1. PICK x \in Fresh(roles) :
          /\ roles' = [roles EXCEPT ![x] =
               [org |-> None, slug |-> DefaultRoles[b.k], perms |-> {}]]
          /\ Goes(i, NextRole(b, x))
    BY <1>0, <1>10 DEF SaveRole
  <2>2. x \in Roles /\ roles'[x] = [org |-> None, slug |-> DefaultRoles[b.k],
                                    perms |-> {}]
    BY <1>1, <2>1 DEF Fresh, Stored
  <2>3. DefaultRoles[b.k] \in Slugs
    BY <1>0, <1>1, <1>10, SeedAssumption DEF SaveRole, On, Locals, Looking
  <2>4. roles'[x] \in RoleRow
    BY <2>2, <2>3 DEF RoleRow, Opt
  <2>5. Live(roles'[x]) /\ roles'[x].org = None
    BY <2>2, <2>4, RowsAreLive
  <2>6. twice' \in BOOLEAN
    BY <1>0, <1>1, <1>10 DEF SaveRole
  <2> QED
    BY <1>0, <1>8, <1>10, <2>1, <2>2, <2>5, <2>6 DEF SaveRole
<1>11. ASSUME NEW d \in Boot, NEW j, Onward(d, j, NextPermission(d, Current(d), j)),
              d.map = b.map, Goes(i, NextPermission(d, Current(d), j)),
              twice' \in BOOLEAN
       PROVE  \E c : Moved(i, c)
  <2>1. PICK c : c = NextPermission(d, Current(d), j)
    OBVIOUS
  <2>2. Onward(d, j, c) /\ Goes(i, c)
    BY <1>11, <2>1
  <2>3. Len(b.map) > 1 => Mapped(roles', Tail(b.map))
    BY <1>1, MapShrinks
  <2>4. Mapped(roles', c.map)
    BY <1>1, <1>2, <1>11, <2>2, <2>3 DEF Onward
  <2> QED
    BY <1>11, <2>2, <2>4 DEF Moved, Goes, Onward
<1>12. CASE ReadPermissions(i)
  <2>1. b.pc \in Filling /\ Len(b.map) \in DOMAIN DefaultRoles /\ b.admin = None
    BY <1>0, <1>1, <1>12 DEF ReadPermissions, On, Locals, Filling
  <2>2. PICK d : d = [b EXCEPT !.have = roles[Head(b.map)].perms]
    OBVIOUS
  <2>3. roles[Head(b.map)] \in RoleRow
    BY <1>1, <2>1, HeadOfMap DEF Stored, Live
  <2>4. d \in Boot
    BY <1>1, <2>2, <2>3, BootTurns DEF RoleRow
  <2>5. d.pc \in Filling /\ d.map = b.map /\ d.admin = None
        /\ d.have = roles[Head(b.map)].perms
    BY <1>1, <2>1, <2>2 DEF Boot
  <2>6. Current(d) = Current(b) /\ SlugOf(d) = SlugOf(b)
    BY <2>5 DEF SlugOf, Current
  <2>7. 1 \in 1 .. (Len(DefaultPerms[SlugOf(d)]) + 1)
    BY <2>1, <2>6, CurrentRole
  <2>8. PICK j : j = MissingFrom(1, SlugOf(d), d.have)
    OBVIOUS
  <2>9. Onward(d, j, NextPermission(d, Current(d), j))
    BY <2>1, <2>4, <2>5, <2>7, <2>8, NextMissing
  <2>10. Goes(i, NextPermission(d, Current(d), j))
    BY <1>0, <1>12, <2>2, <2>5, <2>6, <2>8 DEF ReadPermissions, SlugOf
  <2> QED
    BY <1>0, <1>1, <1>11, <1>12, <2>4, <2>5, <2>9, <2>10 DEF ReadPermissions
<1>13. CASE SaveDefaultPermission(i)
  <2>1. /\ b.pc \in Filling /\ Len(b.map) \in DOMAIN DefaultRoles /\ b.admin = None
        /\ b.k \in DOMAIN DefaultPerms[SlugOf(b)]
    BY <1>0, <1>1, <1>13 DEF SaveDefaultPermission, On, Locals, Filling
  <2>2. b.k + 1 \in 1 .. (Len(DefaultPerms[SlugOf(b)]) + 1)
    BY <2>1, CurrentRole
  <2>3. PICK j : j = MissingFrom(b.k + 1, SlugOf(b), b.have)
    OBVIOUS
  <2>4. Onward(b, j, NextPermission(b, Current(b), j))
    BY <1>1, <2>1, <2>2, <2>3, NextMissing
  <2>5. Goes(i, NextPermission(b, Current(b), j)) /\ twice' \in BOOLEAN
    BY <1>0, <1>1, <1>13, <2>3 DEF SaveDefaultPermission, SlugOf
  <2> QED
    BY <1>1, <1>11, <2>4, <2>5
<1>14. CASE FindPlatformAdmin(i)
  <2>1. b.pc = "admin" /\ b.map = <<>> /\ UNCHANGED twice
    BY <1>0, <1>1, <1>14 DEF FindPlatformAdmin, On, Locals, Looking, Filling
  <2>2. CASE Goes(i, Up(b))
    BY <1>1, <1>3, <2>1, <2>2, UpIsTyped
  <2>3. ASSUME NEW u \in Users,
               Goes(i, [b EXCEPT !.pc = "adminRole", !.admin = u])
        PROVE  \E c : Moved(i, c)
    <3>1. PICK c : c = [b EXCEPT !.pc = "adminRole", !.admin = u]
      OBVIOUS
    <3>2. c.pc = "adminRole" /\ c.admin = u /\ c.map = <<>>
      BY <1>1, <2>1, <3>1 DEF Boot
    <3>3. c \in Boot
      BY <1>1, <3>1, BootTurns
    <3>4. Locals(c)
      BY <3>2 DEF Locals, Early, Naming, Looking, Filling
    <3> QED
      BY <1>1, <1>3, <2>1, <2>3, <3>1, <3>2, <3>3, <3>4
  <2> QED
    BY <1>0, <1>14, <2>2, <2>3 DEF FindPlatformAdmin, PlatformAdmins
<1>15. CASE FindAdminRole(i)
  <2>1. /\ b.pc = "adminRole" /\ b.map = <<>> /\ b.admin \in Users
        /\ UNCHANGED twice
    BY <1>0, <1>1, <1>15 DEF FindAdminRole, On, Locals, Looking, Filling
  <2>2. CASE Goes(i, Up([b EXCEPT !.admin = None]))
    BY <1>1, <1>3, <2>1, <2>2, UpIsTyped
  <2>3. ASSUME NEW x \in Roles,
               Goes(i, [b EXCEPT !.pc = "adminGrant", !.role = x])
        PROVE  \E c : Moved(i, c)
    <3>1. PICK c : c = [b EXCEPT !.pc = "adminGrant", !.role = x]
      OBVIOUS
    <3>2. /\ c.pc = "adminGrant" /\ c.role = x /\ c.admin \in Users
          /\ c.map = <<>>
      BY <1>1, <2>1, <3>1 DEF Boot
    <3>3. c \in Boot
      BY <1>1, <3>1, BootTurns
    <3>4. Locals(c)
      BY <3>2 DEF Locals, Early, Naming, Looking, Filling
    <3> QED
      BY <1>1, <1>3, <2>1, <2>3, <3>1, <3>2, <3>3, <3>4
  <2> QED
    BY <1>0, <1>15, <2>2, <2>3 DEF FindAdminRole, FindDefault, FindBySlug
<1>16. CASE FindUserRole(i)
  <2>1. /\ b.pc = "adminGrant" /\ b.map = <<>>
        /\ b.admin \in Users /\ b.role \in Roles /\ UNCHANGED twice
    BY <1>0, <1>1, <1>16 DEF FindUserRole, On, Locals, Looking, Filling
  <2>2. CASE Goes(i, Up(b))
    BY <1>1, <1>3, <2>1, <2>2, UpIsTyped
  <2>3. CASE Goes(i, [b EXCEPT !.pc = "saveGrant"])
    <3>1. PICK c : c = [b EXCEPT !.pc = "saveGrant"]
      OBVIOUS
    <3>2. /\ c.pc = "saveGrant" /\ c.role \in Roles /\ c.admin \in Users
          /\ c.map = <<>>
      BY <1>1, <2>1, <3>1 DEF Boot
    <3>3. c \in Boot
      BY <1>1, <3>1, BootTurns
    <3>4. Locals(c)
      BY <3>2 DEF Locals, Early, Naming, Looking, Filling
    <3> QED
      BY <1>1, <1>3, <2>1, <2>3, <3>1, <3>2, <3>3, <3>4
  <2> QED
    BY <1>0, <1>16, <2>2, <2>3 DEF FindUserRole
<1>17. CASE SaveGrant(i)
  <2>1. Goes(i, Up(b)) /\ UNCHANGED twice
    BY <1>0, <1>17 DEF SaveGrant
  <2> QED
    BY <1>1, <1>3, <2>1, UpIsTyped
<1> QED
  BY <1>4, <1>5, <1>6, <1>7, <1>9, <1>10, <1>12, <1>13, <1>14, <1>15, <1>16,
     <1>17
  DEF Saves, Reads

-----------------------------------------------------------------------------
(* Types *)

Asked ==
  /\ req \in [Reqs -> Check]
  /\ \A r \in Reqs : ~At(r, "idle") =>
       req[r].user \in Users /\ req[r].target \in Targets

Booting ==
  /\ boot \in [Instances -> Boot]
  /\ \A i \in Instances : Locals(boot[i]) /\ Mapped(roles, boot[i].map)
  /\ serving = {i \in Instances : On(i, "up")}
  /\ twice \in BOOLEAN /\ alone \in BOOLEAN

LEMMA TypedParts == Typed <=> Stored /\ Asked /\ Booting
  BY DEF Typed, TypeOK, Stored, Asked, Booting

LEMMA NameFound ==
  ASSUME Stored, NEW t \in Targets
  PROVE  NameOf(t) \in Targets
  BY DEF Stored, Found, NameOf, Live, ResourceRow, Targets

LEMMA CheckTyped ==
  ASSUME Stored, Asked, CheckStep
  PROVE  Asked'
<1>1. PICK r \in Reqs :
        \/ Receive(r) \/ ResolveOrganization(r) \/ Normalize(r) \/ FindRoles(r)
        \/ FindMemberships(r) \/ Return(r)
  BY DEF CheckStep
<1>2. PICK q : q = req[r]
  OBVIOUS
<1>3. q \in Check /\ (q.pc # "idle" => q.user \in Users /\ q.target \in Targets)
  BY <1>2 DEF Asked, At
<1>4. ASSUME NEW c, Becomes(r, c), c \in Check,
             c.pc # "idle" => c.user \in Users /\ c.target \in Targets
      PROVE  Asked'
  BY <1>4 DEF Asked, Becomes, At
<1>5. Idle \in Check /\ Idle.pc = "idle"
  BY DEF Idle, Check, Opt
<1>6. CASE Receive(r)
  <2>1. PICK u \in Users \ Fresh(users), A \in (SUBSET Actions) \ {{}}, t \in Targets :
          Becomes(r, [Idle EXCEPT !.pc = "organisation", !.user = u,
                                  !.actions = A, !.target = t])
    BY <1>6 DEF Receive
  <2>2. PICK c : c = [Idle EXCEPT !.pc = "organisation", !.user = u,
                                  !.actions = A, !.target = t]
    OBVIOUS
  <2>3. u \in Users
    OBVIOUS
  <2>4. c \in Check /\ c.user = u /\ c.target = t
    BY <2>2, <2>3 DEF Check, Idle, Opt
  <2> QED
    BY <1>4, <2>1, <2>2, <2>3, <2>4
<1>7. CASE ResolveOrganization(r)
  <2>1. PICK o : /\ Becomes(r, [q EXCEPT !.pc = "normalize", !.org = o])
                 /\ o = IF Found(q.target) THEN resources[q.target].org
                                           ELSE None
    BY <1>2, <1>7 DEF ResolveOrganization
  <2>2. o \in Opt(Orgs) /\ q.pc # "idle"
    BY <1>2, <1>7, <2>1
    DEF ResolveOrganization, At, Found, Stored, Live, ResourceRow, Opt
  <2>3. PICK c : c = [q EXCEPT !.pc = "normalize", !.org = o]
    OBVIOUS
  <2>4. c \in Check /\ c.user = q.user /\ c.target = q.target
    BY <1>3, <2>2, <2>3 DEF Check
  <2> QED
    BY <1>3, <1>4, <2>1, <2>2, <2>3, <2>4
<1>8. CASE Normalize(r)
  <2>1. Becomes(r, [q EXCEPT !.pc = "roles", !.name = NameOf(q.target)])
    BY <1>2, <1>8 DEF Normalize
  <2>2. NameOf(q.target) \in Targets /\ q.pc # "idle"
    BY <1>2, <1>3, <1>8, NameFound DEF Normalize, At
  <2>3. PICK c : c = [q EXCEPT !.pc = "roles", !.name = NameOf(q.target)]
    OBVIOUS
  <2>4. c \in Check /\ c.user = q.user /\ c.target = q.target
    BY <1>3, <2>2, <2>3 DEF Check, Opt
  <2> QED
    BY <1>3, <1>4, <2>1, <2>2, <2>3, <2>4
<1>9. CASE FindRoles(r)
  <2>1. PICK S : /\ Becomes(r, [q EXCEPT !.pc = "members", !.held = S])
                 /\ S = {roles[x] : x \in grants[q.user]}
    BY <1>2, <1>9 DEF FindRoles
  <2>2. q.pc # "idle" /\ q.user \in Users
    BY <1>2, <1>3, <1>9 DEF FindRoles, At
  <2>3. S \subseteq RoleRow
    BY <2>1, <2>2 DEF Stored, Live
  <2>4. PICK c : c = [q EXCEPT !.pc = "members", !.held = S]
    OBVIOUS
  <2>5. c \in Check /\ c.user = q.user /\ c.target = q.target
    BY <1>3, <2>3, <2>4 DEF Check
  <2> QED
    BY <1>3, <1>4, <2>1, <2>2, <2>4, <2>5
<1>10. CASE FindMemberships(r)
  <2>1. PICK a \in BOOLEAN : Becomes(r, [q EXCEPT !.pc = "answered",
                                                  !.held = {}, !.allowed = a])
    BY <1>2, <1>10 DEF FindMemberships, EveryAction
  <2>2. q.pc # "idle"
    BY <1>2, <1>10 DEF FindMemberships, At
  <2>3. PICK c : c = [q EXCEPT !.pc = "answered", !.held = {}, !.allowed = a]
    OBVIOUS
  <2>4. c \in Check /\ c.user = q.user /\ c.target = q.target
    BY <1>3, <2>3 DEF Check
  <2> QED
    BY <1>3, <1>4, <2>1, <2>2, <2>3, <2>4
<1>11. CASE Return(r)
  BY <1>4, <1>5, <1>11 DEF Return
<1> QED
  BY <1>1, <1>6, <1>7, <1>8, <1>9, <1>10, <1>11

LEMMA InitTyped == Init => Typed
<1> SUFFICES ASSUME Init PROVE Typed
  OBVIOUS
<1>1. Stored
  BY RbacAssumption DEF Init, Stored
<1>2. Idle \in Check /\ Idle.pc = "idle"
  BY DEF Idle, Check, Opt
<1>3. Asked
  BY <1>2 DEF Init, Asked, At
<1>4. Down \in Boot
  <2>1. <<>> \in Seq(Opt(Roles))
    OBVIOUS
  <2> QED
    BY <2>1 DEF Down, Boot, Opt
<1>5. Locals(Down) /\ Mapped(roles, Down.map)
  BY DEF Locals, Down, Early, Naming, Looking, Filling, Mapped
<1>6. Booting
  BY <1>4, <1>5 DEF Init, Booting, On, Down
<1> QED
  BY <1>1, <1>3, <1>6, TypedParts

LEMMA StartTyped ==
  ASSUME Booting, Kept, NEW i \in Instances, Start(i) \/ Crash(i)
  PROVE  Booting'
<1> DEFINE c == boot'[i]
<1>1. c = Down \/ c = [Down EXCEPT !.pc = "organisation"]
  BY DEF Start, Crash, Goes, Booting
<1>2. /\ Down \in Boot /\ [Down EXCEPT !.pc = "organisation"] \in Boot
  <2>1. <<>> \in Seq(Opt(Roles))
    OBVIOUS
  <2> QED
    BY <2>1 DEF Down, Boot, Opt
<1>3. Locals(Down) /\ Mapped(roles', Down.map)
  BY DEF Locals, Down, Early, Naming, Looking, Filling, Mapped
<1>4. /\ Locals([Down EXCEPT !.pc = "organisation"])
      /\ Mapped(roles', [Down EXCEPT !.pc = "organisation"].map)
  BY DEF Locals, Down, Early, Naming, Looking, Filling, Mapped
<1>5. /\ boot' \in [Instances -> Boot]
      /\ Locals(boot'[i]) /\ Mapped(roles', boot'[i].map)
      /\ \A j \in Instances \ {i} : boot'[j] = boot[j]
  BY <1>1, <1>2, <1>3, <1>4 DEF Start, Crash, Goes, Booting
<1>6. \A j \in Instances : Locals(boot'[j]) /\ Mapped(roles', boot'[j].map)
  BY <1>5, MapKept DEF Booting
<1>7. serving' = {j \in Instances : boot'[j].pc = "up"}
  BY <1>1, <1>5 DEF Start, Crash, Booting, On, Down
<1>8. twice' \in BOOLEAN /\ alone' \in BOOLEAN
  BY DEF Start, Crash, Booting
<1> QED
  BY <1>5, <1>6, <1>7, <1>8 DEF Booting, On

LEMMA SeedTyped ==
  ASSUME Typed, Kept, Stored', SeedStep
  PROVE  Booting'
<1>1. PICK i \in Instances : /\ Saves(i) \/ Reads(i)
                             /\ Serves(i, boot'[i]) /\ UNCHANGED alone
  BY DEF SeedStep, Saves, Reads
<1>2. PICK c : Moved(i, c)
  BY <1>1, Booted
<1>3. Booting
  BY TypedParts
<1>4. /\ boot' \in [Instances -> Boot]
      /\ boot'[i] = c /\ \A j \in Instances \ {i} : boot'[j] = boot[j]
  BY <1>2, <1>3 DEF Moved, Booting
<1>5. \A j \in Instances : Locals(boot'[j]) /\ Mapped(roles', boot'[j].map)
  BY <1>2, <1>3, <1>4, MapKept DEF Booting, Moved
<1>6. ~On(i, "up")
  BY <1>1 DEF Saves, Reads, EnsureOrganization, SaveOrganization,
     EnsureResource, SaveSystemResource, EnsureRole, SaveRole, ReadPermissions,
     SaveDefaultPermission, FindPlatformAdmin, FindAdminRole, FindUserRole,
     SaveGrant, On
<1>7. serving' = {j \in Instances : boot'[j].pc = "up"}
  BY <1>1, <1>3, <1>4, <1>6 DEF Serves, Booting, On
<1>8. twice' \in BOOLEAN /\ alone' \in BOOLEAN
  BY <1>1, <1>2, <1>3 DEF Moved, Booting
<1> QED
  BY <1>4, <1>5, <1>7, <1>8 DEF Booting, On

LEMMA NextTyped == Typed /\ [Next /\ Watch]_vars => Typed'
<1> SUFFICES ASSUME Typed, Next \/ UNCHANGED vars PROVE Typed'
  OBVIOUS
<1>1. Stored /\ Asked /\ Booting
  BY TypedParts
<1>2. CASE UNCHANGED vars
  BY <1>1, <1>2, TypedParts DEF vars, tables, Typed, TypeOK, At, On, Live
<1>3. CASE Next
  <2>1. Stored' /\ Kept
    BY <1>3, NextStored
  <2>2. Asked'
    <3>1. CASE CheckStep
      BY <1>1, <3>1, CheckTyped
    <3>2. CASE UNCHANGED req
      BY <1>1, <3>2 DEF Asked, At
    <3> QED
      BY <1>3, <3>1, <3>2 DEF Next
  <2>3. Booting'
    <3>1. CASE SeedStep
      BY <2>1, <3>1, SeedTyped
    <3>2. CASE \E i \in Instances : Start(i) \/ Crash(i)
      BY <1>1, <2>1, <3>2, StartTyped
    <3>3. CASE /\ UNCHANGED <<serving, boot, twice>>
               /\ alone' \in {alone, alone /\ Starting = {}}
      <4>1. \A i \in Instances : Mapped(roles', boot'[i].map)
        BY <1>1, <2>1, <3>3, MapKept DEF Booting
      <4> QED
        BY <1>1, <3>3, <4>1 DEF Booting, On
    <3> QED
      BY <1>3, <3>1, <3>2, <3>3 DEF Next
  <2> QED
    BY <2>1, <2>2, <2>3 DEF Typed, TypeOK, Stored, Asked, Booting
<1> QED
  BY <1>2, <1>3

LEMMA AlwaysTyped == Spec => []Typed
  BY InitTyped, NextTyped, PTL DEF Spec

\* Rows, checks and instances always have their type, and instances serve when
\* they have seeded.
THEOREM WellTyped == Spec => []TypeOK
<1>1. Typed => TypeOK
  BY DEF Typed
<1> QED
  BY <1>1, AlwaysTyped, PTL

-----------------------------------------------------------------------------
(* Checks *)

\* What a step does to a check: c is what becomes of q.
CheckGoesOn(q, c) ==
  \/ c = q
  \/ c.pc = "idle"
  \/ c.pc = "organisation" /\ q.pc = "idle"
  \/ c.pc = "normalize" /\ q.pc = "organisation"
  \/ /\ q.pc = "normalize" /\ UNCHANGED tables
     /\ c.pc = "roles" /\ c.name = NameOf(q.target)
     /\ c.user = q.user /\ c.target = q.target
  \/ /\ q.pc = "roles" /\ UNCHANGED tables
     /\ c.pc = "members" /\ c.held = {roles[x] : x \in grants[q.user]}
     /\ c.name = q.name /\ c.user = q.user /\ c.target = q.target
  \/ /\ q.pc = "members" /\ c.pc = "answered"
     /\ c.user = q.user /\ c.actions = q.actions /\ c.name = q.name
     /\ c.allowed = EveryAction(q.actions,
          UNION {x.perms : x \in {y \in q.held :
                                    Counts(y, q.org, members[q.user])}},
          q.name)
     /\ c.org = q.org /\ UNCHANGED tables

LEMMA CheckMoves ==
  ASSUME Typed, Next, NEW r \in Reqs
  PROVE  CheckGoesOn(req[r], req'[r])
<1>1. CASE UNCHANGED req
  BY <1>1 DEF CheckGoesOn
<1>2. ASSUME NEW s \in Reqs,
             \/ Receive(s) \/ ResolveOrganization(s) \/ Normalize(s)
             \/ FindRoles(s) \/ FindMemberships(s) \/ Return(s)
      PROVE  CheckGoesOn(req[r], req'[r])
  <2>1. req \in [Reqs -> Check] /\ UNCHANGED tables
    BY <1>2 DEF Typed, TypeOK, Receive, ResolveOrganization, Normalize,
       FindRoles, FindMemberships, Return, Becomes
  <2>2. CASE s # r
    BY <1>2, <2>1, <2>2
    DEF CheckGoesOn, Receive, ResolveOrganization, Normalize, FindRoles,
        FindMemberships, Return, Becomes
  <2>3. CASE s = r /\ Receive(r)
    BY <2>1, <2>3 DEF Receive, Becomes, Idle, CheckGoesOn, At
  <2>4. CASE s = r /\ ResolveOrganization(r)
    BY <2>1, <2>4 DEF ResolveOrganization, Becomes, Check, CheckGoesOn, At
  <2>5. CASE s = r /\ Normalize(r)
    BY <2>1, <2>5 DEF Normalize, Becomes, Check, CheckGoesOn, At
  <2>6. CASE s = r /\ FindRoles(r)
    BY <2>1, <2>6 DEF FindRoles, Becomes, Check, CheckGoesOn, At
  <2>7. CASE s = r /\ FindMemberships(r)
    BY <2>1, <2>7 DEF FindMemberships, Becomes, Check, CheckGoesOn, At
  <2>8. CASE s = r /\ Return(r)
    BY <2>1, <2>8 DEF Return, Becomes, Idle, CheckGoesOn
  <2> QED
    BY <1>2, <2>2, <2>3, <2>4, <2>5, <2>6, <2>7, <2>8
<1> QED
  BY <1>1, <1>2 DEF Next, CheckStep

\* What a step leaves of the history of a check.
LEMMA Watched ==
  ASSUME Watch, NEW r \in Reqs, NEW c, c = req'[r], c.pc # "idle"
  PROVE  /\ watch'[r].sure \subseteq
              Grounds(Standing(c.user), NameOf(c.target))'
         /\ c.user # None /\ c.name # None =>
              Kinds(Grounds(grants[c.user], c.name))' \subseteq watch'[r].ever
         /\ c.user # None => members'[c.user] \subseteq watch'[r].joined
         /\ req[r].pc # "idle" =>
              /\ watch'[r].sure \subseteq watch[r].sure
              /\ watch[r].ever \subseteq watch'[r].ever
              /\ watch[r].joined \subseteq watch'[r].joined
<1>1. Now(c)' = Now(req[r])'
  BY DEF Now, Kinds, Grounds, Standing, NameOf, Found, Live, Matches
<1>2. /\ Now(c)'.sure \subseteq Grounds(Standing(c.user), NameOf(c.target))'
      /\ c.user # None /\ c.name # None =>
           Kinds(Grounds(grants[c.user], c.name))' \subseteq Now(c)'.ever
      /\ c.user # None => members'[c.user] \subseteq Now(c)'.joined
  BY DEF Now, Nothing
<1>3. CASE req[r].pc = "idle"
  <2>1. watch'[r] = Now(c)'
    BY <1>1, <1>3 DEF Watch
  <2> QED
    BY <1>2, <1>3, <2>1
<1>4. CASE req[r].pc # "idle"
  <2>1. watch'[r] = [sure |-> watch[r].sure \cap Now(c)'.sure,
                     ever |-> watch[r].ever \cup Now(c)'.ever,
                     joined |-> watch[r].joined \cup Now(c)'.joined]
    BY <1>1, <1>4 DEF Watch
  <2>2. /\ watch'[r].sure = watch[r].sure \cap Now(c)'.sure
        /\ watch'[r].ever = watch[r].ever \cup Now(c)'.ever
        /\ watch'[r].joined = watch[r].joined \cup Now(c)'.joined
    BY <2>1
  <2> QED
    BY <1>2, <2>2
<1> QED
  BY <1>3, <1>4

\* A ground that stays is one of the same role, with at least its permissions.
LEMMA GroundKept ==
  ASSUME Stored, Stored', Kept, NEW u \in Users, NEW n, NEW m, NEW g,
         g \in Grounds(Standing(u), n), g \in Grounds(Standing(u), m)'
  PROVE  roles[g.role].perms \subseteq roles'[g.role].perms
<1>1. g.role \in grants[u] /\ g.role \in grants'[u]
  BY DEF Grounds, Standing
<1> QED
  BY <1>1 DEF Stored, Kept, RoleKept, Live

LEMMA AnswersKept ==
  ASSUME Typed, Answers, Next, Watch, Stored', Kept, NEW r \in Reqs
  PROVE  (Named(r) /\ Sure(r) /\ Ever(r))'
<1>1. PICK q, c : q = req[r] /\ c = req'[r]
  OBVIOUS
<1>2. /\ Stored /\ q \in Check
      /\ q.pc # "idle" => q.user \in Users /\ q.target \in Targets
  BY <1>1, TypedStored DEF Typed, TypeOK, At
<1>3. CheckGoesOn(q, c)
  BY <1>1, CheckMoves
<1>4. CASE c.pc = "idle"
  BY <1>1, <1>4 DEF Named, Sure, Ever, At
<1>5. CASE c.pc # "idle"
  <2>1. /\ watch'[r].sure \subseteq
             Grounds(Standing(c.user), NameOf(c.target))'
        /\ c.user # None /\ c.name # None =>
             Kinds(Grounds(grants[c.user], c.name))' \subseteq watch'[r].ever
        /\ q.pc # "idle" => /\ watch'[r].sure \subseteq watch[r].sure
                            /\ watch[r].ever \subseteq watch'[r].ever
    BY <1>1, <1>5, Watched
  <2>2. Named(r)'
    <3>1. q.pc = "normalize" => NameOf(q.target) \in Targets
      BY <1>2, NameFound
    <3> QED
      BY <1>1, <1>3, <3>1 DEF Answers, Named, CheckGoesOn
  <2>3. Sure(r)'
    <3> SUFFICES ASSUME NEW g \in watch'[r].sure PROVE Heard(c, g)'
      BY <1>1, <2>1 DEF Sure, At
    <3>1. c.pc \notin {"roles", "members"} => Heard(c, g)'
      BY DEF Heard
    <3>2. CASE c = q
      <4>1. /\ g \in Grounds(Standing(c.user), NameOf(c.target))
            /\ Heard(c, g)
        BY <1>1, <1>5, <2>1, <3>2 DEF Answers, Sure, At
      <4>2. roles[g.role].perms \subseteq roles'[g.role].perms
        <5>1. PICK n : n = NameOf(c.target)
          OBVIOUS
        <5>2. PICK m : m = NameOf(c.target)'
          OBVIOUS
        <5>3. /\ g \in Grounds(Standing(c.user), n)
              /\ g \in Grounds(Standing(c.user), m)'
          BY <2>1, <4>1, <5>1, <5>2 DEF Grounds
        <5>4. c.user \in Users
          BY <1>2, <1>5, <3>2
        <5> QED
          BY <1>2, <5>3, <5>4, GroundKept
      <4> QED
        BY <4>1, <4>2 DEF Heard
    <3>3. CASE /\ q.pc = "normalize" /\ UNCHANGED tables
               /\ c.pc = "roles" /\ c.name = NameOf(q.target)
               /\ c.user = q.user /\ c.target = q.target
      <4>1. g \in Grounds(Standing(q.user), NameOf(q.target))
        BY <1>1, <2>1, <3>3 DEF Answers, Sure, At
      <4> QED
        BY <3>3, <4>1 DEF Heard, Grounds, tables
    <3>4. CASE /\ q.pc = "roles" /\ UNCHANGED tables
               /\ c.pc = "members"
               /\ c.held = {roles[x] : x \in grants[q.user]}
               /\ c.name = q.name /\ c.user = q.user /\ c.target = q.target
      <4>1. /\ g \in Grounds(Standing(q.user), NameOf(q.target))
            /\ Heard(q, g)
        BY <1>1, <2>1, <3>4 DEF Answers, Sure, At
      <4>2. g.role \in grants[q.user] /\ g.org = roles[g.role].org
        BY <4>1 DEF Grounds, Standing
      <4>3. \E p \in roles[g.role].perms : Matches(p, g.action, q.name)
        BY <3>4, <4>1 DEF Heard
      <4> QED
        BY <3>4, <4>2, <4>3 DEF Heard, tables
    <3> QED
      BY <1>3, <3>1, <3>2, <3>3, <3>4 DEF CheckGoesOn
  <2>4. Ever(r)'
    <3>1. c.pc # "members" => Ever(r)'
      BY <1>1 DEF Ever, At
    <3>2. CASE c = q
      BY <1>1, <1>5, <2>1, <3>2 DEF Answers, Ever, At
    <3>3. CASE /\ q.pc = "roles" /\ UNCHANGED tables
               /\ c.pc = "members"
               /\ c.held = {roles[x] : x \in grants[q.user]}
               /\ c.name = q.name /\ c.user = q.user /\ c.target = q.target
      <4>1. c.name # None /\ c.user \in Users /\ c.user # None
        BY <1>1, <1>2, <3>3, RbacAssumption DEF Answers, Named
      <4>2. SUFFICES ASSUME NEW y \in grants[c.user], NEW a \in Actions,
                            NEW p \in roles[y].perms, Matches(p, a, c.name)
                     PROVE  [org |-> roles[y].org, action |-> a]
                              \in watch'[r].ever
        BY <1>1, <3>3 DEF Ever, At
      <4>3. PICK g : g = [role |-> y, org |-> roles[y].org, action |-> a]
        OBVIOUS
      <4>4. roles[y].org \in Opt(Orgs)
        BY <1>2, <4>1 DEF Stored, Live, RoleRow
      <4>5. g \in [role: grants[c.user], org: Opt(Orgs), action: Actions]
        BY <4>3, <4>4
      <4>6. g \in Grounds(grants[c.user], c.name)'
        BY <3>3, <4>2, <4>3, <4>5 DEF Grounds, tables
      <4>7. [org |-> g.org, action |-> g.action] \in
              Kinds(Grounds(grants[c.user], c.name))'
        BY <4>6 DEF Kinds
      <4> QED
        BY <2>1, <4>1, <4>3, <4>7
    <3> QED
      BY <1>3, <3>1, <3>2, <3>3 DEF CheckGoesOn
  <2> QED
    BY <2>2, <2>3, <2>4
<1> QED
  BY <1>4, <1>5

\* What the properties say of a check that has been answered.
Told ==
  /\ AllowedWasHeld
  /\ HeldIsAllowed

LEMMA ToldKept ==
  ASSUME Typed, Answers, Told, Next, Watch, Stored', Kept, NEW r \in Reqs,
         At(r, "answered")'
  PROVE  /\ req'[r].allowed => \A a \in req'[r].actions :
              \E g \in watch'[r].ever :
                /\ g.action = a
                /\ \/ req'[r].org = None
                   \/ g.org \in {None, req'[r].org} \cup watch'[r].joined
         /\ (\A a \in req'[r].actions : \E g \in watch'[r].sure : g.action = a)
              => req'[r].allowed
<1>1. PICK q, c : q = req[r] /\ c = req'[r]
  OBVIOUS
<1>2. Stored /\ q \in Check /\ (q.pc # "idle" => q.user \in Users)
  BY <1>1, TypedStored DEF Typed, TypeOK, At
<1>3. CheckGoesOn(q, c) /\ c.pc = "answered"
  BY <1>1, CheckMoves DEF At
<1>4. /\ watch'[r].sure \subseteq Grounds(Standing(c.user), NameOf(c.target))'
      /\ c.user # None => members'[c.user] \subseteq watch'[r].joined
      /\ q.pc # "idle" => /\ watch'[r].sure \subseteq watch[r].sure
                          /\ watch[r].ever \subseteq watch'[r].ever
                          /\ watch[r].joined \subseteq watch'[r].joined
  BY <1>1, <1>3, Watched
<1>5. CASE c = q
  <2>1. At(r, "answered")
    BY <1>1, <1>3, <1>5 DEF At
  <2>2. ASSUME c.allowed, NEW a \in c.actions
        PROVE  \E g \in watch'[r].ever :
                 /\ g.action = a
                 /\ \/ c.org = None
                    \/ g.org \in {None, c.org} \cup watch'[r].joined
    BY <1>1, <1>3, <1>4, <1>5, <2>1, <2>2 DEF Told, AllowedWasHeld
  <2>3. (\A a \in c.actions : \E g \in watch'[r].sure : g.action = a)
          => c.allowed
    BY <1>1, <1>3, <1>4, <1>5, <2>1 DEF Told, HeldIsAllowed
  <2> QED
    BY <1>1, <2>2, <2>3
<1>6. CASE c # q
  <2> DEFINE counting == {y \in q.held : Counts(y, q.org, members[q.user])}
             perms    == UNION {x.perms : x \in counting}
  <2>1. /\ q.pc = "members" /\ UNCHANGED tables
        /\ c.user = q.user /\ c.actions = q.actions /\ c.org = q.org
        /\ c.allowed = EveryAction(q.actions, perms, q.name)
    BY <1>3, <1>6 DEF CheckGoesOn
  <2>2. ASSUME c.allowed, NEW a \in c.actions
        PROVE  \E g \in watch'[r].ever :
                 /\ g.action = a
                 /\ \/ c.org = None
                    \/ g.org \in {None, c.org} \cup watch'[r].joined
    <3>1. PICK p \in perms : Matches(p, a, q.name)
      BY <2>1, <2>2 DEF EveryAction
    <3>2. PICK x \in counting : p \in x.perms
      BY <3>1
    <3>3. a \in Actions
      BY <1>2, <2>1 DEF Check
    <3>4. [org |-> x.org, action |-> a] \in watch'[r].ever
      BY <1>1, <1>4, <2>1, <3>1, <3>2, <3>3 DEF Answers, Ever, At
    <3>5. members[q.user] \subseteq watch'[r].joined
      BY <1>2, <1>4, <2>1, RbacAssumption DEF tables
    <3>6. \/ c.org = None
          \/ x.org \in {None, c.org} \cup watch'[r].joined
      BY <2>1, <3>2, <3>5 DEF Counts
    <3>7. /\ [org |-> x.org, action |-> a].action = a
          /\ [org |-> x.org, action |-> a].org = x.org
      OBVIOUS
    <3> QED
      BY <3>4, <3>6, <3>7
  <2>3. ASSUME \A a \in c.actions : \E g \in watch'[r].sure : g.action = a
        PROVE  c.allowed
    <3> SUFFICES ASSUME NEW a \in q.actions
                 PROVE  \E p \in perms : Matches(p, a, q.name)
      BY <2>1 DEF EveryAction
    <3>1. PICK g \in watch'[r].sure : g.action = a
      BY <2>1, <2>3
    <3>2. /\ g \in Grounds(Standing(q.user), NameOf(q.target))
          /\ Heard(q, g)
      BY <1>1, <1>4, <2>1, <3>1 DEF Answers, Sure, At
    <3>3. PICK x \in q.held :
            /\ x.org = g.org
            /\ \E p \in x.perms : Matches(p, g.action, q.name)
      BY <2>1, <3>2 DEF Heard
    <3>4. g.org \in members[q.user] \cup {None}
      BY <3>2 DEF Grounds, Standing
    <3>5. Counts(x, q.org, members[q.user])
      BY <3>3, <3>4 DEF Counts
    <3> QED
      BY <3>1, <3>3, <3>5
  <2> QED
    BY <1>1, <2>2, <2>3
<1> QED
  BY <1>5, <1>6

LEMMA AnswersInductive ==
  /\ Init => Answers /\ Told
  /\ Typed /\ Answers /\ Told /\ [Next /\ Watch]_vars => (Answers /\ Told)'
<1>1. ASSUME Init PROVE Answers /\ Told
  BY <1>1 DEF Init, Idle, Answers, Named, Sure, Ever, Told, AllowedWasHeld,
     HeldIsAllowed, At
<1>2. ASSUME Typed, Answers, Told, (Next /\ Watch) \/ UNCHANGED vars
      PROVE  (Answers /\ Told)'
  <2>1. CASE UNCHANGED vars
    <3>1. Answers'
      BY <1>2, <2>1 DEF vars, tables, Answers, Named, Sure, Ever, Heard, At,
         Grounds, Standing, NameOf, Found
    <3>2. Told'
      BY <1>2, <2>1 DEF vars, Told, AllowedWasHeld, HeldIsAllowed, At
    <3> QED
      BY <3>1, <3>2
  <2>2. CASE Next /\ Watch
    <3>1. Stored' /\ Kept
      BY <1>2, <2>2, NextStored
    <3>2. Answers'
      BY <1>2, <2>2, <3>1, AnswersKept DEF Answers
    <3>3. Told'
      <4>1. \A r \in Reqs : At(r, "answered")' =>
              /\ req'[r].allowed => \A a \in req'[r].actions :
                   \E g \in watch'[r].ever :
                     /\ g.action = a
                     /\ \/ req'[r].org = None
                        \/ g.org \in {None, req'[r].org} \cup watch'[r].joined
              /\ (\A a \in req'[r].actions :
                    \E g \in watch'[r].sure : g.action = a)
                   => req'[r].allowed
        BY <1>2, <2>2, <3>1, ToldKept
      <4> QED
        BY <4>1 DEF Told, AllowedWasHeld, HeldIsAllowed, At
    <3> QED
      BY <3>2, <3>3
  <2> QED
    BY <1>2, <2>1, <2>2
<1> QED
  BY <1>1, <1>2

LEMMA AlwaysTold == Spec => []Told
  BY AlwaysTyped, AnswersInductive, PTL DEF Spec

\* A check that allows had a ground for each action at one moment, however the
\* tables change between its queries, and no role of another organisation than
\* the resource's got in without a membership: check() of
\* rbac-resolver.service.ts.
THEOREM AllowedForGood == Spec => []AllowedWasHeld
<1>1. Told => AllowedWasHeld
  BY DEF Told
<1> QED
  BY <1>1, AlwaysTold, PTL

\* A check allows what global roles, and roles with a membership of their
\* organisation, permit all the time that it takes, although its queries of
\* roles and of memberships read different moments: resolveUserPermissions().
THEOREM HeldGetsIn == Spec => []HeldIsAllowed
<1>1. Told => HeldIsAllowed
  BY DEF Told
<1> QED
  BY <1>1, AlwaysTold, PTL

-----------------------------------------------------------------------------
(* What the seed leaves *)

LEMMA DefaultKept ==
  ASSUME Kept, NEW slug, NEW x \in FindDefault(slug)
  PROVE  /\ x \in FindDefault(slug)'
         /\ roles[x].perms \subseteq roles'[x].perms
         /\ \A u \in Users : x \in grants[u] =>
              x \in grants'[u] \/ u \in erased'
  BY DEF FindDefault, FindBySlug, Kept, RoleKept, GrantsKept

LEMMA ReadyKept ==
  ASSUME Kept, NEW n, Ready(n)
  PROVE  Ready(n)'
<1>1. PICK x \in FindDefault(DefaultRoles[n]) : Complete(x, DefaultRoles[n])
  BY DEF Ready
<1>2. /\ x \in FindDefault(DefaultRoles[n])'
      /\ roles[x].perms \subseteq roles'[x].perms
  BY DefaultKept
<1>3. Complete(x, DefaultRoles[n])'
  BY <1>1, <1>2 DEF Complete
<1> QED
  BY <1>2, <1>3 DEF Ready

LEMMA GrantedKept ==
  ASSUME Kept, NEW u \in Users, Granted(u)
  PROVE  Granted(u)' \/ u \in erased'
<1>1. PICK x \in FindDefault("platform_admin") : x \in grants[u]
  BY DEF Granted
<1>2. /\ x \in FindDefault("platform_admin")'
      /\ x \in grants'[u] \/ u \in erased'
  BY <1>1, DefaultKept
<1> QED
  BY <1>2 DEF Granted

\* What an instance knows stays true while others go on.
LEMMA ProgressKept ==
  ASSUME Kept, NEW b \in Boot, Locals(b), Mapped(roles, b.map), Progress(b),
         AdminKnown(b)
  PROVE  Progress(b)' /\ AdminKnown(b)'
<1>1. \A n \in DOMAIN b.map :
        b.map[n] \in FindDefault(DefaultRoles[Offset(b) + n])'
  BY DefaultKept DEF Progress
<1>2. \A n : Ready(n) => Ready(n)'
  BY ReadyKept
<1>3. b.pc = "permission" =>
        roles[Head(b.map)].perms \subseteq roles'[Head(b.map)].perms
  <2> SUFFICES ASSUME b.pc = "permission"
               PROVE  roles[Head(b.map)].perms \subseteq
                        roles'[Head(b.map)].perms
    OBVIOUS
  <2>1. /\ Head(b.map) \in Roles /\ Live(roles[Head(b.map)])
        /\ roles[Head(b.map)].org = None
    BY HeadOfMap DEF Locals, Filling, Mapped
  <2> QED
    BY <2>1 DEF Kept, RoleKept
<1>4. Progress(b)'
  BY <1>1, <1>2, <1>3 DEF Progress
<1>5. AdminKnown(b)'
  <2>1. b.pc \in {"adminGrant", "saveGrant"} =>
          b.role \in FindDefault("platform_admin")'
    BY DefaultKept DEF AdminKnown
  <2>2. CASE b.admin \in Users
    <3>1. Granted(b.admin) => Granted(b.admin)' \/ b.admin \in erased'
      BY <2>2, GrantedKept
    <3> QED
      BY <2>1, <3>1 DEF AdminKnown, Kept, GrantsKept
  <2>3. CASE b.admin = None
    BY <2>1, <2>3 DEF AdminKnown
  <2> QED
    BY <2>2, <2>3 DEF Boot, Opt
<1> QED
  BY <1>4, <1>5

\* The role that is looked for comes at the end of the map.
LEMMA RoleProgress ==
  ASSUME NEW b \in Boot, Locals(b), b.pc \in Looking, Progress(b)',
         NEW x \in FindDefault(DefaultRoles[b.k])', NEW c, c \in Boot,
         c.pc \in {"role", "permissions"}, c.map = Append(b.map, x),
         c.pc = "permissions" => b.k = Len(DefaultRoles)
  PROVE  Progress(c)'
<1>1. /\ b.map \in Seq(Opt(Roles)) /\ Len(b.map) = b.k - 1
      /\ b.k \in 1 .. Len(DefaultRoles) /\ Len(DefaultRoles) \in Nat
      /\ x \in Roles
  BY DefaultsThere DEF Locals, Boot, FindDefault, FindBySlug
<1>2. /\ Len(c.map) = b.k /\ DOMAIN c.map = 1 .. b.k
      /\ \A n \in 1 .. (b.k - 1) : n \in DOMAIN b.map /\ c.map[n] = b.map[n]
      /\ c.map[b.k] = x
  BY <1>1 DEF Opt
<1>3. Offset(b) = 0 /\ Offset(c) = 0
  BY <1>1, <1>2 DEF Offset, Looking
<1>4. ASSUME NEW n \in DOMAIN c.map
      PROVE  c.map[n] \in FindDefault(DefaultRoles[Offset(c) + n])'
  <2>1. CASE n = b.k
    BY <1>1, <1>2, <1>3, <2>1
  <2>2. CASE n \in 1 .. (b.k - 1)
    BY <1>1, <1>2, <1>3, <2>2 DEF Progress
  <2> QED
    BY <1>1, <1>2, <2>1, <2>2
<1>5. c.pc \notin Ending /\ c.pc # "permission"
  BY DEF Ending
<1> QED
  BY <1>3, <1>4, <1>5 DEF Progress

\* A role whose permissions are all there is ready.
LEMMA PermissionProgress ==
  ASSUME NEW b \in Boot, b.pc \in Filling, Len(b.map) \in DOMAIN DefaultRoles,
         NEW j \in 1 .. (Len(DefaultPerms[SlugOf(b)]) + 1),
         NEW c, Onward(b, j, c),
         \A n \in DOMAIN b.map :
           b.map[n] \in FindDefault(DefaultRoles[Offset(b) + n])',
         \A n \in 1 .. Offset(b) : Ready(n)',
         b.have \subseteq roles'[Head(b.map)].perms,
         \A m \in 1 .. (j - 1) :
           DefaultPerms[SlugOf(b)][m] \in roles'[Head(b.map)].perms
  PROVE  Progress(c)'
<1>1. /\ b.map \in Seq(Opt(Roles)) /\ Len(DefaultRoles) \in Nat
      /\ Len(b.map) \in 1 .. Len(DefaultRoles)
  BY DefaultsThere DEF Boot
<1>2. Offset(b) = Len(DefaultRoles) - Len(b.map)
  BY DEF Offset, Filling, Looking
<1>3. /\ DefaultPerms[SlugOf(b)] \in Seq(Perms)
      /\ Len(DefaultPerms[SlugOf(b)]) \in Nat
  BY CurrentRole
<1>4. j = Len(DefaultPerms[SlugOf(b)]) + 1 => Ready(Offset(b) + 1)'
  <2> SUFFICES ASSUME j = Len(DefaultPerms[SlugOf(b)]) + 1
               PROVE  Ready(Offset(b) + 1)'
    OBVIOUS
  <2>1. Head(b.map) = b.map[1] /\ 1 \in DOMAIN b.map
    BY <1>1
  <2>2. SlugOf(b) = DefaultRoles[Offset(b) + 1]
    BY <1>1, <1>2 DEF SlugOf, Current
  <2>3. \A m \in DOMAIN DefaultPerms[SlugOf(b)] :
          DefaultPerms[SlugOf(b)][m] \in roles'[Head(b.map)].perms
    BY <1>3
  <2>4. Complete(Head(b.map), SlugOf(b))'
    BY <2>3 DEF Complete
  <2> QED
    BY <2>1, <2>2, <2>4 DEF Ready
<1>5. CASE c.pc = "permission"
  <2>1. /\ c.map = b.map /\ c.k = j /\ c.have = b.have
        /\ SlugOf(c) = SlugOf(b) /\ Offset(c) = Offset(b)
    BY <1>5, <1>2 DEF Onward, SlugOf, Current, Offset, Looking
  <2> QED
    BY <1>5, <2>1 DEF Progress, Ending
<1>6. CASE c.pc = "permissions"
  <2>1. /\ c.map = Tail(b.map) /\ Len(b.map) > 1
        /\ j = Len(DefaultPerms[SlugOf(b)]) + 1
    BY <1>6 DEF Onward
  <2>2. /\ Len(c.map) = Len(b.map) - 1
        /\ \A n \in DOMAIN c.map :
             n \in Nat /\ n + 1 \in DOMAIN b.map /\ c.map[n] = b.map[n + 1]
    BY <1>1, <2>1
  <2>3. Offset(c) = Offset(b) + 1 /\ Offset(b) \in Int
    <3>1. Offset(c) = Len(DefaultRoles) - Len(c.map)
      BY <1>6 DEF Offset, Looking
    <3>2. Offset(c) = Len(DefaultRoles) - (Len(b.map) - 1)
      BY <2>2, <3>1
    <3>3. Len(DefaultRoles) \in Int /\ Len(b.map) \in Int
      BY <1>1
    <3> QED
      BY <1>2, <3>2, <3>3
  <2>4. \A n \in DOMAIN c.map :
          c.map[n] \in FindDefault(DefaultRoles[Offset(c) + n])'
    <3> TAKE n \in DOMAIN c.map
    <3>1. Offset(c) + n = Offset(b) + (n + 1)
      BY <2>2, <2>3
    <3> QED
      BY <2>2, <3>1
  <2>5. \A n \in 1 .. Offset(c) : Ready(n)'
    <3>1. \A n \in 1 .. Offset(c) : n \in 1 .. Offset(b) \/ n = Offset(b) + 1
      BY <2>3
    <3> QED
      BY <1>4, <2>1, <3>1
  <2> QED
    BY <1>6, <2>4, <2>5 DEF Progress, Ending
<1>7. CASE c.pc = "admin"
  <2>1. /\ c.map = <<>> /\ Len(b.map) = 1
        /\ j = Len(DefaultPerms[SlugOf(b)]) + 1
    BY <1>7 DEF Onward
  <2>2. Offset(b) + 1 = Len(DefaultRoles)
    BY <1>1, <1>2, <2>1
  <2>3. \A n \in 1 .. Len(DefaultRoles) :
          n \in 1 .. Offset(b) \/ n = Offset(b) + 1
    BY <1>1, <1>2, <2>2
  <2>4. \A n \in DOMAIN DefaultRoles : Ready(n)'
    BY <1>4, <2>1, <2>3, DefaultsThere
  <2> QED
    BY <1>7, <2>1, <2>4 DEF Progress, Filling
<1> QED
  BY <1>5, <1>6, <1>7 DEF Onward

LEMMA SeedProgress ==
  ASSUME Typed, Seeding, Kept, Stored', NEW i \in Instances,
         Saves(i) \/ Reads(i)
  PROVE  \E c : /\ boot' = [boot EXCEPT ![i] = c]
                /\ Progress(c)' /\ AdminKnown(c)'
<1>0. PICK b : b = boot[i]
  OBVIOUS
<1>1. /\ b \in Boot /\ Locals(b) /\ Mapped(roles, b.map) /\ Stored
      /\ Progress(b) /\ AdminKnown(b) /\ Progress(b)' /\ AdminKnown(b)'
  BY <1>0, ProgressKept, TypedStored DEF Typed, TypeOK, Seeding
<1>2. PICK c : Moved(i, c)
  BY Booted
<1>3. /\ boot' = [boot EXCEPT ![i] = c] /\ c = boot'[i]
      /\ c \in Boot /\ Locals(c)
  BY <1>2 DEF Moved, Typed, TypeOK
<1>4. ASSUME NEW d, Goes(i, d) PROVE c = d
  BY <1>3, <1>4 DEF Goes, Typed, TypeOK
<1>5. c.pc \in Early \cup Naming \cup {"role"} /\ c.map = <<>>
        => Progress(c)' /\ AdminKnown(c)'
  <2> SUFFICES ASSUME c.pc \in Early \cup Naming \cup {"role"}, c.map = <<>>
               PROVE  Progress(c)' /\ AdminKnown(c)'
    OBVIOUS
  <2>1. c.pc \notin Filling \cup Ending
    BY DEF Early, Naming, Filling, Ending
  <2> QED
    BY <2>1 DEF Progress, AdminKnown, Filling, Ending
<1>6. c.pc \notin {"adminGrant", "saveGrant", "up"} => AdminKnown(c)'
  BY DEF AdminKnown
<1>7. CASE EnsureOrganization(i) \/ SaveOrganization(i) \/ EnsureResource(i)
             \/ SaveSystemResource(i)
  <2>1. b.pc \in Early \cup Naming
    BY <1>0, <1>7 DEF EnsureOrganization, SaveOrganization, EnsureResource,
       SaveSystemResource, On, Early, Naming
  <2>2. b.map = <<>>
    BY <1>1, <2>1 DEF Locals, Early, Naming, Looking, Filling
  <2>3. c.pc \in Early \cup Naming \cup {"role"} /\ c.map = b.map
    BY <1>0, <1>1, <1>4, <1>7
    DEF EnsureOrganization, SaveOrganization, EnsureResource,
        SaveSystemResource, NextResource, Boot, Early, Naming
  <2> QED
    BY <1>3, <1>5, <2>2, <2>3
<1>8. ASSUME b.pc \in Looking,
             NEW x \in FindDefault(DefaultRoles[b.k])', Goes(i, NextRole(b, x))
      PROVE  Progress(c)' /\ AdminKnown(c)'
  <2>1. c = NextRole(b, x) /\ x \in Roles
    BY <1>4, <1>8 DEF FindDefault, FindBySlug
  <2>2. /\ c.pc \in {"role", "permissions"} /\ c.map = Append(b.map, x)
        /\ c.pc = "permissions" => b.k = Len(DefaultRoles)
    BY <1>1, <1>8, <2>1, AfterRole
  <2>3. Progress(c)'
    BY <1>1, <1>3, <1>8, <2>2, RoleProgress
  <2> QED
    BY <1>6, <2>2, <2>3
<1>9. CASE EnsureRole(i)
  <2>1. b.pc = "role" /\ UNCHANGED roles
    BY <1>0, <1>9 DEF EnsureRole, On, tables
  <2>2. CASE Goes(i, [b EXCEPT !.pc = "saveRole"])
    <3>1. c.pc = "saveRole" /\ c.map = b.map
      BY <1>1, <1>4, <2>2 DEF Boot
    <3>2. Offset(c) = Offset(b)
      BY <2>1, <3>1 DEF Offset, Looking
    <3>3. Progress(c)'
      BY <1>1, <3>1, <3>2 DEF Progress, Filling, Ending
    <3> QED
      BY <1>3, <1>6, <3>1, <3>3
  <2>3. ASSUME NEW x \in FindDefault(DefaultRoles[b.k]), Goes(i, NextRole(b, x))
        PROVE  Progress(c)' /\ AdminKnown(c)'
    <3>1. x \in FindDefault(DefaultRoles[b.k])'
      BY DefaultKept
    <3> QED
      BY <1>8, <2>1, <2>3, <3>1 DEF Looking
  <2> QED
    BY <1>0, <1>3, <1>9, <2>2, <2>3 DEF EnsureRole
<1>10. CASE SaveRole(i)
  <2>1. PICK x \in Fresh(roles) :
          /\ roles' = [roles EXCEPT ![x] =
               [org |-> None, slug |-> DefaultRoles[b.k], perms |-> {}]]
          /\ Goes(i, NextRole(b, x))
    BY <1>0, <1>10 DEF SaveRole
  <2>2. b.pc = "saveRole" /\ DefaultRoles[b.k] \in Slugs
    BY <1>0, <1>1, <1>10, SeedAssumption DEF SaveRole, On, Locals, Looking
  <2>3. x \in Roles /\ roles'[x] = [org |-> None, slug |-> DefaultRoles[b.k],
                                    perms |-> {}]
    BY <1>1, <2>1 DEF Fresh, Stored
  <2>4. roles'[x] \in RoleRow
    BY <2>2, <2>3 DEF RoleRow, Opt
  <2>5. x \in FindDefault(DefaultRoles[b.k])'
    BY <2>3, <2>4, RowsAreLive DEF FindDefault, FindBySlug
  <2> QED
    BY <1>3, <1>8, <2>1, <2>2, <2>5 DEF Looking
<1>11. ASSUME b.pc \in Filling, Len(b.map) \in DOMAIN DefaultRoles,
              NEW d \in Boot, d.pc \in Filling, d.map = b.map,
              NEW j \in 1 .. (Len(DefaultPerms[SlugOf(b)]) + 1),
              Onward(d, j, NextPermission(d, Current(d), j)),
              Goes(i, NextPermission(d, Current(d), j)),
              d.have \subseteq roles'[Head(b.map)].perms,
              \A m \in 1 .. (j - 1) :
                DefaultPerms[SlugOf(b)][m] \in roles'[Head(b.map)].perms
       PROVE  Progress(c)' /\ AdminKnown(c)'
  <2>1. Onward(d, j, c)
    BY <1>4, <1>11
  <2>2. SlugOf(d) = SlugOf(b) /\ Offset(d) = Offset(b)
    BY <1>11 DEF SlugOf, Current, Offset, Filling, Looking
  <2>3. /\ \A n \in DOMAIN d.map :
             d.map[n] \in FindDefault(DefaultRoles[Offset(d) + n])'
        /\ \A n \in 1 .. Offset(d) : Ready(n)'
    BY <1>1, <1>11, <2>2 DEF Progress
  <2>4. Progress(c)'
    BY <1>11, <2>1, <2>2, <2>3, PermissionProgress
  <2>5. c.pc \notin {"adminGrant", "saveGrant", "up"}
    BY <2>1 DEF Onward
  <2> QED
    BY <1>6, <2>4, <2>5
<1>12. CASE ReadPermissions(i)
  <2>1. /\ b.pc \in Filling /\ Len(b.map) \in DOMAIN DefaultRoles /\ b.admin = None
        /\ UNCHANGED roles
    BY <1>0, <1>1, <1>12 DEF ReadPermissions, On, Locals, Filling, tables
  <2>2. PICK d : d = [b EXCEPT !.have = roles[Head(b.map)].perms]
    OBVIOUS
  <2>3. roles[Head(b.map)] \in RoleRow
    BY <1>1, <2>1, HeadOfMap DEF Stored, Live
  <2>4. d \in Boot
    BY <1>1, <2>2, <2>3, BootTurns DEF RoleRow
  <2>5. /\ d.pc \in Filling /\ d.map = b.map /\ d.admin = None
        /\ d.have = roles[Head(b.map)].perms
    BY <1>1, <2>1, <2>2 DEF Boot
  <2>6. Current(d) = Current(b) /\ SlugOf(d) = SlugOf(b)
    BY <2>5 DEF SlugOf, Current
  <2>7. /\ 1 \in 1 .. (Len(DefaultPerms[SlugOf(d)]) + 1)
        /\ Len(DefaultPerms[SlugOf(d)]) \in Nat
    BY <2>1, <2>6, CurrentRole
  <2>8. PICK j : j = MissingFrom(1, SlugOf(d), d.have)
    OBVIOUS
  <2>9. /\ Onward(d, j, NextPermission(d, Current(d), j))
        /\ j \in 1 .. (Len(DefaultPerms[SlugOf(d)]) + 1)
        /\ \A n \in 1 .. (j - 1) : DefaultPerms[SlugOf(d)][n] \in d.have
    BY <2>1, <2>4, <2>5, <2>7, <2>8, NextMissing
  <2>10. Goes(i, NextPermission(d, Current(d), j))
    BY <1>0, <1>12, <2>2, <2>5, <2>6, <2>8 DEF ReadPermissions, SlugOf
  <2> QED
    BY <1>3, <1>11, <2>1, <2>4, <2>5, <2>6, <2>9, <2>10
<1>13. CASE SaveDefaultPermission(i)
  <2>1. /\ b.pc = "permission" /\ Len(b.map) \in DOMAIN DefaultRoles /\ b.admin = None
        /\ b.k \in DOMAIN DefaultPerms[SlugOf(b)]
    BY <1>0, <1>1, <1>13 DEF SaveDefaultPermission, On, Locals, Filling
  <2>2. /\ b.k + 1 \in 1 .. (Len(DefaultPerms[SlugOf(b)]) + 1)
        /\ b.k \in Nat /\ DefaultPerms[SlugOf(b)][b.k] \in Perms
        /\ Len(DefaultPerms[SlugOf(b)]) \in Nat
    BY <2>1, CurrentRole
  <2>3. PICK j : j = MissingFrom(b.k + 1, SlugOf(b), b.have)
    OBVIOUS
  <2>4. /\ Onward(b, j, NextPermission(b, Current(b), j))
        /\ j \in (b.k + 1) .. (Len(DefaultPerms[SlugOf(b)]) + 1)
        /\ \A n \in (b.k + 1) .. (j - 1) :
             DefaultPerms[SlugOf(b)][n] \in b.have
    BY <1>1, <2>1, <2>2, <2>3, NextMissing DEF Filling
  <2>5. Goes(i, NextPermission(b, Current(b), j))
    BY <1>0, <1>13, <2>3 DEF SaveDefaultPermission, SlugOf
  <2>6. Head(b.map) \in Roles /\ Live(roles[Head(b.map)])
    BY <1>1, <2>1, HeadOfMap
  <2>7. roles'[Head(b.map)].perms =
          roles[Head(b.map)].perms \cup {DefaultPerms[SlugOf(b)][b.k]}
    <3>1. PICK x, p : x = Head(b.map) /\ p = DefaultPerms[SlugOf(b)][b.k]
      OBVIOUS
    <3>2. /\ SavePermission(x, p) /\ UNCHANGED <<users, members, orgs, resources, grants, erased>>
          /\ left \in Budget
      BY <1>0, <1>1, <1>13, <3>1 DEF SaveDefaultPermission, SlugOf, Stored
    <3>3. x \in Roles /\ roles[x] \in RoleRow
      BY <1>1, <2>6, <3>1 DEF Stored, Live
    <3>4. roles'[x].perms = roles[x].perms \cup {p}
      BY <1>1, <3>2, <3>3 DEF SavePermission, Stored, RoleRow
    <3> QED
      BY <3>1, <3>4
  <2>8. b.have \subseteq roles'[Head(b.map)].perms
    BY <1>1, <2>1, <2>7 DEF Progress
  <2>9. \A m \in 1 .. (j - 1) :
          DefaultPerms[SlugOf(b)][m] \in roles'[Head(b.map)].perms
    <3> TAKE m \in 1 .. (j - 1)
    <3>1. m \in 1 .. (b.k - 1) \/ m = b.k \/ m \in (b.k + 1) .. (j - 1)
      BY <2>2, <2>4
    <3>2. \A n \in 1 .. (b.k - 1) :
            DefaultPerms[SlugOf(b)][n] \in roles'[Head(b.map)].perms
      BY <1>1, <2>1 DEF Progress
    <3>3. \A n \in (b.k + 1) .. (j - 1) :
            DefaultPerms[SlugOf(b)][n] \in roles'[Head(b.map)].perms
      BY <2>4, <2>8
    <3> QED
      BY <2>7, <3>1, <3>2, <3>3
  <2>10. j \in 1 .. (Len(DefaultPerms[SlugOf(b)]) + 1)
    BY <2>2, <2>4
  <2> QED
    BY <1>1, <1>3, <1>11, <2>1, <2>4, <2>5, <2>8, <2>9, <2>10 DEF Filling

<1>14. c.map = <<>> /\ c.pc \in Ending /\ b.pc \in Ending => Progress(c)'
  BY <1>1 DEF Progress, Filling, Ending
<1>15. CASE FindPlatformAdmin(i)
  <2>1. b.pc = "admin" /\ b.map = <<>> /\ b.admin = None
    BY <1>0, <1>1, <1>15 DEF FindPlatformAdmin, On, Locals, Looking, Filling
  <2>2. CASE Goes(i, Up(b))
    <3>1. c.pc = "up" /\ c.map = <<>> /\ c.admin = None
      BY <1>4, <2>1, <2>2 DEF Up, Down
    <3> QED
      BY <1>3, <1>14, <2>1, <3>1 DEF AdminKnown, Ending
  <2>3. ASSUME NEW u, Goes(i, [b EXCEPT !.pc = "adminRole", !.admin = u])
        PROVE  Progress(c)' /\ AdminKnown(c)'
    <3>1. c.pc = "adminRole" /\ c.map = <<>>
      BY <1>1, <1>4, <2>1, <2>3 DEF Boot
    <3> QED
      BY <1>6, <1>14, <2>1, <3>1 DEF Ending
  <2> QED
    BY <1>0, <1>3, <1>15, <2>2, <2>3 DEF FindPlatformAdmin
<1>16. CASE FindAdminRole(i)
  <2>1. b.pc = "adminRole" /\ b.map = <<>>
    BY <1>0, <1>1, <1>16 DEF FindAdminRole, On, Locals, Looking, Filling
  <2>2. CASE Goes(i, Up([b EXCEPT !.admin = None]))
    <3>1. [b EXCEPT !.admin = None].admin = None
      BY <1>1 DEF Boot
    <3>2. c.pc = "up" /\ c.map = <<>> /\ c.admin = None
      BY <1>4, <2>2, <3>1 DEF Up, Down
    <3> QED
      BY <1>3, <1>14, <2>1, <3>2 DEF AdminKnown, Ending
  <2>3. ASSUME NEW x \in FindDefault("platform_admin"),
               Goes(i, [b EXCEPT !.pc = "adminGrant", !.role = x])
        PROVE  Progress(c)' /\ AdminKnown(c)'
    <3>1. c.pc = "adminGrant" /\ c.map = <<>> /\ c.role = x
      BY <1>1, <1>4, <2>1, <2>3 DEF Boot
    <3>2. x \in FindDefault("platform_admin")'
      BY DefaultKept
    <3> QED
      BY <1>3, <1>14, <2>1, <3>1, <3>2 DEF AdminKnown, Ending
  <2> QED
    BY <1>0, <1>3, <1>16, <2>2, <2>3 DEF FindAdminRole
<1>17. CASE FindUserRole(i)
  <2>1. /\ b.pc = "adminGrant" /\ b.map = <<>> /\ UNCHANGED tables
        /\ b.role \in FindDefault("platform_admin")'
    BY <1>0, <1>1, <1>17
    DEF FindUserRole, On, Locals, Looking, Filling, AdminKnown
  <2>2. CASE Goes(i, Up(b)) /\ b.role \in grants[b.admin]
    <3>1. c.pc = "up" /\ c.map = <<>> /\ c.admin = b.admin
      BY <1>4, <2>2 DEF Up, Down
    <3>2. Granted(c.admin)'
      BY <2>1, <2>2, <3>1 DEF Granted, tables
    <3> QED
      BY <1>3, <1>14, <2>1, <3>1, <3>2 DEF AdminKnown, Ending
  <2>3. CASE Goes(i, [b EXCEPT !.pc = "saveGrant"])
    <3>1. c.pc = "saveGrant" /\ c.map = <<>> /\ c.role = b.role
      BY <1>1, <1>4, <2>1, <2>3 DEF Boot
    <3> QED
      BY <1>3, <1>14, <2>1, <3>1 DEF AdminKnown, Ending
  <2> QED
    BY <1>0, <1>3, <1>17, <2>2, <2>3 DEF FindUserRole
<1>18. CASE SaveGrant(i)
  <2>1. /\ b.pc = "saveGrant" /\ b.map = <<>> /\ b.admin \in Users
        /\ b.role \in FindDefault("platform_admin")' /\ c = Up(b)
    BY <1>0, <1>1, <1>4, <1>18
    DEF SaveGrant, On, Locals, Looking, Filling, AdminKnown
  <2>2. b.role \in grants'[b.admin]
    BY <1>0, <1>1, <1>18, <2>1 DEF SaveGrant, SaveUserRole, Stored
  <2>3. c.pc = "up" /\ c.map = <<>> /\ c.admin = b.admin
    BY <2>1 DEF Up, Down
  <2>4. Granted(c.admin)'
    BY <2>1, <2>2, <2>3 DEF Granted
  <2> QED
    BY <1>3, <1>14, <2>1, <2>3, <2>4 DEF AdminKnown, Ending
<1> QED
  BY <1>3, <1>7, <1>9, <1>10, <1>12, <1>13, <1>15, <1>16, <1>17, <1>18
  DEF Saves, Reads

LEMMA DownKnows == Progress(Down) /\ AdminKnown(Down)
  BY DEF Progress, AdminKnown, Down, Filling, Ending

LEMMA SeedingInductive ==
  /\ Init => Seeding
  /\ Typed /\ Seeding /\ [Next /\ Watch]_vars => Seeding'
<1>1. ASSUME Init PROVE Seeding
  BY <1>1, DownKnows DEF Init, Seeding
<1>2. ASSUME Typed, Seeding, Next \/ UNCHANGED vars PROVE Seeding'
  <2>1. Stored' /\ Kept
    <3>1. CASE UNCHANGED vars
      BY <1>2, <3>1, TypedStored, SameTables DEF vars, Stored
    <3> QED
      BY <1>2, <3>1, NextStored
  <2>2. ASSUME NEW b \in {boot[j] : j \in Instances}
        PROVE  Progress(b)' /\ AdminKnown(b)'
    BY <1>2, <2>1, <2>2, ProgressKept DEF Typed, TypeOK, Seeding
  <2>3. ASSUME NEW i \in Instances, NEW c, boot' = [boot EXCEPT ![i] = c],
               Progress(c)', AdminKnown(c)'
        PROVE  Seeding'
    <3>1. \A b \in {boot'[j] : j \in Instances} :
            b = c \/ b \in {boot[j] : j \in Instances}
      BY <1>2, <2>3 DEF Typed, TypeOK
    <3> QED
      BY <2>2, <2>3, <3>1 DEF Seeding
  <2>4. CASE UNCHANGED boot
    BY <2>2, <2>4 DEF Seeding
  <2>5. CASE SeedStep
    <3>1. PICK i \in Instances : Saves(i) \/ Reads(i)
      BY <2>5 DEF SeedStep, Saves, Reads
    <3> QED
      BY <1>2, <2>1, <2>3, <3>1, SeedProgress
  <2>6. CASE \E i \in Instances : Start(i) \/ Crash(i)
    <3>1. PICK i \in Instances :
            \/ boot' = [boot EXCEPT ![i] = Down]
            \/ boot' = [boot EXCEPT ![i] =
                          [Down EXCEPT !.pc = "organisation"]]
      BY <2>6 DEF Start, Crash, Goes
    <3>2. PICK c : /\ boot' = [boot EXCEPT ![i] = c]
                   /\ c \in {Down, [Down EXCEPT !.pc = "organisation"]}
      BY <3>1
    <3>3. Progress(c)' /\ AdminKnown(c)'
      BY <3>2 DEF Progress, AdminKnown, Down, Filling, Ending
    <3> QED
      BY <2>3, <3>2, <3>3
  <2> QED
    BY <1>2, <2>4, <2>5, <2>6 DEF Next, vars
<1> QED
  BY <1>1, <1>2

LEMMA AlwaysSeeding == Spec => [](Typed /\ Seeding)
  BY AlwaysTyped, SeedingInductive, PTL DEF Spec

\* Wherever earlier starts ended and whoever starts as well, an instance that
\* serves finds every default role with all its permissions: onApplicationBoot-
\* strap() of seed.service.ts.
THEOREM SeededWhenServing == Spec => []ServingIsSeeded
<1>1. Typed /\ Seeding => ServingIsSeeded
  <2> SUFFICES ASSUME Typed, Seeding, NEW i \in serving
               PROVE  \A n \in DOMAIN DefaultRoles : Ready(n)
    BY DEF ServingIsSeeded, Ready
  <2>1. i \in Instances /\ boot[i].pc = "up"
    BY DEF Typed, TypeOK, On
  <2> QED
    BY <2>1 DEF Seeding, Progress, Ending
<1> QED
  BY <1>1, AlwaysSeeding, PTL

\* On an instance that found a user by PLATFORM_ADMIN_EMAIL, that user has the
\* role with its permissions, unless the account has been deleted or there are
\* several roles of that slug: ensurePlatformAdmin() of seed.service.ts.
THEOREM AdminHasRole == Spec => []AdminIsSeeded
<1>1. Typed /\ Seeding => AdminIsSeeded
  <2> SUFFICES ASSUME Typed, Seeding, NEW i \in serving, NEW u,
                      u = boot[i].admin, u \notin erased \cup {None},
                      \A x, y \in FindDefault("platform_admin") : x = y
               PROVE  \E x \in grants[u] \cap FindDefault("platform_admin") :
                        Complete(x, "platform_admin")
    BY DEF AdminIsSeeded
  <2>1. i \in Instances /\ boot[i].pc = "up"
    BY DEF Typed, TypeOK, On
  <2>2. PICK x \in FindDefault("platform_admin") : x \in grants[u]
    BY <2>1 DEF Seeding, AdminKnown, Granted
  <2>3. PICK n \in DOMAIN DefaultRoles : DefaultRoles[n] = "platform_admin"
    BY SeedAssumption
  <2>4. Ready(n)
    BY <2>1 DEF Seeding, Progress, Ending
  <2>5. PICK y \in FindDefault("platform_admin") : Complete(y, "platform_admin")
    BY <2>3, <2>4 DEF Ready
  <2> QED
    BY <2>2, <2>5
<1> QED
  BY <1>1, AlwaysSeeding, PTL

-----------------------------------------------------------------------------
(* Instances that start one at a time *)

Writing == {"saveResource", "saveRole", "permission"}

LEMMA NothingMissing ==
  ASSUME NEW b, b.pc \notin Writing
  PROVE  Missing(b) /\ Missing(b)'
  BY DEF Missing, Writing

\* The one instance that starts writes what is not there.
LEMMA SavedOnce ==
  ASSUME Typed, ~twice, NEW i \in Instances, Saves(i) \/ Reads(i),
         Missing(boot[i])
  PROVE  ~twice' /\ \E c : boot' = [boot EXCEPT ![i] = c] /\ Missing(c)'
<1>0. PICK b : b = boot[i]
  OBVIOUS
<1>1. /\ b \in Boot /\ Locals(b) /\ Missing(b) /\ Mapped(roles, b.map) /\ Stored
  BY <1>0, TypedStored DEF Typed, TypeOK
<1>2. ASSUME NEW c, Goes(i, c), c.pc \notin Writing, ~twice'
      PROVE  ~twice' /\ \E d : boot' = [boot EXCEPT ![i] = d] /\ Missing(d)'
  BY <1>2, NothingMissing DEF Goes
<1>3. ASSUME NEW c, Goes(i, c), Missing(c)', ~twice'
      PROVE  ~twice' /\ \E d : boot' = [boot EXCEPT ![i] = d] /\ Missing(d)'
  BY <1>3 DEF Goes
<1>4. NextResource(b).pc \notin Writing
  BY <1>1 DEF NextResource, Writing, Boot
<1>5. \A x \in Roles : NextRole(b, x).pc \notin Writing
  BY <1>1 DEF NextRole, Writing, Boot
<1>6. \A d : Up(d).pc \notin Writing
  BY DEF Up, Down, Writing
<1>7. CASE EnsureOrganization(i) \/ SaveOrganization(i)
  <2>1. \/ Goes(i, [b EXCEPT !.pc = "saveOrg"])
        \/ \E o \in Orgs : Goes(i, [b EXCEPT !.pc = "resource", !.org = o])
    BY <1>0, <1>7, <1>1 DEF EnsureOrganization, SaveOrganization, SystemOrgs,
                            Fresh, Stored
  <2>2. ~twice'
    BY <1>7 DEF EnsureOrganization, SaveOrganization
  <2>3. /\ [b EXCEPT !.pc = "saveOrg"].pc \notin Writing
        /\ \A o : [b EXCEPT !.pc = "resource", !.org = o].pc \notin Writing
    BY <1>1 DEF Writing, Boot
  <2> QED
    BY <1>2, <2>1, <2>2, <2>3
<1>8. CASE EnsureResource(i)
  <2>1. CASE Goes(i, NextResource(b))
    BY <1>2, <1>4, <1>8, <2>1 DEF EnsureResource
  <2>2. CASE /\ FindResource(b.org, SystemResources[b.k]) = {}
             /\ Goes(i, [b EXCEPT !.pc = "saveResource"])
    <3>1. PICK c : c = [b EXCEPT !.pc = "saveResource"]
      OBVIOUS
    <3>2. c.pc = "saveResource" /\ c.org = b.org /\ c.k = b.k
      BY <1>1, <3>1 DEF Boot
    <3>3. Missing(c)'
      BY <1>8, <2>2, <3>2 DEF EnsureResource, tables, Missing, FindResource
    <3> QED
      BY <1>3, <1>8, <2>2, <3>1, <3>3 DEF EnsureResource
  <2> QED
    BY <1>0, <1>8, <2>1, <2>2 DEF EnsureResource
<1>9. CASE SaveSystemResource(i)
  <2>1. ~twice' /\ Goes(i, NextResource(b))
    BY <1>0, <1>1, <1>9 DEF SaveSystemResource, On, Missing
  <2> QED
    BY <1>2, <1>4, <2>1
<1>10. CASE EnsureRole(i)
  <2>1. CASE \E x \in Roles : Goes(i, NextRole(b, x))
    BY <1>2, <1>5, <1>10, <2>1 DEF EnsureRole
  <2>2. CASE /\ FindDefault(DefaultRoles[b.k]) = {}
             /\ Goes(i, [b EXCEPT !.pc = "saveRole"])
    <3>1. PICK c : c = [b EXCEPT !.pc = "saveRole"]
      OBVIOUS
    <3>2. c.pc = "saveRole" /\ c.k = b.k
      BY <1>1, <3>1 DEF Boot
    <3>3. Missing(c)'
      BY <1>10, <2>2, <3>2
      DEF EnsureRole, tables, Missing, FindDefault, FindBySlug
    <3> QED
      BY <1>3, <1>10, <2>2, <3>1, <3>3 DEF EnsureRole
  <2> QED
    BY <1>0, <1>10, <2>1, <2>2 DEF EnsureRole, FindDefault, FindBySlug
<1>11. CASE SaveRole(i)
  <2>1. ~twice'
    BY <1>0, <1>1, <1>11 DEF SaveRole, On, Missing, FindDefault
  <2>2. PICK x \in Roles : Goes(i, NextRole(b, x))
    BY <1>0, <1>1, <1>11 DEF SaveRole, Fresh, Stored
  <2> QED
    BY <1>2, <1>5, <2>1, <2>2
<1>12. CASE ReadPermissions(i)
  <2>1. /\ b.pc \in Filling /\ Len(b.map) \in DOMAIN DefaultRoles /\ b.admin = None
        /\ UNCHANGED roles
    BY <1>0, <1>1, <1>12 DEF ReadPermissions, On, Locals, Filling, tables
  <2>2. PICK d : d = [b EXCEPT !.have = roles[Head(b.map)].perms]
    OBVIOUS
  <2>3. roles[Head(b.map)] \in RoleRow
    BY <1>1, <2>1, HeadOfMap DEF Stored, Live
  <2>4. d \in Boot
    BY <1>1, <2>2, <2>3, BootTurns DEF RoleRow
  <2>5. /\ d.pc \in Filling /\ d.map = b.map /\ d.admin = None
        /\ d.have = roles[Head(b.map)].perms
    BY <1>1, <2>1, <2>2 DEF Boot
  <2>6. Current(d) = Current(b) /\ SlugOf(d) = SlugOf(b)
    BY <2>5 DEF SlugOf, Current
  <2>7. 1 \in 1 .. (Len(DefaultPerms[SlugOf(d)]) + 1)
    BY <2>1, <2>6, CurrentRole
  <2>8. PICK j : j = MissingFrom(1, SlugOf(d), d.have)
    OBVIOUS
  <2>9. PICK c : c = NextPermission(d, Current(d), j)
    OBVIOUS
  <2>10. Onward(d, j, c)
    BY <2>1, <2>4, <2>5, <2>7, <2>8, <2>9, NextMissing
  <2>11. Goes(i, c)
    BY <1>0, <1>12, <2>2, <2>5, <2>6, <2>8, <2>9 DEF ReadPermissions, SlugOf
  <2>12. Missing(c)'
    BY <2>1, <2>5, <2>10 DEF Missing, Onward
  <2> QED
    BY <1>3, <1>12, <2>11, <2>12 DEF ReadPermissions
<1>13. CASE SaveDefaultPermission(i)
  <2>1. /\ b.pc = "permission" /\ Len(b.map) \in DOMAIN DefaultRoles /\ b.admin = None
        /\ b.k \in DOMAIN DefaultPerms[SlugOf(b)]
        /\ DefaultPerms[SlugOf(b)][b.k] \notin b.have
    BY <1>0, <1>1, <1>13 DEF SaveDefaultPermission, On, Locals, Filling
  <2>2. /\ SlugOf(b) \in DOMAIN DefaultPerms /\ b.k \in Nat
        /\ b.k + 1 \in 1 .. (Len(DefaultPerms[SlugOf(b)]) + 1)
        /\ Len(DefaultPerms[SlugOf(b)]) \in Nat
    BY <2>1, CurrentRole
  <2>3. PICK j : j = MissingFrom(b.k + 1, SlugOf(b), b.have)
    OBVIOUS
  <2>4. PICK c : c = NextPermission(b, Current(b), j)
    OBVIOUS
  <2>5. Onward(b, j, c) /\ j \in (b.k + 1) .. (Len(DefaultPerms[SlugOf(b)]) + 1)
    BY <1>1, <2>1, <2>2, <2>3, <2>4, NextMissing DEF Filling
  <2>6. Goes(i, c)
    BY <1>0, <1>13, <2>3, <2>4 DEF SaveDefaultPermission, SlugOf
  <2>7. PICK x, p : x = Head(b.map) /\ p = DefaultPerms[SlugOf(b)][b.k]
    OBVIOUS
  <2>8. /\ SavePermission(x, p) /\ twice' = (twice \/ p \in roles[x].perms)
    BY <1>0, <1>13, <2>7 DEF SaveDefaultPermission, SlugOf
  <2>9. roles'[x].perms = roles[x].perms \cup {p}
    <3>1. x \in Roles /\ roles[x] \in RoleRow
      BY <1>1, <2>1, <2>7, HeadOfMap DEF Stored, Live
    <3> QED
      BY <1>1, <2>8, <3>1 DEF SavePermission, Stored, RoleRow
  <2>10. \A m \in DOMAIN DefaultPerms[SlugOf(b)] :
           m >= b.k /\ DefaultPerms[SlugOf(b)][m] \notin b.have =>
             DefaultPerms[SlugOf(b)][m] \notin roles[x].perms
    BY <1>1, <2>1, <2>7 DEF Missing
  <2>11. ~twice'
    <3>1. b.k >= b.k
      BY <2>2
    <3>2. p \notin roles[x].perms
      BY <2>1, <2>7, <2>10, <3>1
    <3> QED
      BY <2>8, <3>2
  <2>12. CASE c.pc = "permission"
    <3>1. /\ c.k = j /\ c.map = b.map /\ c.have = b.have
          /\ SlugOf(c) = SlugOf(b)
      BY <2>5, <2>12 DEF Onward, SlugOf, Current
    <3>2. ASSUME NEW m \in DOMAIN DefaultPerms[SlugOf(b)], m >= j,
                 DefaultPerms[SlugOf(b)][m] \notin b.have
          PROVE  DefaultPerms[SlugOf(b)][m] \notin roles'[x].perms
      <4>1. m \in Nat
        BY <2>2, CurrentRole, <2>1
      <4>2. m >= b.k /\ m # b.k
        BY <2>2, <2>5, <3>2, <4>1
      <4>3. DefaultPerms[SlugOf(b)][m] # p
        BY <2>1, <2>2, <2>7, <4>2, SeedAssumption
      <4> QED
        BY <2>9, <2>10, <3>2, <4>2, <4>3
    <3>3. Missing(c)'
      BY <2>7, <2>12, <3>1, <3>2 DEF Missing
    <3> QED
      BY <1>3, <2>6, <2>11, <3>3
  <2>13. CASE c.pc # "permission"
    BY <1>2, <2>5, <2>6, <2>11, <2>13 DEF Onward, Writing
  <2> QED
    BY <2>12, <2>13
<1>14. CASE FindPlatformAdmin(i) \/ FindAdminRole(i) \/ FindUserRole(i)
              \/ SaveGrant(i)
  <2>1. \/ \E d : Goes(i, Up(d))
        \/ \E u : Goes(i, [b EXCEPT !.pc = "adminRole", !.admin = u])
        \/ \E x : Goes(i, [b EXCEPT !.pc = "adminGrant", !.role = x])
        \/ Goes(i, [b EXCEPT !.pc = "saveGrant"])
    BY <1>0, <1>14
    DEF FindPlatformAdmin, FindAdminRole, FindUserRole, SaveGrant
  <2>2. ~twice'
    BY <1>14 DEF FindPlatformAdmin, FindAdminRole, FindUserRole, SaveGrant
  <2>3. /\ \A u : [b EXCEPT !.pc = "adminRole", !.admin = u].pc \notin Writing
        /\ \A x : [b EXCEPT !.pc = "adminGrant", !.role = x].pc \notin Writing
        /\ [b EXCEPT !.pc = "saveGrant"].pc \notin Writing
    BY <1>1 DEF Writing, Boot
  <2> QED
    BY <1>2, <1>6, <2>1, <2>2, <2>3
<1> QED
  BY <1>7, <1>8, <1>9, <1>10, <1>11, <1>12, <1>13, <1>14 DEF Saves, Reads

LEMMA SameRows ==
  ASSUME NEW b, Missing(b), UNCHANGED <<resources, roles>>
  PROVE  Missing(b)'
  BY DEF Missing, FindResource, FindDefault, FindBySlug

\* Whoever does not start has nothing to write.
LEMMA OthersRest ==
  ASSUME Typed, NEW j \in Instances, j \notin Starting
  PROVE  boot[j].pc \notin Writing
  BY DEF Starting, Writing

LEMMA AloneInductive ==
  /\ Init => Alone
  /\ Typed /\ Alone /\ [Next /\ Watch]_vars => Alone'
<1>1. ASSUME Init PROVE Alone
  <2>1. Down.pc = "down"
    BY DEF Down
  <2> QED
    BY <1>1, <2>1, NothingMissing DEF Init, Alone, Starting, Writing
<1>2. ASSUME Typed, Alone, alone', Next \/ UNCHANGED vars
      PROVE  /\ ~twice'
             /\ \A i, j \in Starting' : i = j
             /\ \A b \in {boot'[i] : i \in Instances} : Missing(b)'
  <2>1. CASE /\ UNCHANGED <<boot, twice>>
             /\ alone
             /\ Starting = {} \/ UNCHANGED <<resources, roles>>
    <3>1. ~twice' /\ Starting' = Starting
      BY <1>2, <2>1 DEF Alone, Starting
    <3>2. ASSUME NEW j \in Instances, NEW b, b = boot[j] PROVE Missing(b)'
      <4>1. CASE Starting = {}
        BY <1>2, <3>2, <4>1, OthersRest, NothingMissing
      <4>2. CASE UNCHANGED <<resources, roles>>
        BY <1>2, <2>1, <3>2, <4>2, SameRows DEF Alone
      <4> QED
        BY <2>1, <4>1, <4>2
    <3> QED
      BY <1>2, <2>1, <3>1, <3>2 DEF Alone
  <2>2. CASE UNCHANGED vars
    BY <1>2, <2>1, <2>2 DEF vars, tables
  <2>3. CASE /\ \/ UserWrite /\ UNCHANGED alone
                \/ Administer /\ alone' = (alone /\ Starting = {})
             /\ UNCHANGED <<serving, req, boot, twice>>
    <3>1. UserWrite => UNCHANGED <<resources, roles>>
      BY <1>2, UsersWritten, TypedStored
    <3> QED
      BY <1>2, <2>1, <2>3, <3>1
  <2>4. CASE CheckStep /\ UNCHANGED <<serving, boot, twice, alone>>
    <3>1. UNCHANGED <<resources, roles>>
      BY <2>4 DEF CheckStep, Receive, ResolveOrganization, Normalize,
                  FindRoles, FindMemberships, Return, Becomes, tables
    <3> QED
      BY <1>2, <2>1, <2>4, <3>1
  <2>5. ASSUME NEW i \in Instances, Start(i)
        PROVE  /\ ~twice'
               /\ \A k, j \in Starting' : k = j
               /\ \A b \in {boot'[k] : k \in Instances} : Missing(b)'
    <3>1. alone /\ Starting = {} /\ UNCHANGED <<twice, resources, roles>>
      BY <1>2, <2>5 DEF Start, tables
    <3>2. PICK c : boot' = [boot EXCEPT ![i] = c] /\ c.pc = "organisation"
      <4>1. [Down EXCEPT !.pc = "organisation"].pc = "organisation"
        BY DEF Down
      <4> QED
        BY <2>5, <4>1 DEF Start, Goes
    <3>3. /\ boot'[i] = c
          /\ \A k \in Instances \ {i} : boot'[k] = boot[k]
      BY <1>2, <3>2 DEF Typed, TypeOK
    <3>4. \A k \in Starting' : k = i
      BY <3>1, <3>3 DEF Starting
    <3>5. \A k \in Instances \ {i} : \A b : b = boot[k] => Missing(b)'
      BY <1>2, <3>1, OthersRest, NothingMissing
    <3>6. Missing(c)'
      BY <3>2, NothingMissing DEF Writing
    <3> QED
      BY <1>2, <3>1, <3>3, <3>4, <3>5, <3>6 DEF Alone
  <2>6. ASSUME NEW i \in Instances, Crash(i)
        PROVE  /\ ~twice'
               /\ \A k, j \in Starting' : k = j
               /\ \A b \in {boot'[k] : k \in Instances} : Missing(b)'
    <3>1. alone /\ UNCHANGED <<twice, resources, roles>>
      BY <1>2, <2>6 DEF Crash, tables
    <3>2. PICK c : boot' = [boot EXCEPT ![i] = c] /\ c.pc = "down"
      <4>1. Down.pc = "down"
        BY DEF Down
      <4> QED
        BY <2>6, <4>1 DEF Crash, Goes
    <3>3. /\ boot'[i] = c
          /\ \A k \in Instances \ {i} : boot'[k] = boot[k]
      BY <1>2, <3>2 DEF Typed, TypeOK
    <3>4. Starting' \subseteq Starting
      BY <3>2, <3>3 DEF Starting
    <3>5. \A k \in Instances \ {i} : \A b : b = boot[k] => Missing(b)'
      BY <1>2, <3>1, SameRows DEF Alone
    <3>6. Missing(c)'
      BY <3>2, NothingMissing DEF Writing
    <3> QED
      BY <1>2, <3>1, <3>3, <3>4, <3>5, <3>6 DEF Alone
  <2>7. CASE SeedStep
    <3>1. PICK i \in Instances : Saves(i) \/ Reads(i)
      BY <2>7 DEF SeedStep, Saves, Reads
    <3>2. alone
      BY <1>2, <2>7 DEF SeedStep
    <3>3. i \in Starting
      BY <3>1 DEF Saves, Reads, Starting, On, EnsureOrganization,
                  SaveOrganization, EnsureResource, SaveSystemResource,
                  EnsureRole, SaveRole, ReadPermissions,
                  SaveDefaultPermission, FindPlatformAdmin, FindAdminRole,
                  FindUserRole, SaveGrant
    <3>4. Missing(boot[i]) /\ ~twice
      BY <1>2, <3>2 DEF Alone
    <3>5. ~twice' /\ \E c : boot' = [boot EXCEPT ![i] = c] /\ Missing(c)'
      BY <1>2, <3>1, <3>4, SavedOnce
    <3>6. PICK c : boot' = [boot EXCEPT ![i] = c] /\ Missing(c)'
      BY <3>5
    <3>7. /\ boot'[i] = c
          /\ \A k \in Instances \ {i} : boot'[k] = boot[k]
      BY <1>2, <3>6 DEF Typed, TypeOK
    <3>8. \A k \in Instances \ {i} : k \notin Starting
      BY <1>2, <3>2, <3>3 DEF Alone
    <3>9. \A k \in Starting' : k = i
      BY <3>7, <3>8 DEF Starting
    <3>10. \A k \in Instances \ {i} : \A b : b = boot[k] => Missing(b)'
      BY <1>2, <3>8, OthersRest, NothingMissing
    <3> QED
      BY <3>5, <3>6, <3>7, <3>9, <3>10
  <2> QED
    BY <1>2, <2>2, <2>3, <2>4, <2>5, <2>6, <2>7 DEF Next
<1> QED
  BY <1>1, <1>2 DEF Alone

LEMMA AlwaysAlone == Spec => []Alone
  BY AlwaysTyped, AloneInductive, PTL DEF Spec

\* The seed is idempotent (README.md:109) when instances start one at a time:
\* after any crashes, a start completes what is missing and repeats nothing
\* (seed.service.ts).
THEOREM SeedsOnce == Spec => []SeededOnce
<1>1. Alone => SeededOnce
  BY DEF Alone, SeededOnce
<1> QED
  BY <1>1, AlwaysAlone, PTL
=============================================================================

----------------------------- MODULE RbacStore -----------------------------
(***************************************************************************)
(* The tables that permissions are resolved from, and the writes that      *)
(* handlers of management.controller.ts and others make to them.           *)
(*                                                                         *)
(* Handlers of several writes (createOrganization, and those that add,     *)
(* change and remove members) appear write by write: OrgMembership has     *)
(* what each of them looks up first.  Here any of the writes may come at   *)
(* any time, whatever handlers overlap or end halfway.                     *)
(***************************************************************************)
EXTENDS Naturals, Sequences

CONSTANTS Users, Orgs, Roles, Resources, Actions,
          Names,    \* of resources, "type:identifier"
          Perms,    \* permissions that roles may have
          OrgPerms, \* those of the role that provisioning creates
          Slugs,    \* of roles: DEFAULT_ROLES and one of organisations
          Budgets,  \* bounds: starts, sign-ups, other changes, checks
          Free, Gone, None

Wildcard     == "*"
Opt(S)  == S \cup {None}
Live(x) == x \notin {Free, Gone}
Targets == Names \cup Resources

ResourceRow == [org: Orgs, name: Names]
RoleRow     == [org: Opt(Orgs), slug: Slugs, perms: SUBSET Perms]
Addresses   == {"admin", "other"} \* "admin" is PLATFORM_ADMIN_EMAIL
OrgSlugs    == {"system", "tenant"}

Budget == [starts: Nat, signUps: Nat, changes: Nat, checks: Nat]

ASSUME RbacAssumption ==
  /\ Perms \subseteq [action: Actions, target: Names \cup {Wildcard}]
  /\ OrgPerms \subseteq Perms
  /\ {"platform_admin", "org_admin"} \subseteq Slugs
  /\ Budgets \subseteq Budget
  /\ Free # Gone
  /\ {Free, Gone} \cap (ResourceRow \cup RoleRow) = {}
  /\ {Free, Gone} \cap (Addresses \cup OrgSlugs) = {}
  /\ None \notin Users \cup Orgs \cup Roles \cup Targets

VARIABLES users,     \* their addresses
          members,   \* the organisations of each user
          orgs,      \* their slugs
          resources,
          roles,     \* with their permissions
          grants,    \* the roles of each user
          erased,    \* history: users who have been deleted
          left,      \* what is left of the budget
          serving    \* instances that have started

tables == <<users, members, orgs, resources, roles, grants, erased>>

Fresh(t) == {k \in DOMAIN t : t[k] = Free}
FindBySlug(slug, o) == {x \in Roles : /\ Live(roles[x])
                                      /\ roles[x].slug = slug
                                      /\ roles[x].org = o}
FindResource(o, n) ==
  {s \in Resources : resources[s] = [org |-> o, name |-> n]}
SystemOrgs == {o \in Orgs : orgs[o] = "system"}
PlatformAdmins == {u \in Users : users[u] = "admin"}

\* Addresses of users and slugs of organisations are unique; those that stand
\* for many do not collide here.
AddressFree(u, a) == a = "admin" => PlatformAdmins \subseteq {u}
SlugFree(o, g)    == g = "system" => SystemOrgs \subseteq {o}

\* A row of an organisation is refused when the organisation is gone.
SaveResource(o, n) ==
  /\ Live(orgs[o])
  /\ \E s \in Fresh(resources) :
       resources' = [resources EXCEPT ![s] = [org |-> o, name |-> n]]

SavePermission(x, p) ==
  /\ Live(roles[x])
  /\ roles' = [roles EXCEPT ![x].perms = @ \cup {p}]

\* A grant without its user or its role is refused, and a second one.
SaveUserRole(u, x) ==
  /\ Live(users[u]) /\ Live(roles[x]) /\ x \notin grants[u]
  /\ grants' = [grants EXCEPT ![u] = @ \cup {x}]

-----------------------------------------------------------------------------
(* Users, on an instance that serves *)

Change ==
  /\ serving # {} /\ left.changes > 0
  /\ left' = [left EXCEPT !.changes = @ - 1]

SignUp ==
  /\ serving # {} /\ left.signUps > 0
  /\ left' = [left EXCEPT !.signUps = @ - 1]
  /\ \E u \in Fresh(users), a \in Addresses :
       AddressFree(u, a) /\ users' = [users EXCEPT ![u] = a]
  /\ UNCHANGED <<members, orgs, resources, roles, grants, erased>>

\* The whole row is saved.  When the user was deleted since it was read, the
\* row is inserted again (see NothingUndone in Administration).
UpdateUser ==
  /\ Change
  /\ \E u \in Users \ Fresh(users), a \in Addresses :
       AddressFree(u, a) /\ users' = [users EXCEPT ![u] = a]
  /\ UNCHANGED <<members, orgs, resources, roles, grants, erased>>

\* deleteUser() and deleteAccount(); the foreign keys cascade.
DeleteUser ==
  /\ Change
  /\ \E u \in Users :
       /\ Live(users[u])
       /\ users' = [users EXCEPT ![u] = Gone]
       /\ members' = [members EXCEPT ![u] = {}]
       /\ grants' = [grants EXCEPT ![u] = {}]
       /\ erased' = erased \cup {u}
  /\ UNCHANGED <<orgs, resources, roles>>

UserWrite == SignUp \/ UpdateUser \/ DeleteUser

-----------------------------------------------------------------------------
(* Administrators, on an instance that serves *)

\* The organisation with the first role that provisioning creates.
CreateOrganization ==
  /\ Change
  /\ \E o \in Fresh(orgs), g \in OrgSlugs, x \in Fresh(roles) :
       /\ SlugFree(o, g)
       /\ orgs' = [orgs EXCEPT ![o] = g]
       /\ roles' = [roles EXCEPT ![x] =
            [org |-> o, slug |-> "org_admin", perms |-> OrgPerms]]
  /\ UNCHANGED <<users, members, resources, grants, erased>>

\* Any organisation, the system's too.  When it was deleted since it was read,
\* its row is inserted again.
UpdateOrganization ==
  /\ Change
  /\ \E o \in Orgs \ Fresh(orgs), g \in OrgSlugs :
       SlugFree(o, g) /\ orgs' = [orgs EXCEPT ![o] = g]
  /\ UNCHANGED <<users, members, resources, roles, grants, erased>>

\* Any organisation, the system's too; the foreign keys cascade.
DeleteOrganization ==
  /\ Change
  /\ \E o \in Orgs :
       /\ Live(orgs[o])
       /\ orgs' = [orgs EXCEPT ![o] = Gone]
       /\ members' = [u \in Users |-> members[u] \ {o}]
       /\ resources' = [s \in Resources |->
            IF Live(resources[s]) /\ resources[s].org = o THEN Gone
                                                          ELSE resources[s]]
       /\ LET old == {x \in Roles : Live(roles[x]) /\ roles[x].org = o}
          IN  /\ roles' = [x \in Roles |-> IF x \in old THEN Gone
                                                        ELSE roles[x]]
              /\ grants' = [u \in Users |-> grants[u] \ old]
  /\ UNCHANGED <<users, erased>>

CreateResource ==
  /\ Change
  /\ \E o \in Orgs, n \in Names : SaveResource(o, n)
  /\ UNCHANGED <<users, members, orgs, roles, grants, erased>>

DeleteResource ==
  /\ Change
  /\ \E s \in Resources :
       Live(resources[s]) /\ resources' = [resources EXCEPT ![s] = Gone]
  /\ UNCHANGED <<users, members, orgs, roles, grants, erased>>

\* Of an organisation or, by a platform administrator, global.
CreateRole ==
  /\ Change
  /\ \E o \in Opt({p \in Orgs : Live(orgs[p])}), x \in Fresh(roles),
        slug \in Slugs :
       roles' = [roles EXCEPT ![x] = [org |-> o, slug |-> slug, perms |-> {}]]
  /\ UNCHANGED <<users, members, orgs, resources, grants, erased>>

AddRolePermission ==
  /\ Change
  /\ \E x \in Roles, p \in Perms : SavePermission(x, p)
  /\ UNCHANGED <<users, members, orgs, resources, grants, erased>>

-----------------------------------------------------------------------------
(* Members: assignOrgAdmin() and assignMember() save the membership and then *)
(* the role, removal deletes the roles and then the membership.              *)

SaveMembership ==
  /\ Change
  /\ \E u \in Users, o \in Orgs :
       /\ Live(users[u]) /\ Live(orgs[o])
       /\ members' = [members EXCEPT ![u] = @ \cup {o}]
  /\ UNCHANGED <<users, orgs, resources, roles, grants, erased>>

DeleteMembership ==
  /\ Change
  /\ \E u \in Users : \E o \in members[u] :
       members' = [members EXCEPT ![u] = @ \ {o}]
  /\ UNCHANGED <<users, orgs, resources, roles, grants, erased>>

\* Only roles of organisations are assigned and taken away by requests.
AssignRole ==
  /\ Change
  /\ \E u \in Users, x \in Roles : SaveUserRole(u, x) /\ roles[x].org # None
  /\ UNCHANGED <<users, members, orgs, resources, roles, erased>>

UnassignRole ==
  /\ Change
  /\ \E u \in Users : \E x \in grants[u] :
       /\ roles[x].org # None
       /\ grants' = [grants EXCEPT ![u] = @ \ {x}]
  /\ UNCHANGED <<users, members, orgs, resources, roles, erased>>

MemberWrite ==
  SaveMembership \/ DeleteMembership \/ AssignRole \/ UnassignRole

Administer ==
  \/ CreateOrganization \/ UpdateOrganization \/ DeleteOrganization
  \/ CreateResource \/ DeleteResource
  \/ CreateRole \/ AddRolePermission \/ MemberWrite
=============================================================================

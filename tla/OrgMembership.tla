--------------------------- MODULE OrgMembership ---------------------------
(***************************************************************************)
(* Who belongs to an organisation and with which roles: the handlers of    *)
(* management.controller.ts behind ManagementGuard, the invitations and    *)
(* the users of third-party apps of auth.service.ts, and                   *)
(* organization-provision.service.ts, which all of them call.              *)
(*                                                                         *)
(* A step is one awaited call; the reads of a handler that precede its     *)
(* first write are one step.  Credentials, sessions and the expiry of      *)
(* links are in AuthService, and so is what accepting an invitation and    *)
(* creating a user do next: the login, the mail that resets a password.    *)
(* Permissions and resources are left out: they hang on their role or      *)
(* organisation.                                                           *)
(***************************************************************************)
EXTENDS Naturals, Sequences

CONSTANTS Users, Emails, Orgs, Roles, Members, Grants, Invites,
          Slugs,     \* role slugs, those of the templates among them
          Templates, \* ORG_ROLE_TEMPLATES
          Reqs,      \* requests in flight at one time
          Traffics,  \* which handlers are called, and whether they overlap
          Free, Gone, None

VARIABLES accounts,  \* users
          orgs, roles,
          members,   \* user_organizations
          grants,    \* user_roles
          invites,   \* the one-time links of kind "invitation"
          req,
          traffic    \* the member of Traffics that a behaviour has

tables == <<accounts, orgs, roles, members, grants, invites>>
vars   == <<tables, req, traffic>>

TemplateSlugs == {Templates[k] : k \in DOMAIN Templates}
AllOps == {"createOrg", "deleteOrg", "addMember", "updateMember",
           "removeMember", "invite", "accept", "createOrgUser", "deleteUser",
           "createRole"}
Pcs == {"idle", "saveOrg", "findRole", "saveRole", "findAdmin", "findAccount",
        "saveUser", "findMember", "saveMember", "findGrant", "saveGrant",
        "findDoomed", "dropGrant", "deleteMember", "saveInvite", "markUsed",
        "deleteOrg", "deleteUser"}

RoleRow   == [org: Orgs, slug: Slugs]
MemberRow == [user: Users, org: Orgs]
GrantRow  == [user: Users, role: Roles]
InviteRow == [email: Emails, org: Orgs, slug: Slugs, used: BOOLEAN,
              by: {"platform", "org"}] \* by: a history field, who invited

ASSUME MembershipAssumption ==
  /\ Traffics \subseteq [ops: SUBSET AllOps, overlap: BOOLEAN]
  /\ Templates \in Seq(Slugs) /\ Templates # <<>>
  /\ {"org_admin", "member", "end_user"} \subseteq TemplateSlugs
  /\ Free # Gone
  /\ {Free, Gone} \cap (Emails \cup {"org"} \cup RoleRow \cup MemberRow
                          \cup GrantRow \cup InviteRow) = {}
  /\ None \notin Users \cup Emails \cup Orgs \cup Roles \cup Members
                   \cup Invites

Live(x)  == x \notin {Free, Gone}
Fresh(t) == {k \in DOMAIN t : t[k] = Free}
Opt(S)   == S \cup {None}

Request == [op: Opt(AllOps), pc: Pcs, scope: {None, "platform", "org"},
            email: Opt(Emails), user: Opt(Users), org: Opt(Orgs),
            slug: Opt(Slugs), role: Opt(Roles), member: Opt(Members),
            invite: Opt(Invites), k: 1 .. Len(Templates),
            doomed: SUBSET Grants]
Idle == [op |-> None, pc |-> "idle", scope |-> None, email |-> None,
         user |-> None, org |-> None, slug |-> None, role |-> None,
         member |-> None, invite |-> None, k |-> 1, doomed |-> {}]

TypeOK ==
  /\ accounts \in [Users -> {Free, Gone} \cup Emails]
  /\ orgs     \in [Orgs -> {Free, Gone, "org"}]
  /\ roles    \in [Roles -> {Free, Gone} \cup RoleRow]
  /\ members  \in [Members -> {Free, Gone} \cup MemberRow]
  /\ grants   \in [Grants -> {Free, Gone} \cup GrantRow]
  /\ invites  \in [Invites -> {Free} \cup InviteRow]
  /\ req      \in [Reqs -> Request]
  /\ traffic  \in Traffics

Init ==
  /\ accounts = [u \in Users |-> Free]
  /\ orgs     = [o \in Orgs |-> Free]
  /\ roles    = [x \in Roles |-> Free]
  /\ members  = [m \in Members |-> Free]
  /\ grants   = [g \in Grants |-> Free]
  /\ invites  = [i \in Invites |-> Free]
  /\ req      = [r \in Reqs |-> Idle]
  /\ traffic  \in Traffics

-----------------------------------------------------------------------------
(* Queries *)

FindByEmail(e)  == {u \in Users : accounts[u] = e}
FindBySlug(s, o) == {x \in Roles : roles[x] = [org |-> o, slug |-> s]}
MembersOf(u, o) == {m \in Members : members[m] = [user |-> u, org |-> o]}
GrantsOf(u, x)  == {g \in Grants : grants[g] = [user |-> u, role |-> x]}
GrantsIn(u, o)  == {g \in Grants : /\ Live(grants[g])
                                   /\ grants[g].user = u
                                   /\ roles[grants[g].role].org = o}

\* ManagementGuard: the platform administrators, the users who administer some
\* organisations, and the service accounts, which keep the organisation they
\* were created for even when it is deleted.
AdminOrgs(u) == {o \in Orgs : \E g \in GrantsIn(u, o) :
                                roles[grants[g].role].slug = "org_admin"}
Callers == {[scope |-> "platform", user |-> None, allowed |-> Orgs]} \cup
           {[scope |-> "org", user |-> u, allowed |-> AdminOrgs(u)] :
              u \in {v \in Users : AdminOrgs(v) # {}}} \cup
           {[scope |-> "org", user |-> None, allowed |-> {o}] :
              o \in {p \in Orgs : orgs[p] # Free}}

\* Mutant: anybody may assign any role.
MayAssignAny(c, o, s) == o \in c.allowed

\* ensureOrgAccess() and ensureNotElevatingToOrgAdmin().
MayAssign(c, o, s) ==
  /\ o \in c.allowed
  /\ c.scope = "org" => s # "org_admin"

-----------------------------------------------------------------------------
\* Requests overlap, or one begins when the last one is over.
Accepts(r, op) ==
  /\ op \in traffic.ops /\ req[r] = Idle
  /\ traffic.overlap \/ \A q \in Reqs : req[q] = Idle
At(r, pc)      == req[r].pc = pc
Becomes(r, q)  == req' = [req EXCEPT ![r] = q]
Goto(r, pc)    == req' = [req EXCEPT ![r].pc = pc]
End(r)         == req' = [req EXCEPT ![r] = Idle]

\* The handler refuses, or a query fails, or the process dies.
Throw(r) ==
  /\ req[r] # Idle
  /\ End(r)
  /\ UNCHANGED tables

-----------------------------------------------------------------------------
(* provisionOrgRoles() *)

\* Mutant: the loop over the templates runs once too often.
NextTemplatePast(r, x) ==
  Becomes(r, [req[r] EXCEPT !.k = @ + 1, !.pc = "findRole"])

\* The role of template k is there: the handler goes on with the next template,
\* or with what it needed the roles for.
NextTemplate(r, x) ==
  LET q == req[r]
      done == q.k = Len(Templates)
      then == IF q.op = "createOrg" THEN "findAdmin" ELSE "findMember"
  IN  Becomes(r, [q EXCEPT
        !.role = IF Templates[q.k] = q.slug THEN x ELSE @,
        !.k    = IF done THEN 1 ELSE @ + 1,
        !.pc   = IF done THEN then ELSE "findRole"])

\* Mutant: an existing role is not looked for.
FindRoleNever(r) ==
  /\ At(r, "findRole")
  /\ Goto(r, "saveRole")
  /\ UNCHANGED tables

FindRole(r) ==
  /\ At(r, "findRole")
  /\ LET found == FindBySlug(Templates[req[r].k], req[r].org)
     IN  \/ found = {} /\ Goto(r, "saveRole")
         \/ \E x \in found : NextTemplate(r, x)
  /\ UNCHANGED tables

SaveRole(r) ==
  /\ At(r, "saveRole")
  /\ Live(orgs[req[r].org])
  /\ \E x \in Fresh(roles) :
       IF req[r].op = "createRole"
         THEN /\ roles' = [roles EXCEPT ![x] =
                             [org |-> req[r].org, slug |-> req[r].slug]]
              /\ End(r)
         ELSE /\ roles' = [roles EXCEPT ![x] =
                             [org |-> req[r].org, slug |-> Templates[req[r].k]]]
              /\ NextTemplate(r, x)
  /\ UNCHANGED <<accounts, orgs, members, grants, invites>>

-----------------------------------------------------------------------------
(* assignMember(), assignOrgAdmin() *)

\* Mutant: a membership that exists is not looked for.
FindMemberNever(r) ==
  /\ At(r, "findMember")
  /\ Goto(r, "saveMember")
  /\ UNCHANGED tables

FindMember(r) ==
  /\ At(r, "findMember")
  /\ Goto(r, IF MembersOf(req[r].user, req[r].org) = {} THEN "saveMember"
                                                        ELSE "findGrant")
  /\ UNCHANGED tables

SaveMember(r) ==
  /\ At(r, "saveMember")
  /\ Live(accounts[req[r].user]) /\ Live(orgs[req[r].org])
  /\ \E m \in Fresh(members) :
       members' = [members EXCEPT ![m] =
                     [user |-> req[r].user, org |-> req[r].org]]
  /\ Goto(r, "findGrant")
  /\ UNCHANGED <<accounts, orgs, roles, grants, invites>>

FindGrant(r) ==
  /\ At(r, "findGrant")
  /\ IF GrantsOf(req[r].user, req[r].role) = {} THEN Goto(r, "saveGrant")
                                                ELSE End(r)
  /\ UNCHANGED tables

\* Mutant: user_roles has no foreign keys.
SaveGrantUnchecked(r) ==
  /\ At(r, "saveGrant")
  /\ \E g \in Fresh(grants) :
       grants' = [grants EXCEPT ![g] =
                    [user |-> req[r].user, role |-> req[r].role]]
  /\ End(r)
  /\ UNCHANGED <<accounts, orgs, roles, members, invites>>

\* The table has a unique index and foreign keys.
SaveGrant(r) ==
  /\ At(r, "saveGrant")
  /\ Live(accounts[req[r].user]) /\ Live(roles[req[r].role])
  /\ GrantsOf(req[r].user, req[r].role) = {}
  /\ \E g \in Fresh(grants) :
       grants' = [grants EXCEPT ![g] =
                    [user |-> req[r].user, role |-> req[r].role]]
  /\ End(r)
  /\ UNCHANGED <<accounts, orgs, roles, members, invites>>

-----------------------------------------------------------------------------
(* Organisations *)

CreateOrganization(r) ==
  /\ Accepts(r, "createOrg")
  /\ \E e \in Emails :
       Becomes(r, [Idle EXCEPT !.op = "createOrg", !.pc = "saveOrg",
                     !.scope = "platform", !.email = e, !.slug = "org_admin"])
  /\ UNCHANGED tables

SaveOrg(r) ==
  /\ At(r, "saveOrg")
  /\ \E o \in Fresh(orgs) :
       /\ orgs' = [orgs EXCEPT ![o] = "org"]
       /\ Becomes(r, [req[r] EXCEPT !.pc = "findRole", !.org = o])
  /\ UNCHANGED <<accounts, roles, members, grants, invites>>

\* An administrator without an account gets one, or the handler throws.
FindAdmin(r) ==
  /\ At(r, "findAdmin")
  /\ LET found == FindByEmail(req[r].email)
     IN  \/ found = {} /\ Goto(r, "saveUser")
         \/ \E u \in found : Becomes(r, [req[r] EXCEPT
                               !.pc = "findMember", !.user = u])
  /\ UNCHANGED tables

SaveUser(r) ==
  /\ At(r, "saveUser")
  /\ FindByEmail(req[r].email) = {}
  /\ \E u \in Fresh(accounts) :
       /\ accounts' = [accounts EXCEPT ![u] = req[r].email]
       /\ Becomes(r, [req[r] EXCEPT !.user = u,
            !.pc = IF req[r].op = "createOrg" THEN "findMember"
                                              ELSE "findRole"])
  /\ UNCHANGED <<orgs, roles, members, grants, invites>>

FindOrg(r) ==
  /\ Accepts(r, "deleteOrg")
  /\ \E o \in Orgs :
       /\ Live(orgs[o])
       /\ Becomes(r, [Idle EXCEPT !.op = "deleteOrg", !.pc = "deleteOrg",
                        !.scope = "platform", !.org = o])
  /\ UNCHANGED tables

\* The deletion cascades to the roles, the memberships and the grants.
DeleteOrganization(r) ==
  /\ At(r, "deleteOrg")
  /\ LET o == req[r].org
         old == {x \in Roles : Live(roles[x]) /\ roles[x].org = o}
     IN  /\ orgs' = [orgs EXCEPT ![o] = Gone]
         /\ roles' = [x \in Roles |-> IF x \in old THEN Gone ELSE roles[x]]
         /\ members' = [m \in Members |->
              IF Live(members[m]) /\ members[m].org = o THEN Gone
                                                        ELSE members[m]]
         /\ grants' = [g \in Grants |->
              IF Live(grants[g]) /\ grants[g].role \in old THEN Gone
                                                           ELSE grants[g]]
  /\ End(r)
  /\ UNCHANGED <<accounts, invites>>

CreateRole(r) ==
  /\ Accepts(r, "createRole")
  /\ \E c \in Callers, o \in Orgs, s \in Slugs :
       /\ o \in c.allowed
       /\ Becomes(r, [Idle EXCEPT !.op = "createRole", !.pc = "saveRole",
                        !.scope = c.scope, !.org = o, !.slug = s])
  /\ UNCHANGED tables

-----------------------------------------------------------------------------
(* Members *)

\* Without a slug in the request the role is "member", and somebody who is a
\* member already is a conflict.
AddMember(r) ==
  /\ Accepts(r, "addMember")
  /\ \E c \in Callers, o \in Orgs, s \in Slugs, e \in Emails :
       /\ MayAssign(c, o, s) /\ Live(orgs[o])
       /\ \E u \in FindByEmail(e), x \in FindBySlug(s, o) :
            Becomes(r, [Idle EXCEPT !.op = "addMember", !.pc = "findMember",
                          !.scope = c.scope, !.user = u, !.org = o,
                          !.role = x])
  /\ UNCHANGED tables

UpdateMember(r) ==
  /\ Accepts(r, "updateMember")
  /\ \E c \in Callers, o \in Orgs, s \in Slugs, u \in Users :
       /\ MayAssign(c, o, s)
       /\ MembersOf(u, o) # {}
       /\ \E x \in FindBySlug(s, o) :
            Becomes(r, [Idle EXCEPT !.op = "updateMember", !.pc = "findDoomed",
                          !.scope = c.scope, !.user = u, !.org = o,
                          !.role = x])
  /\ UNCHANGED tables

RemoveMember(r) ==
  /\ Accepts(r, "removeMember")
  /\ \E c \in Callers, o \in Orgs, u \in Users :
       /\ o \in c.allowed
       /\ \E m \in MembersOf(u, o) :
            Becomes(r, [Idle EXCEPT !.op = "removeMember", !.pc = "findDoomed",
                          !.scope = c.scope, !.user = u, !.org = o,
                          !.member = m])
  /\ UNCHANGED tables

\* deleteByUserAndOrg() reads the grants and deletes them one by one.
AfterGrants(q) == IF q.op = "updateMember" THEN "findMember"
                                           ELSE "deleteMember"

\* Mutant: the grants are left to the membership.
KeepGrants(r) ==
  /\ At(r, "findDoomed")
  /\ Becomes(r, [req[r] EXCEPT !.pc = AfterGrants(req[r])])
  /\ UNCHANGED tables

FindDoomed(r) ==
  /\ At(r, "findDoomed")
  /\ LET found == GrantsIn(req[r].user, req[r].org)
     IN  Becomes(r, [req[r] EXCEPT !.doomed = found,
           !.pc = IF found = {} THEN AfterGrants(req[r]) ELSE "dropGrant"])
  /\ UNCHANGED tables

DropGrant(r) ==
  /\ At(r, "dropGrant")
  /\ \E g \in req[r].doomed :
       /\ grants' = [grants EXCEPT ![g] = Gone]
       /\ LET left == req[r].doomed \ {g}
          IN  Becomes(r, [req[r] EXCEPT !.doomed = left,
                !.pc = IF left = {} THEN AfterGrants(req[r]) ELSE "dropGrant"])
  /\ UNCHANGED <<accounts, orgs, roles, members, invites>>

DeleteMember(r) ==
  /\ At(r, "deleteMember")
  /\ members' = [members EXCEPT ![req[r].member] = Gone]
  /\ End(r)
  /\ UNCHANGED <<accounts, orgs, roles, grants, invites>>

-----------------------------------------------------------------------------
(* Invitations, users of third-party apps, deletion of users *)

Invite(r) ==
  /\ Accepts(r, "invite")
  /\ \E c \in Callers, o \in Orgs, s \in Slugs, e \in Emails :
       /\ MayAssign(c, o, s) /\ Live(orgs[o])
       /\ Becomes(r, [Idle EXCEPT !.op = "invite", !.pc = "saveInvite",
                        !.scope = c.scope, !.email = e, !.org = o, !.slug = s])
  /\ UNCHANGED tables

SaveInvite(r) ==
  /\ At(r, "saveInvite")
  /\ \E i \in Fresh(invites) :
       invites' = [invites EXCEPT ![i] =
                     [email |-> req[r].email, org |-> req[r].org,
                      slug |-> req[r].slug, used |-> FALSE,
                      by |-> req[r].scope]]
  /\ End(r)
  /\ UNCHANGED <<accounts, orgs, roles, members, grants>>

\* A slug that is not of a template gives the role "member".
AcceptInvitation(r) ==
  /\ Accepts(r, "accept")
  /\ \E i \in Invites :
       /\ Live(invites[i]) /\ ~invites[i].used
       /\ Becomes(r, [Idle EXCEPT !.op = "accept", !.pc = "markUsed",
            !.scope = invites[i].by, !.invite = i, !.email = invites[i].email,
            !.org = invites[i].org,
            !.slug = IF invites[i].slug \in TemplateSlugs
                       THEN invites[i].slug ELSE "member"])
  /\ UNCHANGED tables

MarkUsed(r) ==
  /\ At(r, "markUsed")
  /\ invites' = [invites EXCEPT ![req[r].invite].used = TRUE]
  /\ Goto(r, "findAccount")
  /\ UNCHANGED <<accounts, orgs, roles, members, grants>>

CreateOrgUser(r) ==
  /\ Accepts(r, "createOrgUser")
  /\ \E o \in Orgs, e \in Emails :
       /\ orgs[o] # Free
       /\ Becomes(r, [Idle EXCEPT !.op = "createOrgUser", !.scope = "org",
                        !.pc = "findAccount", !.email = e, !.org = o,
                        !.slug = "end_user"])
  /\ UNCHANGED tables

FindAccount(r) ==
  /\ At(r, "findAccount")
  /\ LET found == FindByEmail(req[r].email)
     IN  \/ found = {} /\ Goto(r, "saveUser")
         \/ \E u \in found : Becomes(r, [req[r] EXCEPT
                               !.pc = "findRole", !.user = u])
  /\ UNCHANGED tables

\* A platform administrator, the user, or an administrator of one of the user's
\* organisations.
FindUser(r) ==
  /\ Accepts(r, "deleteUser")
  /\ \E c \in Callers, u \in Users :
       /\ Live(accounts[u])
       /\ \/ c.scope = "platform" \/ c.user = u
          \/ \E o \in c.allowed : MembersOf(u, o) # {}
       /\ Becomes(r, [Idle EXCEPT !.op = "deleteUser", !.pc = "deleteUser",
                        !.scope = c.scope, !.user = u])
  /\ UNCHANGED tables

DeleteUser(r) ==
  /\ At(r, "deleteUser")
  /\ LET u == req[r].user
     IN  /\ accounts' = [accounts EXCEPT ![u] = Gone]
         /\ members' = [m \in Members |->
              IF Live(members[m]) /\ members[m].user = u THEN Gone
                                                         ELSE members[m]]
         /\ grants' = [g \in Grants |->
              IF Live(grants[g]) /\ grants[g].user = u THEN Gone
                                                       ELSE grants[g]]
  /\ End(r)
  /\ UNCHANGED <<orgs, roles, invites>>

-----------------------------------------------------------------------------
Step(r) ==
  \/ Throw(r)
  \/ FindRole(r) \/ SaveRole(r)
  \/ FindMember(r) \/ SaveMember(r) \/ FindGrant(r) \/ SaveGrant(r)
  \/ CreateOrganization(r) \/ SaveOrg(r) \/ FindAdmin(r) \/ SaveUser(r)
  \/ FindOrg(r) \/ DeleteOrganization(r) \/ CreateRole(r)
  \/ AddMember(r) \/ UpdateMember(r) \/ RemoveMember(r)
  \/ FindDoomed(r) \/ DropGrant(r) \/ DeleteMember(r)
  \/ Invite(r) \/ SaveInvite(r) \/ AcceptInvitation(r) \/ MarkUsed(r)
  \/ CreateOrgUser(r) \/ FindAccount(r)
  \/ FindUser(r) \/ DeleteUser(r)

Next == (\E r \in Reqs : Step(r)) /\ UNCHANGED traffic

Spec == Init /\ [][Next]_vars

-----------------------------------------------------------------------------
(* Properties *)

\* No membership and no grant outlives its user, its organisation or its role,
\* although handlers save them with identifiers they read some awaits ago.
RowsHaveOwners ==
  /\ \A m \in Members : Live(members[m]) =>
       Live(accounts[members[m].user]) /\ Live(orgs[members[m].org])
  /\ \A g \in Grants : Live(grants[g]) =>
       Live(accounts[grants[g].user]) /\ Live(roles[grants[g].role])
  /\ \A x \in Roles : Live(roles[x]) => Live(orgs[roles[x].org])

\* Nobody becomes an administrator of an organisation unless a platform
\* administrator made the request or the invitation
\* (ensureNotElevatingToOrgAdmin).
OnlyPlatformAppoints ==
  [][\A g \in Grants :
       (/\ grants[g] = Free /\ Live(grants'[g])
        /\ roles[grants'[g].role].slug = "org_admin")
       => \E r \in Reqs : req'[r] # req[r] /\ req[r].scope = "platform"]_vars

\* When requests do not overlap, a role in an organisation is held by its
\* members only, at whatever await a handler fails.
HoldersAreMembers ==
  traffic.overlap \/
  \A g \in Grants : Live(grants[g]) =>
    MembersOf(grants[g].user, roles[grants[g].role].org) # {}

\* A user is a member of an organisation once: assignMember() and
\* assignOrgAdmin() say that they are idempotent
\* (organization-provision.service.ts:96 and :116).
MemberOnce ==
  \A m, n \in Members :
    Live(members[m]) /\ Live(members[n]) /\ members[m] = members[n] => m = n

\* Provisioning that failed halfway is completed by a later one, and never
\* creates the role of a template twice.
ProvisionedOnce ==
  \A x, y \in Roles :
    Live(roles[x]) /\ Live(roles[y]) /\ roles[x] = roles[y] => x = y

\* When requests do not overlap, one that repeats or completes the work of
\* another, which may have failed at any await, adds only what is missing.
AddedOnce == traffic.overlap \/ (MemberOnce /\ ProvisionedOnce)

\* What an invitation grants, and which one a handler has found unused or has
\* marked, with what it grants by it: the state of OneTimeLink.
SlugGiven(slug) == IF slug \in TemplateSlugs THEN slug ELSE "member"
Purposes == [email: Emails, org: Orgs, slug: Slugs]
InviteState == [i \in Invites |->
  IF invites[i] = Free
    THEN [status |-> "free", purpose |-> None]
    ELSE [status  |-> IF invites[i].used THEN "spent" ELSE "open",
          purpose |-> [email |-> invites[i].email, org |-> invites[i].org,
                       slug  |-> SlugGiven(invites[i].slug)]]]
Claim == [r \in Reqs |->
  IF req[r].invite = None
    THEN [stage |-> "none", link |-> None, purpose |-> None]
    ELSE [stage   |-> IF At(r, "markUsed") THEN "taken" ELSE "spent",
          link    |-> req[r].invite,
          purpose |-> [email |-> req[r].email, org |-> req[r].org,
                       slug  |-> req[r].slug]]]

\* An invitation that was marked is accepted by nobody who had not already
\* looked it up, and what is provisioned by it, from the mark to the grant, is
\* the address, the organisation and the role that it was sent for.
OneTime == INSTANCE OneTimeLink WITH
  Links <- Invites, link <- InviteState, claim <- Claim
KeepsInvites == OneTime!Spec
=============================================================================

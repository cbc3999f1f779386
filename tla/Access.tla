------------------------------- MODULE Access -------------------------------
(***************************************************************************)
(* Permissions from the seed to the check: instances that seed, stop and   *)
(* start again (Seed), administrators who change what was seeded           *)
(* (RbacStore), and checks that go on meanwhile (Authorization).           *)
(***************************************************************************)
EXTENDS Authorization, Seed

vars == <<tables, left, serving, req, watch, boot, twice, alone>>

TypeOK ==
  /\ users     \in [Users -> {Free, Gone} \cup Addresses]
  /\ members   \in [Users -> SUBSET Orgs]
  /\ orgs      \in [Orgs -> {Free, Gone} \cup OrgSlugs]
  /\ resources \in [Resources -> {Free, Gone} \cup ResourceRow]
  /\ roles     \in [Roles -> {Free, Gone} \cup RoleRow]
  /\ grants    \in [Users -> SUBSET Roles]
  /\ erased    \subseteq Users
  /\ left      \in Budget
  /\ serving = {i \in Instances : On(i, "up")}
  /\ req       \in [Reqs -> Check]
  /\ boot      \in [Instances -> Boot]
  /\ twice \in BOOLEAN /\ alone \in BOOLEAN

Init ==
  /\ users = [u \in Users |-> Free]
  /\ members = [u \in Users |-> {}]
  /\ orgs = [o \in Orgs |-> Free]
  /\ resources = [s \in Resources |-> Free]
  /\ roles = [x \in Roles |-> Free]
  /\ grants = [u \in Users |-> {}]
  /\ erased = {}
  /\ left \in Budgets
  /\ serving = {}
  /\ req = [r \in Reqs |-> Idle]
  /\ watch = [r \in Reqs |-> Nothing]
  /\ boot = [i \in Instances |-> Down]
  /\ twice = FALSE /\ alone = TRUE

Next ==
  \/ /\ \/ UserWrite /\ UNCHANGED alone
        \/ Administer /\ alone' = (alone /\ Starting = {})
     /\ UNCHANGED <<serving, req, boot, twice>>
  \/ CheckStep /\ UNCHANGED <<serving, boot, twice, alone>>
  \/ /\ SeedStep \/ \E i \in Instances : Start(i) \/ Crash(i)
     /\ UNCHANGED req

Spec == Init /\ [][Next /\ Watch]_vars

-----------------------------------------------------------------------------
(* Properties *)

\* A check that allows had a ground for each action at one moment: permissions,
\* roles and the resource that it read at different moments do not add up to
\* what the user never had.  For a resource that is known by its id, a role of
\* another organisation than the resource's counts only if the user was a member
\* of it at one moment.
AllowedWasHeld ==
  \A r \in Reqs : At(r, "answered") /\ req[r].allowed =>
    \A a \in req[r].actions : \E g \in watch[r].ever :
      /\ g.action = a
      /\ \/ req[r].org = None
         \/ g.org \in {None, req[r].org} \cup watch[r].joined

\* A check allows what global roles, and roles of organisations of which the
\* user is a member, permit all the time that it takes, although the resource,
\* organisations, memberships and roles around it change between its queries.
HeldIsAllowed ==
  \A r \in Reqs :
    (/\ At(r, "answered")
     /\ \A a \in req[r].actions : \E g \in watch[r].sure : g.action = a)
    => req[r].allowed

Complete(x, slug) ==
  {DefaultPerms[slug][n] : n \in DOMAIN DefaultPerms[slug]} \subseteq
    roles[x].perms

\* As soon as an instance serves, every default role is there with all its
\* permissions, wherever earlier starts ended, and whoever starts as well.
ServingIsSeeded ==
  serving # {} =>
    \A n \in DOMAIN DefaultRoles :
      \E x \in FindDefault(DefaultRoles[n]) : Complete(x, DefaultRoles[n])

\* The seed is idempotent (README.md:109) when instances start one at a time:
\* it completes what an earlier start left, and repeats nothing.
SeededOnce == alone => ~twice

\* On an instance that found a user by PLATFORM_ADMIN_EMAIL, that user has the
\* role with its permissions, whatever becomes of the address, unless the account
\* has been deleted, or there are several roles of that slug: the seed looks for
\* the role twice and may then take another one.
AdminIsSeeded ==
  \A i \in serving :
    \/ boot[i].admin \in erased \cup {None}
    \/ \E x, y \in FindDefault("platform_admin") : x # y
    \/ \E x \in grants[boot[i].admin] \cap FindDefault("platform_admin") :
         Complete(x, "platform_admin")
=============================================================================

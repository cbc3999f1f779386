--------------------------- MODULE Authorization ---------------------------
(***************************************************************************)
(* POST /authorization/check: authorization.service.ts and                 *)
(* rbac-resolver.service.ts, with a step for each query.  The resource is  *)
(* looked up twice, once for its organisation and once for its name.       *)
(***************************************************************************)
EXTENDS RbacStore

CONSTANT Reqs \* checks in flight at one time

VARIABLES req,
          watch \* history: what the user had while the check went on

Check == [pc: {"idle", "organisation", "normalize", "roles", "members",
               "answered"},
          user: Opt(Users), actions: SUBSET Actions, target: Opt(Targets),
          org: Opt(Orgs), name: Opt(Targets),
          held: SUBSET RoleRow, allowed: BOOLEAN]
Idle == [pc |-> "idle", user |-> None, actions |-> {}, target |-> None,
         org |-> None, name |-> None, held |-> {}, allowed |-> FALSE]

At(r, pc)     == req[r].pc = pc
Becomes(r, q) == req' = [req EXCEPT ![r] = q] /\ UNCHANGED tables

\* resource: a name, or the id of a resource that may be gone.  The token of
\* the user outlives a deletion of the account.
Receive(r) ==
  /\ At(r, "idle") /\ serving # {} /\ left.checks > 0
  /\ left' = [left EXCEPT !.checks = @ - 1]
  /\ \E u \in Users \ Fresh(users), A \in (SUBSET Actions) \ {{}}, t \in Targets :
       Becomes(r, [Idle EXCEPT !.pc = "organisation", !.user = u,
                               !.actions = A, !.target = t])

Found(t) == t \in Resources /\ Live(resources[t])

ResolveOrganization(r) ==
  /\ At(r, "organisation")
  /\ LET t == req[r].target
     IN  Becomes(r, [req[r] EXCEPT !.pc = "normalize",
                       !.org = IF Found(t) THEN resources[t].org ELSE None])

NameOf(t) == IF Found(t) THEN resources[t].name ELSE t

Normalize(r) ==
  /\ At(r, "normalize")
  /\ Becomes(r, [req[r] EXCEPT !.pc = "roles", !.name = NameOf(req[r].target)])

\* One query: the roles of the user with their permissions.
FindRoles(r) ==
  /\ At(r, "roles")
  /\ Becomes(r, [req[r] EXCEPT !.pc = "members",
                   !.held = {roles[x] : x \in grants[req[r].user]}])

\* Mutant: a role counts in its own organisation only.
OwnOrganization(role, org, memberOf) == role.org \in {None, org}

\* Mutant: all roles of the user count.
EveryRole(role, org, memberOf) == TRUE

\* The roles that count: global ones, those of the resource's organisation,
\* and those of the user's organisations.
Counts(role, org, memberOf) ==
  \/ role.org = None
  \/ org = None
  \/ role.org = org
  \/ role.org \in memberOf

Matches(p, a, n) == p.action = a /\ p.target \in {n, Wildcard}

EveryAction(A, perms, n) ==
  \A a \in A : \E p \in perms : Matches(p, a, n)

FindMemberships(r) ==
  /\ At(r, "members")
  /\ LET q == req[r]
         perms == UNION {role.perms : role \in
                    {x \in q.held : Counts(x, q.org, members[q.user])}}
     IN  Becomes(r, [q EXCEPT !.pc = "answered", !.held = {},
                       !.allowed = EveryAction(q.actions, perms, q.name)])

\* The outcome has been logged, or a query failed.
Return(r) ==
  /\ ~At(r, "idle")
  /\ Becomes(r, Idle)

CheckStep ==
  \E r \in Reqs :
    \/ Receive(r)
    \/ /\ \/ ResolveOrganization(r) \/ Normalize(r) \/ FindRoles(r)
          \/ FindMemberships(r) \/ Return(r)
       /\ UNCHANGED left

-----------------------------------------------------------------------------
(* History: the grounds on which a user may be allowed an action on the     *)
(* resource of that name, with the role's organisation.  "sure" are those   *)
(* that were there all the time, of global roles and of organisations of    *)
(* the user; "ever" those of all roles that were there at one moment since  *)
(* the name was known, and "joined" the user's organisations meanwhile.     *)

Grounds(G, n) ==
  {g \in [role: G, org: Opt(Orgs), action: Actions] :
     /\ g.org = roles[g.role].org
     /\ \E p \in roles[g.role].perms : Matches(p, g.action, n)}

\* The roles of the user that count for every resource.
Standing(u) == {x \in grants[u] : roles[x].org \in members[u] \cup {None}}

\* The organisation and the action of each ground.
Kinds(G) == {[org |-> g.org, action |-> g.action] : g \in G}

Nothing == [sure |-> {}, ever |-> {}, joined |-> {}]

Now(q) ==
  IF q.user = None THEN Nothing
  ELSE [sure |-> Grounds(Standing(q.user), NameOf(q.target)),
        ever |-> IF q.name = None THEN {}
                 ELSE Kinds(Grounds(grants[q.user], q.name)),
        joined |-> members[q.user]]

Watch ==
  watch' = [r \in Reqs |->
    CASE req'[r].pc = "idle" -> Nothing
      [] req[r].pc = "idle" /\ req'[r].pc # "idle" -> Now(req[r])'
      [] req[r].pc # "idle" /\ req'[r].pc # "idle" ->
           [sure |-> watch[r].sure \cap Now(req[r])'.sure,
            ever |-> watch[r].ever \cup Now(req[r])'.ever,
            joined |-> watch[r].joined \cup Now(req[r])'.joined]]
=============================================================================

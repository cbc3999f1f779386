------------------------ MODULE OrgMembershipProofs ------------------------
(***************************************************************************)
(* Proofs about OrgMembership, for any number of users, organisations,     *)
(* roles and overlapping requests, and for any traffic.                    *)
(***************************************************************************)
EXTENDS OrgMembership, TLAPS

-----------------------------------------------------------------------------
(* What a handler knows at each await *)

Loop      == {"findRole", "saveRole"}
Assigning == {"findMember", "saveMember", "findGrant", "saveGrant"}
Dropping  == {"findDoomed", "dropGrant"}
Asking    == {"findAccount", "markUsed"}

\* The loop over the templates has come past the one that was asked for.
RoleFound(q) == \E j \in 1 .. (q.k - 1) : Templates[j] = q.slug

HasRole(q) ==
  \/ q.pc \in Assigning \cup {"findAdmin"}
  \/ q.pc \in Loop /\ q.op # "createRole" /\ RoleFound(q)
  \/ q.pc = "saveUser" /\ q.op = "createOrg"
  \/ q.pc \in Dropping /\ q.op = "updateMember"

\* The first template is still to come.
Unprovisioned(q) ==
  \/ q.pc \in Asking \cup {"saveOrg"}
  \/ q.pc = "saveUser" /\ q.op # "createOrg"

\* Which handler can be where.
OpKnown(q) ==
  /\ q.pc \in {"saveOrg", "findAdmin"} => q.op = "createOrg"
  /\ q.pc \in Asking => q.op \notin {"createOrg", "createRole"}
  /\ q.pc \in {"findRole", "saveUser"} => q.op # "createRole"

OrgKnown(q) ==
  q.pc \in {"findAdmin", "saveUser", "saveInvite", "deleteOrg"}
             \cup Asking \cup Loop \cup Assigning \cup Dropping
    => q.org \in Orgs

UserKnown(q) ==
  \/ q.pc \in Assigning \cup Dropping \cup {"deleteMember", "deleteUser"}
  \/ q.pc \in Loop /\ q.op \notin {"createOrg", "createRole"}
  => q.user \in Users

EmailKnown(q) ==
  \/ q.pc \in {"saveOrg", "findAdmin", "saveUser", "saveInvite"} \cup Asking
  \/ q.pc \in Loop /\ q.op = "createOrg"
  => q.email \in Emails

SlugKnown(q) ==
  /\ q.pc = "saveInvite" => q.slug \in Slugs /\ q.scope \in {"platform", "org"}
  /\ q.pc = "saveRole" /\ q.op = "createRole" => q.slug \in Slugs
  /\ Unprovisioned(q) => q.k = 1 /\ q.slug \in TemplateSlugs
  /\ q.pc \in Loop /\ q.op # "createRole" => q.slug \in TemplateSlugs

RoleKnown(q) == HasRole(q) => q.role \in Roles

MemberKnown(q) ==
  \/ q.pc = "deleteMember"
  \/ q.pc \in Dropping /\ q.op # "updateMember"
  => q.member \in Members

InviteKnown(q) ==
  q.pc = "markUsed" => q.invite \in Invites /\ invites[q.invite] # Free

\* ensureNotElevatingToOrgAdmin() has been passed.
Appointed(q) ==
  \/ Unprovisioned(q) \/ q.pc = "saveInvite"
  \/ q.pc \in Loop /\ q.op # "createRole"
  => (q.slug = "org_admin" => q.scope = "platform")

Locals(q) ==
  /\ OpKnown(q) /\ OrgKnown(q) /\ UserKnown(q) /\ EmailKnown(q)
  /\ SlugKnown(q) /\ RoleKnown(q) /\ MemberKnown(q) /\ InviteKnown(q)
  /\ Appointed(q)

TypedRequest == {q \in Request : Locals(q)}

\* An invitation to administer an organisation is a platform administrator's.
InvitesApt ==
  \A i \in Invites : invites[i] # Free /\ invites[i].slug = "org_admin"
                       => invites[i].by = "platform"

Typed ==
  /\ TypeOK
  /\ \A r \in Reqs : Locals(req[r])
  /\ InvitesApt

-----------------------------------------------------------------------------
(* Types *)

LEMMA TemplateFacts ==
  /\ Len(Templates) \in Nat \ {0}
  /\ \A k \in 1 .. Len(Templates) : Templates[k] \in TemplateSlugs
  /\ \A s \in TemplateSlugs : \E k \in 1 .. Len(Templates) : Templates[k] = s
  /\ TemplateSlugs \subseteq Slugs
  /\ {"org_admin", "member", "end_user"} \subseteq TemplateSlugs
BY MembershipAssumption DEF TemplateSlugs

LEMMA IdleTyped == Idle \in TypedRequest
BY TemplateFacts
DEF Idle, TypedRequest, Request, Opt, Pcs, Locals, OpKnown, OrgKnown,
    UserKnown,
    EmailKnown, SlugKnown, RoleKnown, MemberKnown, InviteKnown, Appointed,
    HasRole, Unprovisioned, Loop, Assigning, Dropping, Asking

LEMMA CallersTyped ==
  ASSUME NEW c \in Callers
  PROVE  c.scope \in {"platform", "org"} /\ c.allowed \subseteq Orgs
BY DEF Callers, AdminOrgs

\* A request with a role goes on to assign it.
LEMMA NextTemplateTyped ==
  ASSUME Typed, NEW r \in Reqs, NEW x \in Roles, req[r].pc \in Loop,
         req[r].op # "createRole", NextTemplate(r, x)
  PROVE  \E q \in TypedRequest : Becomes(r, q)
<1> DEFINE p == req[r]
           done == p.k = Len(Templates)
           q == [p EXCEPT
                  !.role = IF Templates[p.k] = p.slug THEN x ELSE @,
                  !.k    = IF done THEN 1 ELSE @ + 1,
                  !.pc   = IF ~done THEN "findRole"
                           ELSE IF p.op = "createOrg" THEN "findAdmin"
                                                      ELSE "findMember"]
<1>1. p \in Request /\ Locals(p)
  BY DEF Typed, TypeOK
<1>2. p.k \in 1 .. Len(Templates) /\ p.role \in Opt(Roles)
  BY <1>1 DEF Request
<1>3. Becomes(r, q)
  BY DEF NextTemplate, Becomes
<1>4. q \in Request
  <2> DEFINE role == IF Templates[p.k] = p.slug THEN x ELSE p.role
             k    == IF done THEN 1 ELSE p.k + 1
             pc   == IF ~done THEN "findRole"
                     ELSE IF p.op = "createOrg" THEN "findAdmin"
                                                ELSE "findMember"
  <2>1. role \in Opt(Roles)
    BY <1>2 DEF Opt
  <2>2. k \in 1 .. Len(Templates)
    BY <1>2, TemplateFacts
  <2>3. pc \in Pcs
    BY DEF Pcs
  <2>4. q = [p EXCEPT !.role = role, !.k = k, !.pc = pc]
    BY <1>1 DEF Request
  <2> HIDE DEF role, k, pc, q
  <2> QED BY <1>1, <2>1, <2>2, <2>3, <2>4 DEF Request
<1>5. RoleFound(q) \/ done => q.role \in Roles
  <2>1. CASE Templates[p.k] = p.slug
    BY <1>1, <2>1 DEF Request
  <2>2. CASE Templates[p.k] # p.slug
    <3>1. q.role = p.role /\ q.slug = p.slug
      BY <1>1, <2>2 DEF Request
    <3>2. RoleFound(p) => p.role \in Roles
      BY <1>1 DEF Locals, RoleKnown, HasRole, Loop
    <3>3. done => RoleFound(p)
      BY <1>1, <1>2, <2>2, TemplateFacts DEF RoleFound, Locals, SlugKnown
    <3>4. RoleFound(q) => done \/ RoleFound(p)
      BY <1>1, <1>2, <2>2, <3>1 DEF RoleFound, Request
    <3> QED BY <3>1, <3>2, <3>3, <3>4
  <2> QED BY <2>1, <2>2
<1>6. /\ q.pc = IF ~done THEN "findRole"
                ELSE IF p.op = "createOrg" THEN "findAdmin" ELSE "findMember"
      /\ q.op = p.op /\ q.org = p.org /\ q.user = p.user /\ q.email = p.email
      /\ q.slug = p.slug /\ q.scope = p.scope
  BY <1>1 DEF Request
<1>7. Locals(q)
  BY <1>1, <1>5, <1>6
  DEF Locals, OpKnown, OrgKnown, UserKnown, EmailKnown, SlugKnown, RoleKnown,
      MemberKnown, InviteKnown, Appointed, HasRole, Unprovisioned, Loop,
      Assigning, Dropping, Asking
<1> HIDE DEF q
<1> QED BY <1>3, <1>4, <1>7 DEF TypedRequest

\* The member and the role that a request names are rows.
LEMMA AddMemberStarts ==
  ASSUME NEW r \in Reqs, AddMember(r)
  PROVE  \E c \in Callers, o \in Orgs, t \in Slugs, u \in Users, x \in Roles :
           /\ MayAssign(c, o, t) /\ x \in FindBySlug(t, o)
           /\ Becomes(r, [Idle EXCEPT !.op = "addMember", !.pc = "findMember",
                           !.scope = c.scope, !.user = u, !.org = o,
                           !.role = x])
<1>1. PICK c \in Callers, o \in Orgs, t \in Slugs, e \in Emails :
        /\ MayAssign(c, o, t)
        /\ \E u \in FindByEmail(e), x \in FindBySlug(t, o) :
             Becomes(r, [Idle EXCEPT !.op = "addMember", !.pc = "findMember",
                           !.scope = c.scope, !.user = u, !.org = o,
                           !.role = x])
  BY DEF AddMember
<1> QED BY <1>1 DEF FindByEmail, FindBySlug

LEMMA UpdateMemberStarts ==
  ASSUME NEW r \in Reqs, UpdateMember(r)
  PROVE  \E c \in Callers, o \in Orgs, t \in Slugs, u \in Users, x \in Roles :
           /\ MayAssign(c, o, t) /\ x \in FindBySlug(t, o)
           /\ Becomes(r, [Idle EXCEPT !.op = "updateMember", !.pc = "findDoomed",
                           !.scope = c.scope, !.user = u, !.org = o,
                           !.role = x])
<1>1. PICK c \in Callers, o \in Orgs, t \in Slugs, u \in Users :
        /\ MayAssign(c, o, t)
        /\ \E x \in FindBySlug(t, o) :
             Becomes(r, [Idle EXCEPT !.op = "updateMember", !.pc = "findDoomed",
                           !.scope = c.scope, !.user = u, !.org = o,
                           !.role = x])
  BY DEF UpdateMember
<1> QED BY <1>1 DEF FindBySlug

\* Every await leaves the handler with what the next one needs.
LEMMA StepLocals ==
  ASSUME Typed, NEW r \in Reqs, Step(r)
  PROVE  \E q \in TypedRequest : Becomes(r, q)
<1> DEFINE p == req[r]
<1>0. p \in Request /\ Locals(p)
  BY DEF Typed, TypeOK
<1> USE <1>0, TemplateFacts DEF At, Becomes, Goto, End
<1> USE DEF OpKnown, OrgKnown, UserKnown, EmailKnown, SlugKnown, RoleKnown,
            MemberKnown, InviteKnown, Appointed, HasRole, Unprovisioned, Loop,
            Assigning, Dropping, Asking
<1>i. Idle \in Request /\ Locals(Idle)
  BY IdleTyped DEF TypedRequest
<1>1. CASE Throw(r)
  BY <1>1, <1>i DEF Throw, TypedRequest
<1>2. CASE FindRole(r)
  <2>1. CASE Goto(r, "saveRole")
    <3> DEFINE q == [p EXCEPT !.pc = "saveRole"]
    <3>1. q \in Request
      BY DEF Request, Pcs
    <3>2. Locals(q)
      BY <1>2 DEF Locals, FindRole, Request, RoleFound
    <3> QED BY <2>1, <3>1, <3>2 DEF TypedRequest
  <2>2. ASSUME NEW x \in Roles, NextTemplate(r, x)
        PROVE  \E q \in TypedRequest : Becomes(r, q)
    BY <1>2, <2>2, NextTemplateTyped DEF FindRole, Locals
  <2> QED BY <1>2, <2>1, <2>2 DEF FindRole, FindBySlug
<1>3. CASE SaveRole(r)
  <2>1. CASE p.op = "createRole"
    BY <1>3, <1>i, <2>1 DEF SaveRole, TypedRequest
  <2>2. CASE p.op # "createRole"
    BY <1>3, <2>2, NextTemplateTyped DEF SaveRole, Fresh, Typed, TypeOK
  <2> QED BY <2>1, <2>2
<1>4. CASE FindMember(r)
  <2>1. PICK pc \in {"saveMember", "findGrant"} : Goto(r, pc)
    BY <1>4 DEF FindMember
  <2> DEFINE q == [p EXCEPT !.pc = pc]
  <2>2. q \in Request
    BY <2>1 DEF Request, Pcs
  <2>3. Locals(q)
    BY <1>4, <2>1 DEF Locals, FindMember, Request
  <2> QED BY <2>1, <2>2, <2>3 DEF TypedRequest
<1>5. CASE SaveMember(r)
  <2>1. Becomes(r, [p EXCEPT !.pc = "findGrant"])
    BY <1>5 DEF SaveMember
  <2> DEFINE q == [p EXCEPT !.pc = "findGrant"]
  <2>2. q \in Request
    BY DEF Request, Pcs
  <2>3. Locals(q)
    BY <1>5, <2>1 DEF SaveMember, Locals, Request, Idle
  <2> QED BY <2>1, <2>2, <2>3 DEF TypedRequest
<1>6. CASE FindGrant(r)
  <2>1. CASE End(r)
    BY <1>i, <2>1 DEF TypedRequest
  <2>2. CASE Goto(r, "saveGrant")
    <3> DEFINE q == [p EXCEPT !.pc = "saveGrant"]
    <3>1. q \in Request
      BY DEF Request, Pcs
    <3>2. Locals(q)
      BY <1>6 DEF Locals, FindGrant, Request
    <3> QED BY <2>2, <3>1, <3>2 DEF TypedRequest
  <2> QED BY <1>6, <2>1, <2>2 DEF FindGrant
<1>7. CASE SaveGrant(r)
  BY <1>7, <1>i DEF SaveGrant, TypedRequest
<1>8. CASE CreateOrganization(r)
  <2>1. PICK e \in Emails :
          /\ Becomes(r, [Idle EXCEPT !.op = "createOrg", !.pc = "saveOrg",
              !.scope = "platform", !.email = e, !.slug = "org_admin"])
    BY <1>8 DEF CreateOrganization
  <2> DEFINE q == [Idle EXCEPT !.op = "createOrg", !.pc = "saveOrg", !.scope =
      "platform", !.email = e, !.slug = "org_admin"]
  <2>2. q \in Request
    <3>1. /\ "platform" \in {None, "platform", "org"}
          /\ e \in Opt(Emails) /\ "org_admin" \in Opt(Slugs)
      BY <2>1 DEF Opt
    <3>2. "createOrg" \in Opt(AllOps) /\ "saveOrg" \in Pcs
      BY DEF Opt, AllOps, Pcs
    <3> QED BY <1>i, <3>1, <3>2 DEF Request
  <2>3. Locals(q)
    <3>1. /\ q.op = "createOrg" /\ q.pc = "saveOrg" /\ q.scope = "platform"
          /\ q.email = e /\ q.slug = "org_admin" /\ q.k = 1
      BY DEF Idle
    <3> HIDE DEF q
    <3> QED BY <3>1 DEF Locals
  <2> QED BY <2>1, <2>2, <2>3 DEF TypedRequest
<1>9. CASE SaveOrg(r)
  <2>1. PICK o \in Orgs :
          /\ Becomes(r, [p EXCEPT !.pc = "findRole", !.org = o])
    BY <1>9 DEF SaveOrg, Fresh, Typed, TypeOK
  <2> DEFINE q == [p EXCEPT !.pc = "findRole", !.org = o]
  <2>2. q \in Request
    <3>1. o \in Opt(Orgs) /\ "findRole" \in Pcs
      BY DEF Opt, Pcs
    <3> QED BY <3>1 DEF Request
  <2>3. Locals(q)
    BY <1>9, <2>1 DEF SaveOrg, Locals, Request, Idle, RoleFound
  <2> QED BY <2>1, <2>2, <2>3 DEF TypedRequest
<1>10. CASE FindAdmin(r)
  <2>1. CASE Goto(r, "saveUser")
    <3> DEFINE q == [p EXCEPT !.pc = "saveUser"]
    <3>1. q \in Request
      BY DEF Request, Pcs
    <3>2. Locals(q)
      BY <1>10 DEF Locals, FindAdmin, Request
    <3> QED BY <2>1, <3>1, <3>2 DEF TypedRequest
  <2>2. ASSUME NEW u \in Users,
               Becomes(r, [p EXCEPT !.pc = "findMember", !.user = u])
        PROVE  \E q \in TypedRequest : Becomes(r, q)
    <3> DEFINE q == [p EXCEPT !.pc = "findMember", !.user = u]
    <3>1. q \in Request
      BY DEF Request, Pcs, Opt
    <3>2. Locals(q)
      BY <1>10 DEF Locals, FindAdmin, Request
    <3> QED BY <2>2, <3>1, <3>2 DEF TypedRequest
  <2> QED BY <1>10, <2>1, <2>2 DEF FindAdmin, FindByEmail
<1>11. CASE SaveUser(r)
  <2>1. PICK u \in Users, pc \in {"findMember", "findRole"} :
          /\ pc = IF p.op = "createOrg" THEN "findMember" ELSE "findRole"
          /\ Becomes(r, [p EXCEPT !.user = u, !.pc = pc])
    BY <1>11 DEF SaveUser, Fresh, Typed, TypeOK
  <2> DEFINE q == [p EXCEPT !.user = u, !.pc = pc]
  <2>2. q \in Request
    <3>1. pc \in Pcs /\ u \in Opt(Users)
      BY <2>1 DEF Pcs, Opt
    <3> QED BY <3>1 DEF Request
  <2>3. Locals(q)
    BY <1>11, <2>1 DEF Locals, SaveUser, Request, RoleFound
  <2> QED BY <2>1, <2>2, <2>3 DEF TypedRequest
<1>12. CASE FindOrg(r)
  <2>1. PICK o \in Orgs :
          /\ Becomes(r, [Idle EXCEPT !.op = "deleteOrg", !.pc = "deleteOrg",
              !.scope = "platform", !.org = o])
    BY <1>12 DEF FindOrg
  <2> DEFINE q == [Idle EXCEPT !.op = "deleteOrg", !.pc = "deleteOrg", !.scope
      = "platform", !.org = o]
  <2>2. q \in Request
    <3>1. o \in Opt(Orgs)
      BY DEF Opt
    <3>2. "deleteOrg" \in Opt(AllOps) /\ "deleteOrg" \in Pcs
      BY DEF Opt, AllOps, Pcs
    <3> QED BY <1>i, <3>1, <3>2 DEF Request
  <2>3. Locals(q)
    <3>1. /\ q.op = "deleteOrg" /\ q.pc = "deleteOrg" /\ q.scope = "platform"
          /\ q.org = o /\ q.k = 1
      BY DEF Idle
    <3> HIDE DEF q
    <3> QED BY <3>1 DEF Locals
  <2> QED BY <2>1, <2>2, <2>3 DEF TypedRequest
<1>13. CASE DeleteOrganization(r)
  BY <1>13, <1>i DEF DeleteOrganization, TypedRequest
<1>14. CASE CreateRole(r)
  <2>1. PICK c \in Callers, o \in Orgs, s \in Slugs :
          /\ Becomes(r, [Idle EXCEPT !.op = "createRole", !.pc = "saveRole",
              !.scope = c.scope, !.org = o, !.slug = s])
    BY <1>14 DEF CreateRole
  <2>c. c.scope \in {"platform", "org"}
    BY CallersTyped
  <2> DEFINE q == [Idle EXCEPT !.op = "createRole", !.pc = "saveRole", !.scope
      = c.scope, !.org = o, !.slug = s]
  <2>2. q \in Request
    <3>1. /\ c.scope \in {None, "platform", "org"}
          /\ s \in Opt(Slugs) /\ o \in Opt(Orgs)
      BY <2>c DEF Opt
    <3>2. "createRole" \in Opt(AllOps) /\ "saveRole" \in Pcs
      BY DEF Opt, AllOps, Pcs
    <3> QED BY <1>i, <3>1, <3>2 DEF Request
  <2>3. Locals(q)
    <3>1. /\ q.op = "createRole" /\ q.pc = "saveRole" /\ q.scope = c.scope
          /\ q.org = o /\ q.slug = s /\ q.k = 1
      BY DEF Idle
    <3> HIDE DEF q
    <3> QED BY <2>c, <3>1 DEF Locals
  <2> QED BY <2>1, <2>2, <2>3 DEF TypedRequest
<1>15. CASE AddMember(r)
  <2>1. PICK c \in Callers, o \in Orgs, t \in Slugs, u \in Users,
             x \in Roles :
          /\ MayAssign(c, o, t) /\ x \in FindBySlug(t, o)
          /\ Becomes(r, [Idle EXCEPT !.op = "addMember", !.pc = "findMember",
                           !.scope = c.scope, !.user = u, !.org = o,
                           !.role = x])
    BY <1>15, AddMemberStarts
  <2>c. c.scope \in {"platform", "org"}
    BY CallersTyped
  <2> DEFINE q == [Idle EXCEPT !.op = "addMember", !.pc = "findMember", !.scope
      = c.scope, !.user = u, !.org = o, !.role = x]
  <2>2. q \in Request
    <3>1. /\ c.scope \in {None, "platform", "org"} /\ u \in Opt(Users)
          /\ o \in Opt(Orgs) /\ x \in Opt(Roles)
      BY <2>1, <2>c DEF Opt
    <3>2. "addMember" \in Opt(AllOps) /\ "findMember" \in Pcs
      BY DEF Opt, AllOps, Pcs
    <3> QED BY <1>i, <3>1, <3>2 DEF Request
  <2>3. Locals(q)
    <3>1. /\ q.op = "addMember" /\ q.pc = "findMember" /\ q.scope = c.scope
          /\ q.user = u /\ q.org = o /\ q.role = x /\ q.k = 1
      BY DEF Idle
    <3> HIDE DEF q
    <3> QED BY <2>1, <2>c, <3>1 DEF Locals
  <2> QED BY <2>1, <2>2, <2>3 DEF TypedRequest
<1>16. CASE UpdateMember(r)
  <2>1. PICK c \in Callers, o \in Orgs, t \in Slugs, u \in Users,
             x \in Roles :
          /\ MayAssign(c, o, t) /\ x \in FindBySlug(t, o)
          /\ Becomes(r, [Idle EXCEPT !.op = "updateMember", !.pc = "findDoomed",
                           !.scope = c.scope, !.user = u, !.org = o,
                           !.role = x])
    BY <1>16, UpdateMemberStarts
  <2>c. c.scope \in {"platform", "org"}
    BY CallersTyped
  <2> DEFINE q == [Idle EXCEPT !.op = "updateMember", !.pc = "findDoomed",
      !.scope = c.scope, !.user = u, !.org = o, !.role = x]
  <2>2. q \in Request
    <3>1. /\ c.scope \in {None, "platform", "org"} /\ u \in Opt(Users)
          /\ o \in Opt(Orgs) /\ x \in Opt(Roles)
      BY <2>1, <2>c DEF Opt
    <3>2. "updateMember" \in Opt(AllOps) /\ "findDoomed" \in Pcs
      BY DEF Opt, AllOps, Pcs
    <3> QED BY <1>i, <3>1, <3>2 DEF Request
  <2>3. Locals(q)
    <3>1. /\ q.op = "updateMember" /\ q.pc = "findDoomed"
          /\ q.scope = c.scope /\ q.user = u /\ q.org = o /\ q.role = x
          /\ q.k = 1
      BY DEF Idle
    <3> HIDE DEF q
    <3> QED BY <2>1, <2>c, <3>1 DEF Locals
  <2> QED BY <2>1, <2>2, <2>3 DEF TypedRequest
<1>17. CASE RemoveMember(r)
  <2>0. PICK c \in Callers, o \in Orgs, u \in Users :
          \E m \in MembersOf(u, o) :
            Becomes(r, [Idle EXCEPT !.op = "removeMember",
                          !.pc = "findDoomed", !.scope = c.scope,
                          !.user = u, !.org = o, !.member = m])
    BY <1>17 DEF RemoveMember
  <2>1. PICK m \in MembersOf(u, o) :
          /\ Becomes(r, [Idle EXCEPT !.op = "removeMember", !.pc =
              "findDoomed", !.scope = c.scope, !.user = u, !.org = o, !.member
              = m])
    BY <2>0
  <2>c. c.scope \in {"platform", "org"}
    BY CallersTyped
  <2>t. m \in Members
    BY DEF MembersOf
  <2> DEFINE q == [Idle EXCEPT !.op = "removeMember", !.pc = "findDoomed",
      !.scope = c.scope, !.user = u, !.org = o, !.member = m]
  <2>2. q \in Request
    <3>1. /\ c.scope \in {None, "platform", "org"} /\ u \in Opt(Users)
          /\ o \in Opt(Orgs) /\ m \in Opt(Members)
      BY <2>1, <2>c, <2>t DEF Opt
    <3>2. "removeMember" \in Opt(AllOps) /\ "findDoomed" \in Pcs
      BY DEF Opt, AllOps, Pcs
    <3> QED BY <1>i, <3>1, <3>2 DEF Request
  <2>3. Locals(q)
    <3>1. /\ q.op = "removeMember" /\ q.pc = "findDoomed"
          /\ q.scope = c.scope /\ q.user = u /\ q.org = o /\ q.member = m
          /\ q.k = 1
      BY DEF Idle
    <3> HIDE DEF q
    <3> QED BY <2>c, <2>t, <3>1 DEF Locals
  <2> QED BY <2>1, <2>2, <2>3 DEF TypedRequest
<1>18. CASE FindDoomed(r)
  <2>1. PICK D \in SUBSET Grants, pc \in {AfterGrants(p), "dropGrant"} :
          Becomes(r, [p EXCEPT !.doomed = D, !.pc = pc])
    BY <1>18 DEF FindDoomed, GrantsIn
  <2> DEFINE q == [p EXCEPT !.doomed = D, !.pc = pc]
  <2>2. pc = "dropGrant" \/ pc = AfterGrants(p)
    BY <2>1
  <2>3. q \in Request
    BY <2>2 DEF Request, Pcs, AfterGrants
  <2>4. Locals(q)
    BY <1>18, <2>2 DEF Locals, FindDoomed, Request, AfterGrants
  <2> QED BY <2>1, <2>3, <2>4 DEF TypedRequest
<1>19. CASE DropGrant(r)
  <2>1. PICK D \in SUBSET Grants, pc \in {AfterGrants(p), "dropGrant"} :
          Becomes(r, [p EXCEPT !.doomed = D, !.pc = pc])
    BY <1>19 DEF DropGrant, Request
  <2> DEFINE q == [p EXCEPT !.doomed = D, !.pc = pc]
  <2>2. pc = "dropGrant" \/ pc = AfterGrants(p)
    BY <2>1
  <2>3. q \in Request
    BY <2>2 DEF Request, Pcs, AfterGrants
  <2>4. Locals(q)
    BY <1>19, <2>2 DEF Locals, DropGrant, Request, AfterGrants
  <2> QED BY <2>1, <2>3, <2>4 DEF TypedRequest
<1>20. CASE DeleteMember(r)
  BY <1>20, <1>i DEF DeleteMember, TypedRequest
<1>21. CASE Invite(r)
  <2>1. PICK c \in Callers, o \in Orgs, s \in Slugs, e \in Emails :
          /\ MayAssign(c, o, s)
          /\ Becomes(r, [Idle EXCEPT !.op = "invite", !.pc = "saveInvite",
              !.scope = c.scope, !.email = e, !.org = o, !.slug = s])
    BY <1>21 DEF Invite
  <2>c. c.scope \in {"platform", "org"}
    BY CallersTyped
  <2> DEFINE q == [Idle EXCEPT !.op = "invite", !.pc = "saveInvite", !.scope =
      c.scope, !.email = e, !.org = o, !.slug = s]
  <2>2. q \in Request
    <3>1. /\ c.scope \in {None, "platform", "org"} /\ e \in Opt(Emails)
          /\ o \in Opt(Orgs) /\ s \in Opt(Slugs)
      BY <2>1, <2>c DEF Opt
    <3>2. "invite" \in Opt(AllOps) /\ "saveInvite" \in Pcs
      BY DEF Opt, AllOps, Pcs
    <3> QED BY <1>i, <3>1, <3>2 DEF Request
  <2>3. Locals(q)
    <3>1. /\ q.op = "invite" /\ q.pc = "saveInvite" /\ q.scope = c.scope
          /\ q.email = e /\ q.org = o /\ q.slug = s /\ q.k = 1
      BY DEF Idle
    <3> HIDE DEF q
    <3> QED BY <2>1, <2>c, <3>1 DEF Locals, MayAssign
  <2> QED BY <2>1, <2>2, <2>3 DEF TypedRequest
<1>22. CASE SaveInvite(r)
  BY <1>22, <1>i DEF SaveInvite, TypedRequest
<1>23. CASE AcceptInvitation(r)
  <2>1. PICK i \in Invites, s \in TemplateSlugs :
          /\ Live(invites[i])
          /\ s = "org_admin" => invites[i].by = "platform"
          /\ Becomes(r, [Idle EXCEPT !.op = "accept", !.pc = "markUsed",
               !.scope = invites[i].by, !.invite = i,
               !.email = invites[i].email, !.org = invites[i].org,
               !.slug = s])
    BY <1>23 DEF AcceptInvitation, Typed, InvitesApt, Live
  <2> DEFINE q == [Idle EXCEPT !.op = "accept", !.pc = "markUsed",
               !.scope = invites[i].by, !.invite = i,
               !.email = invites[i].email, !.org = invites[i].org,
               !.slug = s]
  <2>2. invites[i] \in InviteRow
    BY <2>1 DEF Typed, TypeOK, Live
  <2>3. q \in Request
    <3>1. /\ invites[i].by \in {None, "platform", "org"}
          /\ i \in Opt(Invites) /\ invites[i].email \in Opt(Emails)
          /\ invites[i].org \in Opt(Orgs) /\ s \in Opt(Slugs)
      BY <2>2 DEF Opt, InviteRow
    <3>2. "accept" \in Opt(AllOps) /\ "markUsed" \in Pcs
      BY DEF Opt, AllOps, Pcs
    <3> QED BY <1>i, <3>1, <3>2 DEF Request
  <2>4. Locals(q)
    <3>1. /\ q.op = "accept" /\ q.pc = "markUsed" /\ q.scope = invites[i].by
          /\ q.invite = i /\ q.email = invites[i].email
          /\ q.org = invites[i].org /\ q.slug = s /\ q.k = 1
      BY DEF Idle
    <3> HIDE DEF q
    <3> QED BY <2>1, <2>2, <3>1 DEF Live, Locals, InviteRow
  <2> QED BY <2>1, <2>3, <2>4 DEF TypedRequest
<1>24. CASE MarkUsed(r)
  <2>1. Becomes(r, [p EXCEPT !.pc = "findAccount"])
    BY <1>24 DEF MarkUsed
  <2> DEFINE q == [p EXCEPT !.pc = "findAccount"]
  <2>2. q \in Request
    BY DEF Request, Pcs
  <2>3. Locals(q)
    BY <1>24, <2>1 DEF MarkUsed, Locals, Request, Idle
  <2> QED BY <2>1, <2>2, <2>3 DEF TypedRequest
<1>25. CASE CreateOrgUser(r)
  <2>1. PICK o \in Orgs, e \in Emails :
          /\ Becomes(r, [Idle EXCEPT !.op = "createOrgUser", !.scope = "org",
              !.pc = "findAccount", !.email = e, !.org = o, !.slug =
              "end_user"])
    BY <1>25 DEF CreateOrgUser
  <2> DEFINE q == [Idle EXCEPT !.op = "createOrgUser", !.scope = "org", !.pc =
      "findAccount", !.email = e, !.org = o, !.slug = "end_user"]
  <2>2. q \in Request
    <3>1. /\ "org" \in {None, "platform", "org"} /\ e \in Opt(Emails)
          /\ o \in Opt(Orgs) /\ "end_user" \in Opt(Slugs)
      BY <2>1 DEF Opt
    <3>2. "createOrgUser" \in Opt(AllOps) /\ "findAccount" \in Pcs
      BY DEF Opt, AllOps, Pcs
    <3> QED BY <1>i, <3>1, <3>2 DEF Request
  <2>3. Locals(q)
    <3>1. /\ q.op = "createOrgUser" /\ q.scope = "org"
          /\ q.pc = "findAccount" /\ q.email = e /\ q.org = o
          /\ q.slug = "end_user" /\ q.k = 1
      BY DEF Idle
    <3> HIDE DEF q
    <3> QED BY <3>1 DEF Locals
  <2> QED BY <2>1, <2>2, <2>3 DEF TypedRequest
<1>26. CASE FindAccount(r)
  <2>1. CASE Goto(r, "saveUser")
    <3> DEFINE q == [p EXCEPT !.pc = "saveUser"]
    <3>1. q \in Request
      BY DEF Request, Pcs
    <3>2. Locals(q)
      BY <1>26 DEF Locals, FindAccount, Request
    <3> QED BY <2>1, <3>1, <3>2 DEF TypedRequest
  <2>2. ASSUME NEW u \in Users,
               Becomes(r, [p EXCEPT !.pc = "findRole", !.user = u])
        PROVE  \E q \in TypedRequest : Becomes(r, q)
    <3> DEFINE q == [p EXCEPT !.pc = "findRole", !.user = u]
    <3>1. q \in Request
      BY DEF Request, Pcs, Opt
    <3>2. Locals(q)
      <4>1. /\ p.pc = "findAccount" /\ p.k = 1 /\ p.slug \in TemplateSlugs
            /\ p.slug = "org_admin" => p.scope = "platform"
            /\ p.op \notin {"createOrg", "createRole"} /\ p.org \in Orgs
        BY <1>26 DEF Locals, FindAccount
      <4>2. /\ q.pc = "findRole" /\ q.user = u /\ q.k = 1
            /\ q.slug = p.slug /\ q.scope = p.scope /\ q.op = p.op
            /\ q.org = p.org
        BY <4>1 DEF Request
      <4>3. ~RoleFound(q)
        BY <4>2 DEF RoleFound
      <4> HIDE DEF q
      <4> QED BY <4>1, <4>2, <4>3 DEF Locals
    <3> QED BY <2>2, <3>1, <3>2 DEF TypedRequest
  <2> QED BY <1>26, <2>1, <2>2 DEF FindAccount, FindByEmail
<1>27. CASE FindUser(r)
  <2>1. PICK c \in Callers, u \in Users :
          /\ Becomes(r, [Idle EXCEPT !.op = "deleteUser", !.pc = "deleteUser",
              !.scope = c.scope, !.user = u])
    BY <1>27 DEF FindUser
  <2>c. c.scope \in {"platform", "org"}
    BY CallersTyped
  <2> DEFINE q == [Idle EXCEPT !.op = "deleteUser", !.pc = "deleteUser",
      !.scope = c.scope, !.user = u]
  <2>2. q \in Request
    <3>1. c.scope \in {None, "platform", "org"} /\ u \in Opt(Users)
      BY <2>c DEF Opt
    <3>2. "deleteUser" \in Opt(AllOps) /\ "deleteUser" \in Pcs
      BY DEF Opt, AllOps, Pcs
    <3> QED BY <1>i, <3>1, <3>2 DEF Request
  <2>3. Locals(q)
    <3>1. /\ q.op = "deleteUser" /\ q.pc = "deleteUser" /\ q.scope = c.scope
          /\ q.user = u /\ q.k = 1
      BY DEF Idle
    <3> HIDE DEF q
    <3> QED BY <2>c, <3>1 DEF Locals
  <2> QED BY <2>1, <2>2, <2>3 DEF TypedRequest
<1>28. CASE DeleteUser(r)
  BY <1>28, <1>i DEF DeleteUser, TypedRequest
<1> QED BY <1>1, <1>2, <1>3, <1>4, <1>5, <1>6, <1>7, <1>8, <1>9, <1>10, <1>11,
           <1>12, <1>13, <1>14, <1>15, <1>16, <1>17, <1>18, <1>19, <1>20,
           <1>21, <1>22, <1>23, <1>24, <1>25, <1>26, <1>27, <1>28 DEF Step

\* The actions that write a table.
Writes(r) ==
  \/ SaveRole(r) \/ SaveMember(r) \/ SaveGrant(r) \/ SaveOrg(r) \/ SaveUser(r)
  \/ DeleteOrganization(r) \/ DropGrant(r) \/ DeleteMember(r)
  \/ SaveInvite(r) \/ MarkUsed(r) \/ DeleteUser(r)

LEMMA Reads ==
  ASSUME NEW r \in Reqs, Step(r), ~Writes(r)
  PROVE  UNCHANGED tables
BY DEF Step, Writes, Throw, FindRole, FindMember, FindGrant, CreateOrganization,
       FindAdmin, FindOrg, CreateRole, AddMember, UpdateMember, RemoveMember,
       FindDoomed, Invite, AcceptInvitation, CreateOrgUser, FindAccount,
       FindUser

LEMMA SavedInvite ==
  ASSUME Typed, NEW r \in Reqs, SaveInvite(r)
  PROVE  \E i \in Invites, row \in InviteRow :
           /\ invites[i] = Free
           /\ row.slug = "org_admin" => row.by = "platform"
           /\ invites' = [invites EXCEPT ![i] = row]
<1> DEFINE p == req[r]
           row == [email |-> p.email, org |-> p.org, slug |-> p.slug,
                   used |-> FALSE, by |-> p.scope]
<1>1. PICK i \in Invites : /\ invites[i] = Free
                           /\ invites' = [invites EXCEPT ![i] = row]
  BY DEF SaveInvite, Fresh, Typed, TypeOK
<1>2. /\ p.email \in Emails /\ p.org \in Orgs /\ p.slug \in Slugs
      /\ p.scope \in {"platform", "org"}
      /\ p.slug = "org_admin" => p.scope = "platform"
  BY DEF SaveInvite, At, Typed, Locals, EmailKnown, OrgKnown, SlugKnown,
         Appointed
<1>3. row \in InviteRow
  BY <1>2 DEF InviteRow
<1> QED BY <1>1, <1>2, <1>3

LEMMA MarkedInvite ==
  ASSUME Typed, NEW r \in Reqs, MarkUsed(r)
  PROVE  \E i \in Invites, row \in InviteRow :
           /\ invites[i] \in InviteRow
           /\ row.slug = invites[i].slug /\ row.by = invites[i].by
           /\ invites' = [invites EXCEPT ![i] = row]
<1> DEFINE i == req[r].invite
           row == [invites[i] EXCEPT !.used = TRUE]
<1>1. i \in Invites /\ invites[i] # Free
  BY DEF MarkUsed, At, Typed, Locals, InviteKnown
<1>2. invites[i] \in InviteRow
  BY <1>1 DEF Typed, TypeOK
<1>3. invites' = [invites EXCEPT ![i] = row]
  BY DEF MarkUsed
<1>4. row \in InviteRow /\ row.slug = invites[i].slug /\ row.by = invites[i].by
  BY <1>2 DEF InviteRow
<1> QED BY <1>1, <1>2, <1>3, <1>4

\* An invitation is never deleted, and who made it and for which role stays.
LEMMA InvitesStay ==
  ASSUME Typed, NEW r \in Reqs, Step(r)
  PROVE  /\ invites' \in [Invites -> {Free} \cup InviteRow]
         /\ \A i \in Invites : invites[i] # Free => invites'[i] # Free
         /\ InvitesApt'
<1> USE MembershipAssumption DEF Typed, TypeOK, InvitesApt
<1>1. CASE SaveInvite(r)
  <2>1. PICK i \in Invites, row \in InviteRow :
          /\ row.slug = "org_admin" => row.by = "platform"
          /\ invites' = [invites EXCEPT ![i] = row]
    BY <1>1, SavedInvite
  <2>2. row # Free
    BY MembershipAssumption
  <2> QED BY <2>1, <2>2
<1>2. CASE MarkUsed(r)
  BY <1>2, MarkedInvite
<1>3. CASE ~Writes(r)
  BY <1>3, Reads DEF tables
<1>4. CASE Writes(r) /\ ~SaveInvite(r) /\ ~MarkUsed(r)
  <2>1. UNCHANGED invites
    BY <1>4 DEF Writes, SaveRole, SaveMember, SaveGrant, SaveOrg, SaveUser,
                DeleteOrganization, DropGrant, DeleteMember, DeleteUser
  <2> QED BY <2>1
<1> QED BY <1>1, <1>2, <1>3, <1>4

\* What a saved role is.
LEMMA SavedRole ==
  ASSUME Typed, NEW r \in Reqs, SaveRole(r)
  PROVE  \E x \in Roles, s \in Slugs :
           /\ roles[x] = Free /\ req[r].org \in Orgs /\ Live(orgs[req[r].org])
           /\ roles' = [roles EXCEPT ![x] = [org |-> req[r].org, slug |-> s]]
           /\ IF req[r].op = "createRole"
                THEN End(r)
                ELSE s = Templates[req[r].k] /\ NextTemplate(r, x)
<1> DEFINE p == req[r]
<1>1. p \in Request /\ p.pc = "saveRole" /\ Locals(p)
  BY DEF Typed, TypeOK, SaveRole, At
<1>2. p.org \in Orgs
  BY <1>1 DEF Locals, OrgKnown, Loop
<1>3. CASE p.op = "createRole"
  <2>1. p.slug \in Slugs
    BY <1>1, <1>3 DEF Locals, SlugKnown
  <2>2. PICK x \in Roles :
          /\ roles[x] = Free
          /\ roles' = [roles EXCEPT ![x] = [org |-> p.org, slug |-> p.slug]]
          /\ End(r)
    BY <1>3 DEF SaveRole, Fresh, Typed, TypeOK
  <2> QED BY <1>2, <1>3, <2>1, <2>2 DEF SaveRole
<1>4. CASE p.op # "createRole"
  <2>1. Templates[p.k] \in Slugs
    BY <1>1, TemplateFacts DEF Request
  <2>2. PICK x \in Roles :
          /\ roles[x] = Free
          /\ roles' = [roles EXCEPT
                         ![x] = [org |-> p.org, slug |-> Templates[p.k]]]
          /\ NextTemplate(r, x)
    BY <1>4 DEF SaveRole, Fresh, Typed, TypeOK
  <2> QED BY <1>2, <1>4, <2>1, <2>2 DEF SaveRole
<1> QED BY <1>3, <1>4

LEMMA TablesTyped ==
  ASSUME Typed, NEW r \in Reqs, Step(r)
  PROVE  /\ accounts' \in [Users -> {Free, Gone} \cup Emails]
         /\ orgs'     \in [Orgs -> {Free, Gone, "org"}]
         /\ roles'    \in [Roles -> {Free, Gone} \cup RoleRow]
         /\ members'  \in [Members -> {Free, Gone} \cup MemberRow]
         /\ grants'   \in [Grants -> {Free, Gone} \cup GrantRow]
<1>0. req[r] \in Request /\ Locals(req[r]) /\ TypeOK
  BY DEF Typed, TypeOK
<1> USE <1>0 DEF At
<1>1. CASE SaveRole(r)
  BY <1>1, SavedRole DEF SaveRole, TypeOK, RoleRow
<1>2. CASE SaveMember(r)
  <2>1. req[r].user \in Users /\ req[r].org \in Orgs
    BY <1>2 DEF SaveMember, Locals, UserKnown, OrgKnown, Assigning
  <2>2. [user |-> req[r].user, org |-> req[r].org] \in MemberRow
    BY <2>1 DEF MemberRow
  <2>3. PICK m \in Members :
          members' = [members EXCEPT ![m] = [user |-> req[r].user,
                                             org |-> req[r].org]]
    BY <1>2 DEF SaveMember, Fresh, TypeOK
  <2> QED BY <1>2, <2>2, <2>3 DEF SaveMember, TypeOK
<1>3. CASE SaveGrant(r)
  <2>1. req[r].user \in Users /\ req[r].role \in Roles
    BY <1>3 DEF SaveGrant, Locals, UserKnown, RoleKnown, HasRole, Assigning
  <2>2. [user |-> req[r].user, role |-> req[r].role] \in GrantRow
    BY <2>1 DEF GrantRow
  <2>3. PICK g \in Grants :
          grants' = [grants EXCEPT ![g] = [user |-> req[r].user,
                                           role |-> req[r].role]]
    BY <1>3 DEF SaveGrant, Fresh, TypeOK
  <2> QED BY <1>3, <2>2, <2>3 DEF SaveGrant, TypeOK
<1>4. CASE SaveOrg(r)
  BY <1>4 DEF SaveOrg, TypeOK
<1>5. CASE SaveUser(r)
  <2>1. req[r].email \in Emails
    BY <1>5 DEF SaveUser, Locals, EmailKnown
  <2> QED BY <1>5, <2>1 DEF SaveUser, TypeOK
<1>6. CASE DeleteOrganization(r)
  BY <1>6 DEF DeleteOrganization, TypeOK
<1>7. CASE DropGrant(r)
  BY <1>7 DEF DropGrant, TypeOK
<1>8. CASE DeleteMember(r)
  BY <1>8 DEF DeleteMember, TypeOK
<1>9. CASE DeleteUser(r)
  BY <1>9 DEF DeleteUser, TypeOK
<1>10. CASE SaveInvite(r) \/ MarkUsed(r)
  BY <1>10 DEF SaveInvite, MarkUsed, TypeOK
<1>11. CASE ~Writes(r)
  BY <1>11, Reads DEF TypeOK, tables
<1> QED BY <1>1, <1>2, <1>3, <1>4, <1>5, <1>6, <1>7, <1>8, <1>9, <1>10, <1>11
        DEF Writes

LEMMA TypedStep ==
  ASSUME Typed, [Next]_vars
  PROVE  Typed'
<1>1. CASE UNCHANGED vars
  BY <1>1 DEF Typed, TypeOK, Locals, OpKnown, OrgKnown, UserKnown, EmailKnown,
     SlugKnown, RoleKnown, MemberKnown, InviteKnown, Appointed, InvitesApt,
     vars, tables
<1>2. ASSUME NEW r \in Reqs, Step(r), UNCHANGED traffic PROVE Typed'
  <2>1. PICK q \in TypedRequest : req' = [req EXCEPT ![r] = q]
    BY <1>2, StepLocals DEF Becomes
  <2>2. req' \in [Reqs -> Request]
    BY <2>1 DEF TypedRequest, Typed, TypeOK
  <2>3. ASSUME NEW s \in Reqs PROVE Locals(req[s])' 
    <3>1. Locals(req'[s])
      BY <2>1 DEF TypedRequest, Typed, TypeOK
    <3> QED
      BY <1>2, <3>1, InvitesStay
      DEF Locals, OpKnown, OrgKnown, UserKnown, EmailKnown, SlugKnown,
          RoleKnown, MemberKnown, InviteKnown, Appointed
  <2> QED BY <1>2, <2>2, <2>3, InvitesStay, TablesTyped DEF Typed, TypeOK
<1> QED BY <1>1, <1>2 DEF Next

LEMMA TypedInit == Init => Typed
BY IdleTyped, MembershipAssumption
DEF Init, Typed, TypeOK, TypedRequest, InvitesApt

\* The tables and the requests stay what they are declared to be.
THEOREM WellTyped == Spec => []TypeOK
<1>1. Typed /\ [Next]_vars => Typed'
  BY TypedStep
<1>2. Typed => TypeOK
  BY DEF Typed
<1> QED BY TypedInit, <1>1, <1>2, PTL DEF Spec

-----------------------------------------------------------------------------
(* No row outlives its owner *)

\* A row is not a sentinel, and what is neither sentinel is a row.
LEMMA RowFacts ==
  /\ \A x \in Emails \cup {"org"} \cup RoleRow \cup MemberRow \cup GrantRow
       \cup InviteRow : Live(x)
  /\ ~Live(Free) /\ ~Live(Gone)
  /\ Typed =>
       /\ \A u \in Users : Live(accounts[u]) => accounts[u] \in Emails
       /\ \A x \in Roles : Live(roles[x]) =>
            roles[x] \in RoleRow /\ roles[x].org \in Orgs
       /\ \A m \in Members : Live(members[m]) =>
            /\ members[m] \in MemberRow
            /\ members[m].user \in Users /\ members[m].org \in Orgs
       /\ \A g \in Grants : Live(grants[g]) =>
            /\ grants[g] \in GrantRow
            /\ grants[g].user \in Users /\ grants[g].role \in Roles
<1>1. \A x \in Emails \cup {"org"} \cup RoleRow \cup MemberRow \cup GrantRow
        \cup InviteRow : Live(x)
  BY MembershipAssumption DEF Live
<1>2. ~Live(Free) /\ ~Live(Gone)
  BY DEF Live
<1>3. ASSUME Typed
      PROVE  /\ \A u \in Users : Live(accounts[u]) => accounts[u] \in Emails
             /\ \A x \in Roles : Live(roles[x]) =>
                  roles[x] \in RoleRow /\ roles[x].org \in Orgs
             /\ \A m \in Members : Live(members[m]) =>
                  /\ members[m] \in MemberRow
                  /\ members[m].user \in Users /\ members[m].org \in Orgs
             /\ \A g \in Grants : Live(grants[g]) =>
                  /\ grants[g] \in GrantRow
                  /\ grants[g].user \in Users /\ grants[g].role \in Roles
  BY <1>3 DEF Typed, TypeOK, Live, RoleRow, MemberRow, GrantRow
<1> QED BY <1>1, <1>2, <1>3

\* What a saved membership and a saved grant are.
LEMMA SavedMember ==
  ASSUME Typed, NEW r \in Reqs, SaveMember(r)
  PROVE  \E m \in Members, row \in MemberRow :
           /\ row = [user |-> req[r].user, org |-> req[r].org]
           /\ Live(accounts[row.user]) /\ Live(orgs[row.org])
           /\ members[m] = Free
           /\ members' = [members EXCEPT ![m] = row]
<1> DEFINE row == [user |-> req[r].user, org |-> req[r].org]
<1>1. req[r].user \in Users /\ req[r].org \in Orgs
  BY DEF SaveMember, Typed, At, Locals, UserKnown, OrgKnown, Assigning
<1>2. /\ row \in MemberRow
      /\ row.user = req[r].user /\ row.org = req[r].org
  BY <1>1 DEF MemberRow
<1>3. PICK m \in Members : /\ members[m] = Free
                           /\ members' = [members EXCEPT ![m] = row]
  BY DEF SaveMember, Fresh, Typed, TypeOK
<1> HIDE DEF row
<1>4. Live(accounts[row.user]) /\ Live(orgs[row.org])
  BY <1>2 DEF SaveMember
<1> QED BY <1>2, <1>3, <1>4 DEF row

LEMMA SavedGrant ==
  ASSUME Typed, NEW r \in Reqs, SaveGrant(r)
  PROVE  \E g \in Grants, row \in GrantRow :
           /\ row = [user |-> req[r].user, role |-> req[r].role]
           /\ Live(accounts[row.user]) /\ Live(roles[row.role])
           /\ grants[g] = Free
           /\ grants' = [grants EXCEPT ![g] = row]
<1> DEFINE row == [user |-> req[r].user, role |-> req[r].role]
<1>1. req[r].user \in Users /\ req[r].role \in Roles
  BY DEF SaveGrant, Typed, At, Locals, UserKnown, RoleKnown, HasRole, Assigning
<1>2. /\ row \in GrantRow
      /\ row.user = req[r].user /\ row.role = req[r].role
  BY <1>1 DEF GrantRow
<1>3. PICK g \in Grants : /\ grants[g] = Free
                          /\ grants' = [grants EXCEPT ![g] = row]
  BY DEF SaveGrant, Fresh, Typed, TypeOK
<1> HIDE DEF row
<1>4. Live(accounts[row.user]) /\ Live(roles[row.role])
  BY <1>2 DEF SaveGrant
<1> QED BY <1>2, <1>3, <1>4 DEF row

LEMMA OwnersStep ==
  ASSUME Typed, Typed', RowsHaveOwners, NEW r \in Reqs, Step(r)
  PROVE  RowsHaveOwners'
<1> USE RowFacts
<1>0. req[r] \in Request /\ Locals(req[r]) /\ TypeOK
  BY DEF Typed, TypeOK
<1>1. CASE SaveRole(r)
  <2>1. PICK x \in Roles, row \in RoleRow :
          /\ roles[x] = Free /\ Live(orgs[row.org])
          /\ roles' = [roles EXCEPT ![x] = row]
    BY <1>1, SavedRole DEF RoleRow
  <2> QED BY <1>0, <1>1, <2>1 DEF SaveRole, TypeOK, RowsHaveOwners
<1>2. CASE SaveMember(r)
  <2>1. PICK m \in Members, row \in MemberRow :
          /\ Live(accounts[row.user]) /\ Live(orgs[row.org])
          /\ members' = [members EXCEPT ![m] = row]
    BY <1>2, SavedMember
  <2> QED BY <1>0, <1>2, <2>1 DEF SaveMember, TypeOK, RowsHaveOwners
<1>3. CASE SaveGrant(r)
  <2>1. PICK g \in Grants, row \in GrantRow :
          /\ Live(accounts[row.user]) /\ Live(roles[row.role])
          /\ grants' = [grants EXCEPT ![g] = row]
    BY <1>3, SavedGrant
  <2> QED BY <1>0, <1>3, <2>1 DEF SaveGrant, TypeOK, RowsHaveOwners
<1>4. CASE SaveOrg(r)
  BY <1>0, <1>4 DEF SaveOrg, TypeOK, RowsHaveOwners
<1>5. CASE SaveUser(r)
  <2>1. req[r].email \in Emails
    BY <1>0, <1>5 DEF SaveUser, At, Locals, EmailKnown
  <2> QED BY <1>0, <1>5, <2>1 DEF SaveUser, TypeOK, RowsHaveOwners
<1>6. CASE DeleteOrganization(r)
  <2>1. req[r].org \in Orgs
    BY <1>0, <1>6 DEF DeleteOrganization, At, Locals, OrgKnown
  <2> QED BY <1>0, <1>6, <2>1 DEF DeleteOrganization, TypeOK, RowsHaveOwners
<1>7. CASE DropGrant(r)
  BY <1>0, <1>7 DEF DropGrant, TypeOK, RowsHaveOwners
<1>8. CASE DeleteMember(r)
  BY <1>0, <1>8 DEF DeleteMember, TypeOK, RowsHaveOwners
<1>9. CASE DeleteUser(r)
  <2>1. req[r].user \in Users
    BY <1>0, <1>9 DEF DeleteUser, At, Locals, UserKnown
  <2> QED BY <1>0, <1>9, <2>1 DEF DeleteUser, TypeOK, RowsHaveOwners
<1>10. CASE SaveInvite(r) \/ MarkUsed(r)
  BY <1>10 DEF SaveInvite, MarkUsed, RowsHaveOwners
<1>11. CASE ~Writes(r)
  BY <1>11, Reads DEF RowsHaveOwners, tables
<1> QED BY <1>1, <1>2, <1>3, <1>4, <1>5, <1>6, <1>7, <1>8, <1>9, <1>10, <1>11
        DEF Writes

Owned == Typed /\ RowsHaveOwners

LEMMA OwnedStep == Owned /\ [Next]_vars => Owned'
<1> SUFFICES ASSUME Owned, [Next]_vars PROVE Owned'
  OBVIOUS
<1>1. Typed'
  BY TypedStep DEF Owned
<1>2. CASE UNCHANGED vars
  BY <1>1, <1>2 DEF Owned, RowsHaveOwners, vars, tables
<1>3. ASSUME NEW r \in Reqs, Step(r) PROVE Owned'
  BY <1>1, <1>3, OwnersStep DEF Owned
<1> QED BY <1>2, <1>3 DEF Next

LEMMA OwnedInit == Init => Owned
BY TypedInit, RowFacts DEF Init, Owned, RowsHaveOwners

\* A handler saves memberships, grants and roles with identifiers it read some
\* awaits ago; the foreign keys refuse a row whose owner is gone by then, and
\* the deletions of organisations and users take every row that depends on them.
THEOREM OwnersOutlive == Spec => []RowsHaveOwners
<1>1. Owned => RowsHaveOwners
  BY DEF Owned
<1> QED BY OwnedInit, OwnedStep, <1>1, PTL DEF Spec

-----------------------------------------------------------------------------
(* Who appoints administrators *)

\* The role that a handler is about to assign was read from its organisation,
\* and belongs to an administrator only if a platform administrator asked.
Apt(q) ==
  HasRole(q) =>
    /\ roles[q.role] # Free
    /\ Live(roles[q.role]) =>
         /\ roles[q.role].org = q.org
         /\ roles[q.role].slug = "org_admin" => q.scope = "platform"

AllApt == Owned /\ \A r \in Reqs : Apt(req[r])

\* A role is created once, and changes by its deletion only.
LEMMA RolesStay ==
  ASSUME Typed, NEW r \in Reqs, Step(r), NEW x \in Roles, roles[x] # Free
  PROVE  roles'[x] # Free /\ (Live(roles'[x]) => roles'[x] = roles[x])
<1> USE MembershipAssumption DEF Typed, TypeOK
<1>1. CASE SaveRole(r)
  BY <1>1, SavedRole
<1>2. CASE DeleteOrganization(r)
  BY <1>2 DEF DeleteOrganization, Live
<1>3. CASE ~SaveRole(r) /\ ~DeleteOrganization(r)
  <2>1. UNCHANGED roles
    BY <1>3, Reads DEF tables, Writes, SaveMember, SaveGrant, SaveOrg, SaveUser,
       DropGrant, DeleteMember, DeleteUser, SaveInvite, MarkUsed
  <2> QED BY <2>1
<1> QED BY <1>1, <1>2, <1>3

\* The role of a template is kept for the end of the loop if it was asked for.
LEMMA NextTemplateRole ==
  ASSUME Typed, NEW r \in Reqs, NEW x \in Roles, req[r].pc \in Loop,
         req[r].op # "createRole", NextTemplate(r, x), HasRole(req'[r])
  PROVE  /\ req'[r].org = req[r].org /\ req'[r].scope = req[r].scope
         /\ \/ req'[r].role = x /\ Templates[req[r].k] = req[r].slug
            \/ req'[r].role = req[r].role /\ HasRole(req[r])
<1> DEFINE p == req[r]
           q == req'[r]
           done == p.k = Len(Templates)
<1>1. p \in Request /\ Locals(p) /\ p.k \in 1 .. Len(Templates)
  BY DEF Typed, TypeOK, Request
<1>2. q = [p EXCEPT
            !.role = IF Templates[p.k] = p.slug THEN x ELSE @,
            !.k    = IF done THEN 1 ELSE @ + 1,
            !.pc   = IF done
                       THEN IF p.op = "createOrg" THEN "findAdmin"
                                                  ELSE "findMember"
                       ELSE "findRole"]
  BY DEF NextTemplate, Becomes, Typed, TypeOK
<1>3. /\ q.org = p.org /\ q.scope = p.scope /\ q.slug = p.slug
      /\ ~done => q.pc = "findRole" /\ q.k = p.k + 1
      /\ Templates[p.k] = p.slug => q.role = x
      /\ Templates[p.k] # p.slug => q.role = p.role
  BY <1>1, <1>2 DEF Request
<1> HIDE DEF q
<1>4. ASSUME Templates[p.k] # p.slug PROVE RoleFound(p)
  <2>1. CASE done
    BY <1>1, <1>4, <2>1, TemplateFacts DEF RoleFound, Locals, SlugKnown
  <2>2. CASE ~done
    <3>1. RoleFound(q)
      BY <1>3, <2>2 DEF HasRole, Loop, Assigning, Dropping, q
    <3> QED BY <1>1, <1>3, <1>4, <2>2, <3>1 DEF RoleFound
  <2> QED BY <2>1, <2>2
<1> QED BY <1>3, <1>4 DEF HasRole, q

\* Every other step keeps the role of the handler or has none.
RoleKept(p, q) ==
  HasRole(q) =>
    HasRole(p) /\ q.role = p.role /\ q.org = p.org /\ q.scope = p.scope

Picks(r) == FindRole(r) \/ SaveRole(r) \/ AddMember(r) \/ UpdateMember(r)

LEMMA RolesKept ==
  ASSUME Typed, NEW r \in Reqs, Step(r), ~Picks(r)
  PROVE  RoleKept(req[r], req'[r])
<1> DEFINE p == req[r]
<1>0. p \in Request /\ Locals(p) /\ req \in [Reqs -> Request]
  BY DEF Typed, TypeOK
<1> USE <1>0 DEF At, Becomes, Goto, End
<1> USE DEF RoleKept, HasRole, Loop, Assigning, Dropping
<1>1. CASE req'[r] = Idle
  BY <1>1 DEF Idle
<1>2. CASE FindMember(r)
  BY <1>2 DEF FindMember, Request
<1>3. CASE SaveMember(r)
  BY <1>3 DEF SaveMember, Request
<1>4. CASE FindGrant(r)
  BY <1>1, <1>4 DEF FindGrant, Request
<1>5. CASE CreateOrganization(r)
  BY <1>5 DEF CreateOrganization, Idle
<1>6. CASE SaveOrg(r)
  BY <1>6 DEF SaveOrg, Request, RoleFound, Locals, SlugKnown, Unprovisioned
<1>7. CASE FindAdmin(r)
  <2>1. PICK u, pc :
          \/ req'[r] = [p EXCEPT !.pc = "saveUser"]
          \/ req'[r] = [p EXCEPT !.pc = pc, !.user = u]
    BY <1>7 DEF FindAdmin
  <2>2. p.pc = "findAdmin"
    BY <1>7 DEF FindAdmin
  <2> QED BY <2>1, <2>2 DEF Request
<1>8. CASE SaveUser(r)
  BY <1>8 DEF SaveUser, Request, RoleFound, Locals, SlugKnown, Unprovisioned
<1>9. CASE FindOrg(r)
  BY <1>9 DEF FindOrg, Idle
<1>10. CASE CreateRole(r)
  BY <1>10 DEF CreateRole, Idle
<1>11. CASE RemoveMember(r)
  BY <1>11 DEF RemoveMember, Idle
<1>12. CASE FindDoomed(r)
  BY <1>12 DEF FindDoomed, AfterGrants, Request
<1>13. CASE DropGrant(r)
  BY <1>13 DEF DropGrant, AfterGrants, Request
<1>14. CASE Invite(r)
  BY <1>14 DEF Invite, Idle
<1>15. CASE AcceptInvitation(r)
  BY <1>15 DEF AcceptInvitation, Idle
<1>16. CASE MarkUsed(r)
  BY <1>16 DEF MarkUsed, Request
<1>17. CASE CreateOrgUser(r)
  BY <1>17 DEF CreateOrgUser, Idle
<1>18. CASE FindAccount(r)
  <2>1. p.pc = "findAccount" /\ p.k = 1
    BY <1>18 DEF FindAccount, Locals, SlugKnown, Unprovisioned, Asking
  <2>2. p.op # "createOrg"
    BY <2>1 DEF Locals, OpKnown, Asking
  <2>3. \/ req'[r] = [p EXCEPT !.pc = "saveUser"]
        \/ \E u : req'[r] = [p EXCEPT !.pc = "findRole", !.user = u]
    BY <1>18 DEF FindAccount
  <2>4. /\ req'[r].pc \in {"saveUser", "findRole"} /\ req'[r].k = 1
        /\ req'[r].op = p.op
    BY <2>1, <2>3 DEF Request
  <2>5. ~RoleFound(req'[r])
    BY <2>4 DEF RoleFound
  <2> QED BY <2>2, <2>4, <2>5
<1>19. CASE FindUser(r)
  BY <1>19 DEF FindUser, Idle
<1>20. CASE \/ Throw(r) \/ SaveGrant(r) \/ DeleteOrganization(r)
            \/ DeleteMember(r) \/ SaveInvite(r) \/ DeleteUser(r)
  BY <1>1, <1>20 DEF Throw, SaveGrant, DeleteOrganization, DeleteMember,
                     SaveInvite, DeleteUser
<1> QED BY <1>2, <1>3, <1>4, <1>5, <1>6, <1>7, <1>8, <1>9, <1>10, <1>11, <1>12,
           <1>13, <1>14, <1>15, <1>16, <1>17, <1>18, <1>19, <1>20
        DEF Step, Picks

LEMMA AptStep ==
  ASSUME AllApt, NEW r \in Reqs, Step(r), NEW s \in Reqs
  PROVE  Apt(req[s])'
<1> DEFINE p == req[r]
<1>0. /\ Typed /\ p \in Request /\ Locals(p) /\ req \in [Reqs -> Request]
      /\ Locals(req[s]) /\ Apt(req[s]) /\ Apt(p)
  BY DEF AllApt, Owned, Typed, TypeOK
<1>1. CASE s # r
  <2>1. req'[s] = req[s]
    BY <1>0, <1>1, StepLocals DEF Becomes
  <2>2. HasRole(req[s]) => req[s].role \in Roles
    BY <1>0 DEF Locals, RoleKnown
  <2> HIDE DEF p
  <2> QED BY <1>0, <2>1, <2>2, RolesStay DEF Apt, HasRole, RoleFound
<1>2. CASE s = r /\ ~Picks(r)
  <2>1. RoleKept(p, req'[r])
    BY <1>0, <1>2, RolesKept
  <2>2. HasRole(p) => p.role \in Roles
    BY <1>0 DEF Locals, RoleKnown
  <2> DEFINE q == req'[r]
  <2> SUFFICES ASSUME HasRole(q)
               PROVE  /\ roles'[q.role] # Free
                      /\ Live(roles'[q.role]) =>
                           /\ roles'[q.role].org = q.org
                           /\ roles'[q.role].slug = "org_admin"
                                => q.scope = "platform"
    BY <1>2 DEF Apt, HasRole, RoleFound
  <2>3. HasRole(p) /\ q.role = p.role /\ q.org = p.org /\ q.scope = p.scope
    BY <2>1 DEF RoleKept
  <2> HIDE DEF p, q
  <2> QED BY <1>0, <2>2, <2>3, RolesStay DEF Apt
<1>3. CASE s = r /\ (FindRole(r) \/ SaveRole(r))
  <2> DEFINE q == req'[r]
  <2> SUFFICES ASSUME HasRole(q)
               PROVE  /\ roles'[q.role] # Free
                      /\ Live(roles'[q.role]) =>
                           /\ roles'[q.role].org = q.org
                           /\ roles'[q.role].slug = "org_admin"
                                => q.scope = "platform"
    BY <1>3 DEF Apt, HasRole, RoleFound
  <2>1. CASE HasRole(p) /\ q.role = p.role /\ q.org = p.org /\ q.scope = p.scope
    <3>1. p.role \in Roles
      BY <1>0, <2>1 DEF Locals, RoleKnown
    <3> HIDE DEF p, q
    <3> QED BY <1>0, <2>1, <3>1, RolesStay DEF Apt
  <2>2. ASSUME NEW x \in Roles, NextTemplate(r, x), p.pc \in Loop,
               p.op # "createRole", Live(roles'[x]),
               roles'[x] = [org |-> p.org, slug |-> Templates[p.k]]
        PROVE  /\ roles'[q.role] # Free
               /\ Live(roles'[q.role]) =>
                    /\ roles'[q.role].org = q.org
                    /\ roles'[q.role].slug = "org_admin"
                         => q.scope = "platform"
    <3>1. /\ q.org = p.org /\ q.scope = p.scope
          /\ \/ q.role = x /\ Templates[p.k] = p.slug
             \/ q.role = p.role /\ HasRole(p)
      BY <1>0, <2>2, NextTemplateRole
    <3>2. CASE q.role = x /\ Templates[p.k] = p.slug
      <4>1. p.slug = "org_admin" => p.scope = "platform"
        BY <1>0, <2>2 DEF Locals, Appointed
      <4> HIDE DEF p, q
      <4> QED BY <2>2, <3>1, <3>2, <4>1, RowFacts DEF Live
    <3> QED BY <2>1, <3>1, <3>2
  <2>3. CASE FindRole(r)
    <3>1. p.pc \in Loop /\ p.op # "createRole"
      BY <1>0, <2>3 DEF FindRole, At, Loop, Locals, OpKnown
    <3>2. CASE Goto(r, "saveRole")
      <4>1. q = [p EXCEPT !.pc = "saveRole"]
        BY <1>0, <3>2 DEF Goto
      <4>2. /\ q.role = p.role /\ q.org = p.org /\ q.scope = p.scope
            /\ q.pc = "saveRole" /\ q.op = p.op /\ q.k = p.k /\ q.slug = p.slug
        BY <1>0, <4>1 DEF Request
      <4>3. HasRole(p)
        BY <3>1, <4>2 DEF HasRole, RoleFound, Loop, Assigning, Dropping
      <4> QED BY <2>1, <4>2, <4>3
    <3>3. ASSUME NEW x \in FindBySlug(Templates[p.k], p.org), NextTemplate(r, x)
          PROVE  /\ roles'[q.role] # Free
                 /\ Live(roles'[q.role]) =>
                      /\ roles'[q.role].org = q.org
                      /\ roles'[q.role].slug = "org_admin"
                           => q.scope = "platform"
      <4>1. x \in Roles /\ roles[x] = [org |-> p.org, slug |-> Templates[p.k]]
        BY <3>3 DEF FindBySlug
      <4>2. roles' = roles
        BY <2>3 DEF FindRole, tables
      <4>3. Live(roles[x])
        BY <1>0, <3>1, <4>1, RowFacts, TemplateFacts
        DEF Request, RoleRow, Locals, OrgKnown, Loop
      <4> QED BY <2>2, <3>1, <3>3, <4>1, <4>2, <4>3
    <3> QED BY <2>3, <3>2, <3>3 DEF FindRole
  <2>4. CASE SaveRole(r)
    <3>1. p.op # "createRole"
      BY <1>0, <2>4 DEF SaveRole, End, Idle, HasRole, Loop, Assigning, Dropping
    <3>2. PICK x \in Roles, t \in Slugs :
            /\ p.org \in Orgs
            /\ roles' = [roles EXCEPT ![x] = [org |-> p.org, slug |-> t]]
            /\ t = Templates[p.k] /\ NextTemplate(r, x)
      BY <1>0, <2>4, <3>1, SavedRole
    <3>3. /\ roles'[x] = [org |-> p.org, slug |-> Templates[p.k]]
          /\ Live(roles'[x])
      BY <1>0, <3>2, RowFacts DEF Typed, TypeOK, RoleRow
    <3> QED BY <2>2, <2>4, <3>1, <3>2, <3>3 DEF SaveRole, At, Loop
  <2> QED BY <1>3, <2>3, <2>4
<1>4. CASE s = r /\ (AddMember(r) \/ UpdateMember(r))
  <2>1. PICK c \in Callers, o \in Orgs, t \in Slugs, x \in Roles :
          /\ MayAssign(c, o, t) /\ x \in FindBySlug(t, o)
          /\ req'[r].role = x /\ req'[r].org = o /\ req'[r].scope = c.scope
    <3>1. CASE AddMember(r)
      <4>1. PICK c \in Callers, o \in Orgs, t \in Slugs, u \in Users,
                 x \in Roles :
              /\ MayAssign(c, o, t) /\ x \in FindBySlug(t, o)
              /\ Becomes(r, [Idle EXCEPT !.op = "addMember", !.pc = "findMember",
                               !.scope = c.scope, !.user = u, !.org = o,
                               !.role = x])
        BY <3>1, AddMemberStarts
      <4>2. req'[r].role = x /\ req'[r].org = o /\ req'[r].scope = c.scope
        BY <1>0, <4>1 DEF Becomes, Idle
      <4> QED BY <4>1, <4>2
    <3>2. CASE UpdateMember(r)
      <4>1. PICK c \in Callers, o \in Orgs, t \in Slugs, u \in Users,
                 x \in Roles :
              /\ MayAssign(c, o, t) /\ x \in FindBySlug(t, o)
              /\ Becomes(r, [Idle EXCEPT !.op = "updateMember", !.pc = "findDoomed",
                               !.scope = c.scope, !.user = u, !.org = o,
                               !.role = x])
        BY <3>2, UpdateMemberStarts
      <4>2. req'[r].role = x /\ req'[r].org = o /\ req'[r].scope = c.scope
        BY <1>0, <4>1 DEF Becomes, Idle
      <4> QED BY <4>1, <4>2
    <3> QED BY <1>4, <3>1, <3>2
  <2>2. roles' = roles
    BY <1>4 DEF AddMember, UpdateMember, tables
  <2>3. /\ x \in Roles /\ roles[x] = [org |-> o, slug |-> t]
        /\ t = "org_admin" => c.scope = "platform"
    BY <2>1, CallersTyped DEF FindBySlug, MayAssign
  <2>4. Live(roles[x])
    BY <2>3, RowFacts DEF RoleRow
  <2> QED BY <1>4, <2>1, <2>2, <2>3, <2>4, RowFacts DEF Apt
<1> QED BY <1>1, <1>2, <1>3, <1>4 DEF Picks

LEMMA AllAptStep == AllApt /\ [Next]_vars => AllApt'
<1> SUFFICES ASSUME AllApt, [Next]_vars PROVE AllApt'
  OBVIOUS
<1>1. Owned'
  BY OwnedStep DEF AllApt
<1>2. CASE UNCHANGED vars
  BY <1>1, <1>2 DEF AllApt, Apt, HasRole, RoleFound, vars, tables
<1>3. ASSUME NEW r \in Reqs, Step(r) PROVE AllApt'
  BY <1>1, <1>3, AptStep DEF AllApt
<1> QED BY <1>2, <1>3 DEF Next

LEMMA AllAptInit == Init => AllApt
BY OwnedInit DEF Init, AllApt, Apt, HasRole, Idle, Loop, Assigning, Dropping

\* Nobody becomes an administrator of an organisation unless a platform
\* administrator made the request or the invitation, whatever the handlers that
\* assign roles have read before their slugs and roles were looked up.
THEOREM PlatformAppoints == Spec => OnlyPlatformAppoints
<1> DEFINE Appoints ==
      \A g \in Grants :
        (/\ grants[g] = Free /\ Live(grants'[g])
         /\ roles[grants'[g].role].slug = "org_admin")
        => \E r \in Reqs : req'[r] # req[r] /\ req[r].scope = "platform"
<1>1. AllApt /\ [Next]_vars => [Appoints]_vars
  <2> SUFFICES ASSUME AllApt, NEW r \in Reqs, Step(r), NEW g \in Grants,
                      grants[g] = Free, Live(grants'[g]),
                      roles[grants'[g].role].slug = "org_admin"
               PROVE  req'[r] # req[r] /\ req[r].scope = "platform"
    BY DEF Next
  <2>0. Typed /\ req \in [Reqs -> Request] /\ Apt(req[r])
    BY DEF AllApt, Owned, Typed, TypeOK
  <2>1. CASE SaveGrant(r)
    <3>1. PICK h \in Grants, row \in GrantRow :
            /\ row = [user |-> req[r].user, role |-> req[r].role]
            /\ Live(roles[row.role])
            /\ grants' = [grants EXCEPT ![h] = row]
      BY <2>0, <2>1, SavedGrant
    <3>2. grants'[g] = row /\ row.role = req[r].role
      BY <2>0, <3>1, RowFacts DEF Typed, TypeOK
    <3>3. req[r].pc = "saveGrant" /\ req'[r].pc = "idle"
      BY <2>0, <2>1 DEF SaveGrant, At, End, Idle
    <3> QED BY <2>0, <3>1, <3>2, <3>3 DEF Apt, HasRole, Assigning
  <2>2. CASE ~SaveGrant(r)
    <3>1. \/ UNCHANGED grants \/ DeleteOrganization(r) \/ DropGrant(r)
          \/ DeleteUser(r)
      BY <2>2, Reads DEF tables, Writes, SaveRole, SaveMember, SaveOrg,
         SaveUser, DeleteMember, SaveInvite, MarkUsed
    <3>2. ~Live(grants'[g])
      BY <2>0, <3>1, RowFacts DEF DeleteOrganization, DropGrant, DeleteUser,
         Typed, TypeOK
    <3> QED BY <3>2
  <2> QED BY <2>1, <2>2
<1> QED BY AllAptInit, AllAptStep, <1>1, PTL DEF Spec, OnlyPlatformAppoints

-----------------------------------------------------------------------------
(* The handlers of invitations implement OneTimeLink. *)

\* Only accepting an invitation looks one up.
HoldsInvite(q) == q.op = "accept" /\ q.pc # "saveInvite"
InvitesHeld == \A r \in Reqs : req[r].invite # None => HoldsInvite(req[r])

\* What a handler provisions does not change.
KeepsClaim(p, q) ==
  /\ q.invite = p.invite /\ q.op = p.op
  /\ q.email = p.email /\ q.org = p.org /\ q.slug = p.slug
  /\ p.pc # "markUsed" /\ q.pc \notin {"markUsed", "saveInvite"}

LEMMA NextTemplateKeeps ==
  ASSUME Typed, NEW r \in Reqs, NEW x, req[r].pc \in Loop, NextTemplate(r, x)
  PROVE  KeepsClaim(req[r], req'[r])
BY DEF NextTemplate, Becomes, KeepsClaim, Loop, Typed, TypeOK, Request

LEMMA MembersNotInvited ==
  ASSUME Typed, NEW r \in Reqs, AddMember(r) \/ UpdateMember(r)
  PROVE  req'[r].invite = None
<1>1. CASE AddMember(r)
  <2>1. PICK c \in Callers, o \in Orgs, t \in Slugs, u \in Users, x \in Roles :
          /\ MayAssign(c, o, t) /\ x \in FindBySlug(t, o)
          /\ Becomes(r, [Idle EXCEPT !.op = "addMember", !.pc = "findMember",
                           !.scope = c.scope, !.user = u, !.org = o,
                           !.role = x])
    BY <1>1, AddMemberStarts
  <2> QED BY <2>1 DEF Becomes, Idle, Typed, TypeOK
<1>2. CASE UpdateMember(r)
  <2>1. PICK c \in Callers, o \in Orgs, t \in Slugs, u \in Users, x \in Roles :
          /\ MayAssign(c, o, t) /\ x \in FindBySlug(t, o)
          /\ Becomes(r, [Idle EXCEPT !.op = "updateMember", !.pc = "findDoomed",
                           !.scope = c.scope, !.user = u, !.org = o,
                           !.role = x])
    BY <1>2, UpdateMemberStarts
  <2> QED BY <2>1 DEF Becomes, Idle, Typed, TypeOK
<1> QED BY <1>1, <1>2

\* The other handlers hold no invitation; the one that marked its invitation goes
\* on with what it was sent for until it ends.
LEMMA InviteeStep ==
  ASSUME Typed, InvitesHeld, NEW r \in Reqs, Step(r)
  PROVE  \/ AcceptInvitation(r)
         \/ MarkUsed(r)
         \/ req'[r].invite = None
         \/ KeepsClaim(req[r], req'[r])
<1> DEFINE p == req[r]
<1>0. p \in Request /\ Locals(p) /\ req \in [Reqs -> Request]
  BY DEF Typed, TypeOK
<1>i. Idle.invite = None
  BY DEF Idle
<1> USE <1>0 DEF At, Becomes, Goto, End
<1>1. CASE req'[r] = Idle
  BY <1>i, <1>1
<1>2. CASE FindRole(r)
  <2>1. CASE Goto(r, "saveRole")
    BY <1>2, <2>1 DEF FindRole, KeepsClaim, Request
  <2> QED BY <1>2, <2>1, NextTemplateKeeps DEF FindRole, Loop
<1>3. CASE SaveRole(r)
  <2>1. CASE End(r)
    BY <1>1, <2>1
  <2> QED BY <1>3, <2>1, NextTemplateKeeps DEF SaveRole, Loop
<1>4. CASE FindMember(r)
  BY <1>4 DEF FindMember, KeepsClaim, Request
<1>5. CASE SaveMember(r)
  BY <1>5 DEF SaveMember, KeepsClaim, Request
<1>6. CASE FindGrant(r)
  BY <1>1, <1>6 DEF FindGrant, KeepsClaim, Request
<1>7. CASE SaveOrg(r)
  <2>1. p.invite = None
    BY <1>7 DEF SaveOrg, InvitesHeld, HoldsInvite, Locals, OpKnown
  <2> QED BY <1>7, <2>1 DEF SaveOrg, Request
<1>8. CASE FindAdmin(r)
  <2>1. \/ req'[r] = [p EXCEPT !.pc = "saveUser"]
        \/ \E u : req'[r] = [p EXCEPT !.pc = "findMember", !.user = u]
    BY <1>8 DEF FindAdmin
  <2>2. p.pc = "findAdmin"
    BY <1>8 DEF FindAdmin
  <2> QED BY <2>1, <2>2 DEF KeepsClaim, Request
<1>9. CASE SaveUser(r)
  BY <1>9 DEF SaveUser, KeepsClaim, Request
<1>10. CASE FindDoomed(r)
  BY <1>10 DEF FindDoomed, AfterGrants, KeepsClaim, Request
<1>11. CASE DropGrant(r)
  BY <1>11 DEF DropGrant, AfterGrants, KeepsClaim, Request
<1>12. CASE FindAccount(r)
  <2>1. \/ req'[r] = [p EXCEPT !.pc = "saveUser"]
        \/ \E u : req'[r] = [p EXCEPT !.pc = "findRole", !.user = u]
    BY <1>12 DEF FindAccount
  <2>2. p.pc = "findAccount"
    BY <1>12 DEF FindAccount
  <2> QED BY <2>1, <2>2 DEF KeepsClaim, Request
<1>13. CASE CreateOrganization(r) \/ FindOrg(r) \/ CreateRole(r)
  BY <1>13 DEF CreateOrganization, FindOrg, CreateRole, Idle
<1>14. CASE AddMember(r) \/ UpdateMember(r)
  BY <1>14, MembersNotInvited
<1>15. CASE RemoveMember(r) \/ Invite(r)
  BY <1>15 DEF RemoveMember, Invite, Idle
<1>16. CASE CreateOrgUser(r) \/ FindUser(r)
  BY <1>16 DEF CreateOrgUser, FindUser, Idle
<1>17. CASE \/ Throw(r) \/ SaveGrant(r) \/ DeleteOrganization(r)
            \/ DeleteMember(r) \/ SaveInvite(r) \/ DeleteUser(r)
  BY <1>1, <1>17 DEF Throw, SaveGrant, DeleteOrganization, DeleteMember,
                     SaveInvite, DeleteUser
<1> QED BY <1>2, <1>3, <1>4, <1>5, <1>6, <1>7, <1>8, <1>9, <1>10, <1>11, <1>12,
           <1>13, <1>14, <1>15, <1>16, <1>17 DEF Step

\* A handler that looks an invitation up finds it unused, and notes what it gives.
LEMMA LookedUp ==
  ASSUME Typed, NEW r \in Reqs, AcceptInvitation(r)
  PROVE  \E i \in Invites :
           /\ Live(invites[i]) /\ ~invites[i].used /\ req[r] = Idle
           /\ req'[r].op = "accept" /\ req'[r].pc = "markUsed"
           /\ req'[r].invite = i
           /\ req'[r].email = invites[i].email
           /\ req'[r].org = invites[i].org
           /\ req'[r].slug = SlugGiven(invites[i].slug)
<1>1. PICK i \in Invites :
        /\ Live(invites[i]) /\ ~invites[i].used
        /\ req' = [req EXCEPT ![r] = [Idle EXCEPT
             !.op = "accept", !.pc = "markUsed", !.scope = invites[i].by,
             !.invite = i, !.email = invites[i].email, !.org = invites[i].org,
             !.slug = SlugGiven(invites[i].slug)]]
  BY DEF AcceptInvitation, Becomes, SlugGiven
<1>2. req[r] = Idle
  BY DEF AcceptInvitation, Accepts
<1>3. /\ req'[r].op = "accept" /\ req'[r].pc = "markUsed"
      /\ req'[r].invite = i
      /\ req'[r].email = invites[i].email /\ req'[r].org = invites[i].org
      /\ req'[r].slug = SlugGiven(invites[i].slug)
  BY <1>1 DEF Idle, Typed, TypeOK
<1> QED BY <1>1, <1>2, <1>3

LEMMA Marked ==
  ASSUME Typed, NEW r \in Reqs, MarkUsed(r)
  PROVE  /\ req[r].pc = "markUsed" /\ req'[r].pc = "findAccount"
         /\ req[r].invite \in Invites /\ invites[req[r].invite] # Free
         /\ req'[r].invite = req[r].invite /\ req'[r].op = req[r].op
         /\ req'[r].email = req[r].email /\ req'[r].org = req[r].org
         /\ req'[r].slug = req[r].slug
<1>1. req[r].pc = "markUsed" /\ req[r] \in Request /\ Locals(req[r])
  BY DEF MarkUsed, At, Typed, TypeOK
<1>2. req[r].invite \in Invites /\ invites[req[r].invite] # Free
  BY <1>1 DEF Locals, InviteKnown
<1>3. req' = [req EXCEPT ![r].pc = "findAccount"] /\ req \in [Reqs -> Request]
  BY DEF MarkUsed, Goto, Typed, TypeOK
<1> QED BY <1>1, <1>2, <1>3 DEF Request

LEMMA InvitesHeldStep == Typed /\ InvitesHeld /\ [Next]_vars => InvitesHeld'
<1> SUFFICES ASSUME Typed, InvitesHeld, [Next]_vars, NEW r \in Reqs,
                    req'[r].invite # None
             PROVE  HoldsInvite(req'[r])
  BY DEF InvitesHeld, HoldsInvite
<1>1. CASE req'[r] = req[r]
  BY <1>1 DEF InvitesHeld
<1>2. ASSUME NEW s \in Reqs, Step(s), s # r PROVE req'[r] = req[r]
  BY <1>2, StepLocals DEF Becomes, Typed, TypeOK
<1>3. CASE Step(r)
  <2>1. CASE AcceptInvitation(r)
    BY <2>1, LookedUp DEF HoldsInvite
  <2>2. CASE MarkUsed(r)
    BY <2>2, Marked DEF InvitesHeld, HoldsInvite
  <2>3. CASE KeepsClaim(req[r], req'[r])
    BY <2>3 DEF KeepsClaim, InvitesHeld, HoldsInvite
  <2> QED BY <1>3, <2>1, <2>2, <2>3, InviteeStep
<1>4. UNCHANGED req \/ \E s \in Reqs : Step(s)
  BY DEF Next, vars
<1> QED BY <1>1, <1>2, <1>3, <1>4

\* The abstract claims change with the locals of the request that moves, and one
\* row of the table is one link.
LEMMA ClaimOf ==
  ASSUME Typed, NEW r \in Reqs, Step(r)
  PROVE  \A x : Claim'[r] = x => Claim' = [Claim EXCEPT ![r] = x]
<1>1. \A q \in Reqs \ {r} : req'[q] = req[q]
  BY StepLocals DEF Becomes, Typed, TypeOK
<1> QED BY <1>1 DEF Claim, At

LEMMA InviteStateOf ==
  ASSUME NEW i \in Invites, NEW x, InviteState'[i] = x,
         \A k \in Invites \ {i} : invites'[k] = invites[k]
  PROVE  InviteState' = [InviteState EXCEPT ![i] = x]
BY DEF InviteState

LEMMA SaveMaps ==
  ASSUME Typed, InvitesHeld, NEW r \in Reqs, SaveInvite(r)
  PROVE  OneTime!Issue
<1>1. PICK i \in Invites, row \in InviteRow :
        /\ invites[i] = Free /\ ~row.used
        /\ invites' = [invites EXCEPT ![i] = row]
  <2> DEFINE p == req[r]
             row == [email |-> p.email, org |-> p.org, slug |-> p.slug,
                     used |-> FALSE, by |-> p.scope]
  <2>1. PICK i \in Invites : /\ invites[i] = Free
                             /\ invites' = [invites EXCEPT ![i] = row]
    BY DEF SaveInvite, Fresh, Typed, TypeOK
  <2>2. /\ p.email \in Emails /\ p.org \in Orgs /\ p.slug \in Slugs
        /\ p.scope \in {"platform", "org"}
    BY DEF SaveInvite, At, Typed, Locals, EmailKnown, OrgKnown, SlugKnown
  <2>3. row \in InviteRow
    BY <2>2 DEF InviteRow
  <2> QED BY <2>1, <2>3
<1> DEFINE p == [email |-> row.email, org |-> row.org,
                 slug |-> SlugGiven(row.slug)]
<1>2. invites'[i] = row /\ \A k \in Invites \ {i} : invites'[k] = invites[k]
  BY <1>1 DEF Typed, TypeOK
<1>3. row # Free
  BY <1>1, MembershipAssumption
<1>4. p \in Purposes
  <2>1. SlugGiven(row.slug) \in Slugs
    BY <1>1, TemplateFacts DEF SlugGiven, InviteRow
  <2> QED BY <1>1, <2>1 DEF Purposes, InviteRow
<1>5. InviteState[i].status = "free"
  BY <1>1 DEF InviteState
<1>6. InviteState'[i] = [status |-> "open", purpose |-> p]
  BY <1>1, <1>2, <1>3 DEF InviteState
<1>7. InviteState' = [InviteState EXCEPT ![i] =
                        [status |-> "open", purpose |-> p]]
  BY <1>2, <1>6, InviteStateOf
<1>8. UNCHANGED Claim
  <2>1. req' = [req EXCEPT ![r] = Idle] /\ req[r].pc = "saveInvite"
    BY DEF SaveInvite, End, At
  <2>2. req[r].invite = None
    BY <2>1 DEF InvitesHeld, HoldsInvite
  <2> QED BY <2>1, <2>2 DEF Claim, At, Idle, Typed, TypeOK
<1> QED BY <1>4, <1>5, <1>7, <1>8 DEF OneTime!Issue

LEMMA AcceptMaps ==
  ASSUME Typed, NEW r \in Reqs, AcceptInvitation(r)
  PROVE  OneTime!Take(r)
<1>1. PICK i \in Invites :
        /\ Live(invites[i]) /\ ~invites[i].used /\ req[r] = Idle
        /\ req'[r].op = "accept" /\ req'[r].pc = "markUsed"
        /\ req'[r].invite = i
        /\ req'[r].email = invites[i].email
        /\ req'[r].org = invites[i].org
        /\ req'[r].slug = SlugGiven(invites[i].slug)
  BY LookedUp
<1>2. /\ InviteState[i].status = "open"
      /\ InviteState[i].purpose =
           [email |-> invites[i].email, org |-> invites[i].org,
            slug |-> SlugGiven(invites[i].slug)]
  BY <1>1 DEF InviteState, Live
<1>3. Claim[r].stage = "none"
  BY <1>1 DEF Claim, Idle
<1>4. Claim'[r] = [stage |-> "taken", link |-> i,
                   purpose |-> InviteState[i].purpose]
  <2>1. i # None
    BY MembershipAssumption
  <2> QED BY <1>1, <1>2, <2>1 DEF Claim, At
<1>5. Claim' = [Claim EXCEPT ![r] = [stage |-> "taken", link |-> i,
                                     purpose |-> InviteState[i].purpose]]
  BY <1>4, ClaimOf DEF Step
<1>6. UNCHANGED InviteState
  BY DEF AcceptInvitation, tables, InviteState
<1> QED BY <1>2, <1>3, <1>5, <1>6 DEF OneTime!Take

LEMMA MarkMaps ==
  ASSUME Typed, NEW r \in Reqs, MarkUsed(r)
  PROVE  OneTime!Spend(r)
<1> DEFINE i == req[r].invite
           row == [invites[i] EXCEPT !.used = TRUE]
<1>1. /\ req[r].pc = "markUsed" /\ req'[r].pc = "findAccount"
      /\ i \in Invites /\ invites[i] # Free
      /\ req'[r].invite = i
      /\ req'[r].email = req[r].email /\ req'[r].org = req[r].org
      /\ req'[r].slug = req[r].slug
  BY Marked
<1>2. i # None
  BY <1>1, MembershipAssumption
<1>3. invites[i] \in InviteRow
  BY <1>1 DEF Typed, TypeOK
<1>4. invites'[i] = row /\ \A k \in Invites \ {i} : invites'[k] = invites[k]
  BY <1>1 DEF MarkUsed, Typed, TypeOK
<1>5. /\ row \in InviteRow /\ row.used /\ row.email = invites[i].email
      /\ row.org = invites[i].org /\ row.slug = invites[i].slug
  BY <1>3 DEF InviteRow
<1>6. row # Free
  BY <1>5, MembershipAssumption
<1>7. InviteState'[i] = [InviteState[i] EXCEPT !.status = "spent"]
  <2> HIDE DEF row
  <2> QED BY <1>1, <1>4, <1>5, <1>6 DEF InviteState
<1>8. InviteState' = [InviteState EXCEPT ![i].status = "spent"]
  BY <1>1, <1>4, <1>7, InviteStateOf
<1>9. Claim[r].stage = "taken" /\ Claim[r].link = i
  BY <1>1, <1>2 DEF Claim, At
<1>10. Claim'[r] = [Claim[r] EXCEPT !.stage = "spent"]
  BY <1>1, <1>2 DEF Claim, At
<1>11. Claim' = [Claim EXCEPT ![r].stage = "spent"]
  BY <1>10, ClaimOf DEF Step
<1> QED BY <1>8, <1>9, <1>11 DEF OneTime!Spend

LEMMA InviteNextMaps ==
  Typed /\ InvitesHeld /\ [Next]_vars => [OneTime!Next]_OneTime!vars
<1> SUFFICES ASSUME Typed, InvitesHeld, [Next]_vars
             PROVE  [OneTime!Next]_OneTime!vars
  OBVIOUS
<1>1. CASE UNCHANGED vars
  BY <1>1 DEF vars, tables, InviteState, Claim, At, OneTime!vars
<1>2. ASSUME NEW r \in Reqs, Step(r)
      PROVE  [OneTime!Next]_OneTime!vars
  <2>1. CASE SaveInvite(r)
    BY <2>1, SaveMaps DEF OneTime!Next
  <2>2. CASE AcceptInvitation(r)
    BY <2>2, AcceptMaps DEF OneTime!Next
  <2>3. CASE MarkUsed(r)
    BY <2>3, MarkMaps DEF OneTime!Next
  <2>4. CASE ~SaveInvite(r) /\ ~AcceptInvitation(r) /\ ~MarkUsed(r)
    <3>1. UNCHANGED invites
      BY <1>2, <2>4, Reads
         DEF tables, Writes, SaveRole, SaveMember, SaveGrant, SaveOrg,
             SaveUser, DeleteOrganization, DropGrant, DeleteMember, DeleteUser
    <3>2. UNCHANGED InviteState
      BY <3>1 DEF InviteState
    <3>3. CASE req'[r].invite = None
      <4>1. Claim'[r] = OneTime!NoClaim
        BY <3>3 DEF Claim, OneTime!NoClaim
      <4>2. OneTime!GiveUp(r)
        BY <1>2, <3>2, <4>1, ClaimOf DEF OneTime!GiveUp
      <4> QED BY <4>2 DEF OneTime!Next
    <3>4. CASE KeepsClaim(req[r], req'[r])
      <4>1. Claim'[r] = Claim[r]
        BY <3>4 DEF Claim, At, KeepsClaim
      <4>2. UNCHANGED Claim
        BY <1>2, <4>1, ClaimOf DEF Claim
      <4> QED BY <3>2, <4>2 DEF OneTime!vars
    <3> QED BY <1>2, <2>4, <3>3, <3>4, InviteeStep
  <2> QED BY <2>1, <2>2, <2>3, <2>4
<1> QED BY <1>1, <1>2 DEF Next

LEMMA InviteInitMaps == Init => InvitesHeld /\ OneTime!Init
<1> SUFFICES ASSUME Init PROVE InvitesHeld /\ OneTime!Init
  OBVIOUS
<1>1. \A r \in Reqs : req[r].invite = None
  BY DEF Init, Idle
<1>2. Claim = [r \in Reqs |-> OneTime!NoClaim]
  BY <1>1 DEF Claim, OneTime!NoClaim
<1>3. InviteState = [i \in Invites |-> OneTime!Unissued]
  BY DEF Init, InviteState, OneTime!Unissued
<1> QED BY <1>1, <1>2, <1>3 DEF InvitesHeld, OneTime!Init

\* Whatever handlers overlap and fail, an invitation that was marked is accepted
\* by nobody who had not already looked it up, and who accepts it provisions the
\* address, the organisation and the role that it was sent for.
THEOREM InvitesImplement == Spec => KeepsInvites
<1>1. Typed /\ InvitesHeld /\ [Next]_vars => (Typed /\ InvitesHeld)'
  BY TypedStep, InvitesHeldStep
<1>2. Init => Typed /\ InvitesHeld /\ OneTime!Init
  BY TypedInit, InviteInitMaps
<1> QED BY <1>1, <1>2, InviteNextMaps, PTL
        DEF Spec, KeepsInvites, OneTime!Spec

-----------------------------------------------------------------------------
(* One request at a time *)

\* What a handler has read is still so at its next await.
Current(q) ==
  /\ q.pc \in {"findGrant", "saveGrant"} => MembersOf(q.user, q.org) # {}
  /\ q.pc = "saveMember" => MembersOf(q.user, q.org) = {}
  /\ q.pc = "dropGrant" => GrantsIn(q.user, q.org) \subseteq q.doomed
  /\ q.pc = "deleteMember" => GrantsIn(q.user, q.org) = {}
  /\ \/ q.pc = "deleteMember"
     \/ q.pc \in Dropping /\ q.op # "updateMember"
     => members[q.member] = [user |-> q.user, org |-> q.org]

\* When they are the only one in flight, the handlers leave every role with a
\* member and every membership single.
Held ==
  \A g \in Grants : Live(grants[g]) =>
    MembersOf(grants[g].user, roles[grants[g].role].org) # {}

Alone(r) == \A s \in Reqs : s # r => req[s] = Idle

Serial ==
  /\ AllApt
  /\ ~traffic.overlap =>
       /\ \A r \in Reqs : req[r] # Idle => Alone(r) /\ Current(req[r])
       /\ Held /\ MemberOnce

\* An await after which the handler relies on nothing that it has read.
Plain(q) ==
  /\ q.pc \notin {"saveMember", "findGrant", "saveGrant", "deleteMember"}
  /\ q.pc \in Dropping => q.op = "updateMember" /\ q.pc # "dropGrant"

LEMMA PlainIsCurrent == \A q : Plain(q) => Current(q)
BY DEF Plain, Current, Dropping

LEMMA StartsAlone ==
  ASSUME Serial, ~traffic.overlap, NEW r \in Reqs, Step(r)
  PROVE  /\ Alone(r)
         /\ req[r].pc # "idle" => Current(req[r])
<1>1. req[r].pc # "idle" => req[r] # Idle
  BY DEF Idle
<1>2. CASE req[r] # Idle
  BY <1>2 DEF Serial
<1>3. CASE req[r] = Idle
  <2>1. \/ CreateOrganization(r) \/ FindOrg(r) \/ CreateRole(r)
        \/ AddMember(r) \/ UpdateMember(r) \/ RemoveMember(r) \/ Invite(r)
        \/ AcceptInvitation(r) \/ CreateOrgUser(r) \/ FindUser(r)
    <3>1. req[r].pc = "idle"
      BY <1>3 DEF Idle
    <3> QED BY <1>3, <3>1
        DEF Step, Throw, FindRole, SaveRole, FindMember, SaveMember, FindGrant,
            SaveGrant, SaveOrg, FindAdmin, SaveUser, DeleteOrganization,
            FindDoomed, DropGrant, DeleteMember, SaveInvite, MarkUsed,
            FindAccount, DeleteUser, At
  <2>2. \A q \in Reqs : req[q] = Idle
    BY <2>1 DEF Accepts, CreateOrganization, FindOrg, CreateRole, AddMember,
       UpdateMember, RemoveMember, Invite, AcceptInvitation, CreateOrgUser,
       FindUser
  <2> QED BY <1>1, <1>3, <2>2 DEF Alone
<1> QED BY <1>1, <1>2, <1>3

\* The steps after which nothing that was read matters any more.
LEMMA PlainSteps ==
  ASSUME Typed, NEW r \in Reqs,
         \/ Throw(r) \/ FindRole(r) \/ SaveRole(r) \/ SaveGrant(r)
         \/ CreateOrganization(r) \/ SaveOrg(r) \/ FindAdmin(r) \/ SaveUser(r)
         \/ FindOrg(r) \/ DeleteOrganization(r) \/ CreateRole(r)
         \/ AddMember(r) \/ UpdateMember(r) \/ DeleteMember(r)
         \/ Invite(r) \/ SaveInvite(r) \/ AcceptInvitation(r) \/ MarkUsed(r)
         \/ CreateOrgUser(r) \/ FindAccount(r) \/ FindUser(r) \/ DeleteUser(r)
  PROVE  Plain(req'[r])
<1>0. req[r] \in Request /\ req \in [Reqs -> Request]
  BY DEF Typed, TypeOK
<1> USE <1>0 DEF Becomes, Goto, End, Plain, Dropping
<1>1. CASE req'[r] = Idle
  BY <1>1 DEF Idle
<1>2. ASSUME NEW x, NextTemplate(r, x) PROVE Plain(req'[r])
  BY <1>2 DEF NextTemplate, Request
<1>3. CASE FindRole(r)
  BY <1>2, <1>3 DEF FindRole, Request
<1>4. CASE SaveRole(r)
  BY <1>1, <1>2, <1>4 DEF SaveRole
<1>5. CASE CreateOrganization(r)
  <2>1. PICK e :
          req'[r] = [Idle EXCEPT !.op = "createOrg", !.pc = "saveOrg",
                       !.scope = "platform", !.email = e, !.slug = "org_admin"]
    BY <1>5 DEF CreateOrganization
  <2> QED BY <2>1 DEF Idle
<1>6. CASE SaveOrg(r)
  <2>1. PICK o : req'[r] = [req[r] EXCEPT !.pc = "findRole", !.org = o]
    BY <1>6 DEF SaveOrg
  <2> QED BY <2>1 DEF Request
<1>7. CASE FindAdmin(r)
  <2>1. \/ req'[r] = [req[r] EXCEPT !.pc = "saveUser"]
        \/ \E u : req'[r] = [req[r] EXCEPT !.pc = "findMember", !.user = u]
    BY <1>7 DEF FindAdmin
  <2> QED BY <2>1 DEF Request
<1>8. CASE SaveUser(r)
  <2>1. PICK u, pc : /\ pc \in {"findMember", "findRole"}
                     /\ req'[r] = [req[r] EXCEPT !.user = u, !.pc = pc]
    BY <1>8 DEF SaveUser
  <2> QED BY <2>1 DEF Request
<1>9. CASE FindOrg(r)
  <2>1. PICK o :
          req'[r] = [Idle EXCEPT !.op = "deleteOrg", !.pc = "deleteOrg",
                       !.scope = "platform", !.org = o]
    BY <1>9 DEF FindOrg
  <2> QED BY <2>1 DEF Idle
<1>10. CASE CreateRole(r)
  <2>1. PICK c \in Callers, o \in Orgs, s \in Slugs :
          Becomes(r, [Idle EXCEPT !.op = "createRole", !.pc = "saveRole",
                        !.scope = c.scope, !.org = o, !.slug = s])
    BY <1>10 DEF CreateRole
  <2> QED BY <2>1 DEF Idle
<1>11. CASE AddMember(r)
  <2>1. PICK c \in Callers, o \in Orgs, t \in Slugs, u \in Users,
             x \in Roles :
          /\ MayAssign(c, o, t) /\ x \in FindBySlug(t, o)
          /\ Becomes(r, [Idle EXCEPT !.op = "addMember", !.pc = "findMember",
                           !.scope = c.scope, !.user = u, !.org = o,
                           !.role = x])
    BY <1>11, AddMemberStarts
  <2> QED BY <2>1 DEF Idle
<1>12. CASE UpdateMember(r)
  <2>1. PICK c \in Callers, o \in Orgs, t \in Slugs, u \in Users,
             x \in Roles :
          /\ MayAssign(c, o, t) /\ x \in FindBySlug(t, o)
          /\ Becomes(r, [Idle EXCEPT !.op = "updateMember", !.pc = "findDoomed",
                           !.scope = c.scope, !.user = u, !.org = o,
                           !.role = x])
    BY <1>12, UpdateMemberStarts
  <2> QED BY <2>1 DEF Idle
<1>13. CASE Invite(r)
  <2>1. PICK c \in Callers, o \in Orgs, s \in Slugs, e \in Emails :
          Becomes(r, [Idle EXCEPT !.op = "invite", !.pc = "saveInvite",
                        !.scope = c.scope, !.email = e, !.org = o, !.slug = s])
    BY <1>13 DEF Invite
  <2> QED BY <2>1 DEF Idle
<1>14. CASE AcceptInvitation(r)
  <2>1. PICK i \in Invites :
          Becomes(r, [Idle EXCEPT !.op = "accept", !.pc = "markUsed",
            !.scope = invites[i].by, !.invite = i, !.email = invites[i].email,
            !.org = invites[i].org,
            !.slug = IF invites[i].slug \in TemplateSlugs
                       THEN invites[i].slug ELSE "member"])
    BY <1>14 DEF AcceptInvitation
  <2>2. PICK scope, e, o, s :
          req'[r] = [Idle EXCEPT !.op = "accept", !.pc = "markUsed",
                       !.scope = scope, !.invite = i, !.email = e, !.org = o,
                       !.slug = s]
    BY <2>1
  <2> QED BY <2>2 DEF Idle
<1>15. CASE MarkUsed(r)
  <2>1. req'[r] = [req[r] EXCEPT !.pc = "findAccount"]
    BY <1>15 DEF MarkUsed
  <2> QED BY <2>1 DEF Request
<1>16. CASE CreateOrgUser(r)
  <2>1. PICK o, e :
          req'[r] = [Idle EXCEPT !.op = "createOrgUser", !.scope = "org",
                       !.pc = "findAccount", !.email = e, !.org = o,
                       !.slug = "end_user"]
    BY <1>16 DEF CreateOrgUser
  <2> QED BY <2>1 DEF Idle
<1>17. CASE FindAccount(r)
  <2>1. \/ req'[r] = [req[r] EXCEPT !.pc = "saveUser"]
        \/ \E u : req'[r] = [req[r] EXCEPT !.pc = "findRole", !.user = u]
    BY <1>17 DEF FindAccount
  <2> QED BY <2>1 DEF Request
<1>18. CASE FindUser(r)
  <2>1. PICK c \in Callers, u \in Users :
          req'[r] = [Idle EXCEPT !.op = "deleteUser", !.pc = "deleteUser",
                       !.scope = c.scope, !.user = u]
    BY <1>18 DEF FindUser
  <2> QED BY <2>1 DEF Idle
<1>19. CASE \/ Throw(r) \/ SaveGrant(r) \/ DeleteOrganization(r)
            \/ DeleteMember(r) \/ SaveInvite(r) \/ DeleteUser(r)
  BY <1>1, <1>19 DEF Throw, SaveGrant, DeleteOrganization, DeleteMember,
                     SaveInvite, DeleteUser
<1> QED BY <1>3, <1>4, <1>5, <1>6, <1>7, <1>8, <1>9, <1>10, <1>11, <1>12,
           <1>13, <1>14, <1>15, <1>16, <1>17, <1>18, <1>19

LEMMA AloneStep ==
  ASSUME Serial, ~traffic.overlap, NEW r \in Reqs, Step(r)
  PROVE  Held' /\ MemberOnce' /\ Current(req[r])'
<1> DEFINE p == req[r]
<1>0. /\ Typed /\ TypeOK /\ p \in Request /\ req \in [Reqs -> Request]
      /\ RowsHaveOwners /\ Apt(p) /\ Held /\ MemberOnce
      /\ p.pc # "idle" => Current(p)
      /\ Locals(p)
  BY StartsAlone DEF Serial, AllApt, Owned, Typed, TypeOK
<1>1. ASSUME UNCHANGED <<roles, members, grants>>
      PROVE  Held' /\ MemberOnce'
  BY <1>0, <1>1 DEF Held, MemberOnce, MembersOf
<1>2. ASSUME Plain(req'[r]) PROVE Current(req[r])'
  BY <1>2 DEF Plain, Current, Dropping
<1>3. CASE FindMember(r)
  <2>1. UNCHANGED <<roles, members, grants>>
    BY <1>3 DEF FindMember, tables
  <2>2. Current(req[r])'
    BY <1>0, <1>3, <2>1 DEF FindMember, Goto, Current, MembersOf, Dropping,
       Request
  <2> QED BY <1>1, <2>1, <2>2
<1>4. CASE SaveMember(r)
  <2>1. PICK m \in Members, row \in MemberRow :
          /\ row = [user |-> p.user, org |-> p.org]
          /\ members[m] = Free
          /\ members' = [members EXCEPT ![m] = row]
    BY <1>0, <1>4, SavedMember
  <2>2. roles' = roles /\ grants' = grants
    BY <1>4 DEF SaveMember
  <2>3. ASSUME NEW g \in Grants, Live(grants[g])
        PROVE  MembersOf(grants[g].user, roles[grants[g].role].org)' # {}
    <3>1. PICK n \in Members :
            members[n] = [user |-> grants[g].user,
                          org |-> roles[grants[g].role].org]
      BY <1>0, <2>3 DEF Held, MembersOf
    <3>2. members[n] \in MemberRow
      BY <1>0, <2>3, <3>1, RowFacts DEF RowsHaveOwners, MemberRow
    <3>3. n # m
      BY <2>1, <3>2, RowFacts
    <3> QED BY <1>0, <2>1, <2>2, <3>1, <3>3 DEF MembersOf, TypeOK
  <2>4. Held'
    BY <2>2, <2>3 DEF Held
  <2>5. MembersOf(p.user, p.org) = {}
    BY <1>0, <1>4 DEF SaveMember, At, Current
  <2>6. \A n \in Members : members[n] # row
    BY <2>1, <2>5 DEF MembersOf
  <2>7. MemberOnce'
    BY <1>0, <2>1, <2>6, RowFacts DEF MemberOnce, TypeOK
  <2>8. members'[m] = [user |-> p.user, org |-> p.org]
    BY <1>0, <2>1 DEF TypeOK
  <2>9. req'[r] = [p EXCEPT !.pc = "findGrant"]
    BY <1>0, <1>4 DEF SaveMember, Goto
  <2>10. /\ req'[r].pc = "findGrant"
         /\ req'[r].user = p.user /\ req'[r].org = p.org
    BY <1>0, <2>9 DEF Request
  <2>11. Current(req[r])'
    BY <2>8, <2>10 DEF Current, MembersOf, Dropping
  <2> QED BY <2>4, <2>7, <2>11
<1>5. CASE FindGrant(r)
  <2>1. UNCHANGED <<roles, members, grants>>
    BY <1>5 DEF FindGrant, tables
  <2>2. Current(req[r])'
    BY <1>0, <1>5, <2>1 DEF FindGrant, At, Goto, End, Idle, Current, MembersOf,
       Dropping, Request
  <2> QED BY <1>1, <2>1, <2>2
<1>6. CASE RemoveMember(r)
  <2>1. UNCHANGED <<roles, members, grants>>
    BY <1>6 DEF RemoveMember, tables
  <2>2. Current(req[r])'
    BY <1>0, <1>6, <2>1 DEF RemoveMember, Becomes, Idle, Current, MembersOf,
       Dropping
  <2> QED BY <1>1, <2>1, <2>2
<1>7. CASE FindDoomed(r)
  <2>1. UNCHANGED <<roles, members, grants>>
    BY <1>7 DEF FindDoomed, tables
  <2>2. /\ req'[r].user = p.user /\ req'[r].org = p.org
        /\ req'[r].member = p.member /\ req'[r].op = p.op
        /\ req'[r].doomed = GrantsIn(p.user, p.org)
        /\ req'[r].pc = IF GrantsIn(p.user, p.org) = {} THEN AfterGrants(p)
                                                        ELSE "dropGrant"
    BY <1>0, <1>7 DEF FindDoomed, Becomes, Request
  <2>3. p.op # "updateMember" =>
          members[p.member] = [user |-> p.user, org |-> p.org]
    BY <1>0, <1>7 DEF FindDoomed, At, Current, Dropping
  <2>4. \A u, o : GrantsIn(u, o)' = GrantsIn(u, o)
    BY <2>1 DEF GrantsIn
  <2> HIDE DEF p
  <2>5. Current(req[r])'
    BY <2>1, <2>2, <2>3, <2>4 DEF Current, Dropping, AfterGrants
  <2> QED BY <1>1, <2>1, <2>5
<1>8. CASE DropGrant(r)
  <2>1. PICK g \in p.doomed :
          /\ grants' = [grants EXCEPT ![g] = Gone]
          /\ req' = [req EXCEPT ![r] =
               [p EXCEPT !.doomed = p.doomed \ {g},
                  !.pc = IF p.doomed \ {g} = {} THEN AfterGrants(p)
                                                ELSE "dropGrant"]]
    BY <1>8 DEF DropGrant, Becomes
  <2>2. roles' = roles /\ members' = members /\ g \in Grants
    BY <1>0, <1>8 DEF DropGrant, Request
  <2>3. Held'
    BY <1>0, <2>1, <2>2, RowFacts DEF Held, MembersOf, TypeOK
  <2>4. MemberOnce'
    BY <1>0, <2>2 DEF MemberOnce
  <2>5. /\ req'[r].user = p.user /\ req'[r].org = p.org
        /\ req'[r].member = p.member /\ req'[r].op = p.op
        /\ req'[r].doomed = p.doomed \ {g}
        /\ req'[r].pc = IF p.doomed \ {g} = {} THEN AfterGrants(p)
                                               ELSE "dropGrant"
    BY <1>0, <2>1 DEF Request
  <2>6. /\ GrantsIn(p.user, p.org) \subseteq p.doomed
        /\ p.op # "updateMember" =>
             members[p.member] = [user |-> p.user, org |-> p.org]
    BY <1>0, <1>8 DEF DropGrant, At, Current, Dropping
  <2>7. \A u, o : GrantsIn(u, o)' = GrantsIn(u, o) \ {g}
    BY <1>0, <2>1, <2>2, RowFacts DEF GrantsIn, TypeOK
  <2> HIDE DEF p
  <2>8. Current(req[r])'
    BY <2>2, <2>5, <2>6, <2>7 DEF Current, Dropping, AfterGrants
  <2> QED BY <2>3, <2>4, <2>8
<1>9. CASE DeleteMember(r)
  <2>1. /\ members' = [members EXCEPT ![p.member] = Gone]
        /\ roles' = roles /\ grants' = grants
    BY <1>9 DEF DeleteMember
  <2>2. /\ GrantsIn(p.user, p.org) = {}
        /\ members[p.member] = [user |-> p.user, org |-> p.org]
    BY <1>0, <1>9 DEF DeleteMember, At, Current
  <2>3. ASSUME NEW g \in Grants, Live(grants[g])
        PROVE  MembersOf(grants[g].user, roles[grants[g].role].org)' # {}
    <3>1. PICK n \in Members :
            members[n] = [user |-> grants[g].user,
                          org |-> roles[grants[g].role].org]
      BY <1>0, <2>3 DEF Held, MembersOf
    <3>2. g \notin GrantsIn(p.user, p.org)
      BY <2>2
    <3>3. ~(grants[g].user = p.user /\ roles[grants[g].role].org = p.org)
      BY <2>3, <3>2 DEF GrantsIn
    <3>4. n # p.member
      BY <2>2, <3>1, <3>3
    <3> QED BY <1>0, <2>1, <3>1, <3>4 DEF MembersOf, TypeOK
  <2>4. Held'
    BY <2>1, <2>3 DEF Held
  <2>5. MemberOnce'
    BY <1>0, <2>1, RowFacts DEF MemberOnce, TypeOK
  <2> QED BY <1>0, <1>2, <1>9, <2>4, <2>5, PlainSteps
<1>10. CASE SaveGrant(r)
  <2>1. PICK g \in Grants, row \in GrantRow :
          /\ row = [user |-> p.user, role |-> p.role]
          /\ Live(roles[row.role])
          /\ grants' = [grants EXCEPT ![g] = row]
    BY <1>0, <1>10, SavedGrant
  <2>2. row.user = p.user /\ row.role = p.role
    BY <2>1
  <2>3. roles' = roles /\ members' = members
    BY <1>10 DEF SaveGrant
  <2>4. MembersOf(p.user, p.org) # {}
    BY <1>0, <1>10 DEF SaveGrant, At, Current
  <2>5. roles[row.role].org = p.org
    BY <1>0, <1>10, <2>1, <2>2 DEF SaveGrant, At, Apt, HasRole, Assigning
  <2>6. \A u, o : MembersOf(u, o)' = MembersOf(u, o)
    BY <2>3 DEF MembersOf
  <2> HIDE DEF p
  <2>7. ASSUME NEW h \in Grants, Live(grants'[h])
        PROVE  MembersOf(grants'[h].user, roles[grants'[h].role].org) # {}
    BY <1>0, <2>1, <2>2, <2>4, <2>5, <2>7 DEF Held, TypeOK
  <2>8. Held'
    BY <2>3, <2>6, <2>7 DEF Held
  <2>9. MemberOnce'
    BY <1>0, <2>3 DEF MemberOnce
  <2> QED BY <1>0, <1>2, <1>10, <2>8, <2>9, PlainSteps
<1>11. CASE SaveRole(r)
  <2>1. PICK x \in Roles, t \in Slugs :
          /\ roles[x] = Free
          /\ roles' = [roles EXCEPT ![x] = [org |-> p.org, slug |-> t]]
    BY <1>0, <1>11, SavedRole
  <2>2. members' = members /\ grants' = grants
    BY <1>11 DEF SaveRole
  <2>3. ASSUME NEW g \in Grants, Live(grants[g])
        PROVE  roles'[grants[g].role] = roles[grants[g].role]
    BY <1>0, <2>1, <2>3, RowFacts DEF RowsHaveOwners, TypeOK
  <2>4. Held'
    BY <1>0, <2>2, <2>3 DEF Held, MembersOf
  <2>5. MemberOnce'
    BY <1>0, <2>2 DEF MemberOnce
  <2> QED BY <1>0, <1>2, <1>11, <2>4, <2>5, PlainSteps
<1>12. CASE DeleteOrganization(r)
  <2> DEFINE old == {x \in Roles : Live(roles[x]) /\ roles[x].org = p.org}
  <2>1. /\ roles' = [x \in Roles |-> IF x \in old THEN Gone ELSE roles[x]]
        /\ members' = [m \in Members |->
             IF Live(members[m]) /\ members[m].org = p.org THEN Gone
                                                           ELSE members[m]]
        /\ grants' = [g \in Grants |->
             IF Live(grants[g]) /\ grants[g].role \in old THEN Gone
                                                          ELSE grants[g]]
    BY <1>12 DEF DeleteOrganization
  <2>2. ASSUME NEW g \in Grants, Live(grants'[g])
        PROVE  MembersOf(grants[g].user, roles[grants[g].role].org)' # {}
    <3>1. /\ grants'[g] = grants[g] /\ Live(grants[g])
          /\ grants[g].role \notin old
      BY <2>1, <2>2, RowFacts
    <3>2. grants[g].role \in Roles /\ Live(roles[grants[g].role])
      BY <1>0, <3>1, RowFacts DEF RowsHaveOwners
    <3>3. roles'[grants[g].role] = roles[grants[g].role]
      BY <2>1, <3>1, <3>2
    <3>4. roles[grants[g].role].org # p.org
      BY <3>1, <3>2
    <3>5. PICK n \in Members :
            members[n] = [user |-> grants[g].user,
                          org |-> roles[grants[g].role].org]
      BY <1>0, <3>1 DEF Held, MembersOf
    <3>6. members'[n] = members[n]
      BY <2>1, <3>4, <3>5
    <3> QED BY <3>1, <3>3, <3>5, <3>6 DEF MembersOf
  <2>3. Held'
    BY <2>2 DEF Held
  <2>4. MemberOnce'
    BY <1>0, <2>1, RowFacts DEF MemberOnce
  <2> QED BY <1>0, <1>2, <1>12, <2>3, <2>4, PlainSteps
<1>13. CASE DeleteUser(r)
  <2>1. /\ roles' = roles
        /\ members' = [m \in Members |->
             IF Live(members[m]) /\ members[m].user = p.user THEN Gone
                                                             ELSE members[m]]
        /\ grants' = [g \in Grants |->
             IF Live(grants[g]) /\ grants[g].user = p.user THEN Gone
                                                           ELSE grants[g]]
    BY <1>13 DEF DeleteUser
  <2>2. ASSUME NEW g \in Grants, Live(grants'[g])
        PROVE  MembersOf(grants[g].user, roles[grants[g].role].org)' # {}
    <3>1. /\ grants'[g] = grants[g] /\ Live(grants[g])
          /\ grants[g].user # p.user
      BY <2>1, <2>2, RowFacts
    <3>2. PICK n \in Members :
            members[n] = [user |-> grants[g].user,
                          org |-> roles[grants[g].role].org]
      BY <1>0, <3>1 DEF Held, MembersOf
    <3>3. members'[n] = members[n]
      BY <2>1, <3>1, <3>2
    <3> QED BY <2>1, <3>1, <3>2, <3>3 DEF MembersOf
  <2>3. Held'
    BY <2>2 DEF Held
  <2>4. MemberOnce'
    BY <1>0, <2>1, RowFacts DEF MemberOnce
  <2> QED BY <1>0, <1>2, <1>13, <2>3, <2>4, PlainSteps
<1>14. CASE SaveOrg(r) \/ SaveUser(r) \/ SaveInvite(r) \/ MarkUsed(r)
  <2>1. UNCHANGED <<roles, members, grants>>
    BY <1>14 DEF SaveOrg, SaveUser, SaveInvite, MarkUsed
  <2> QED BY <1>0, <1>1, <1>2, <1>14, <2>1, PlainSteps
<1>15. CASE \/ Throw(r) \/ FindRole(r) \/ CreateOrganization(r) \/ FindAdmin(r)
            \/ FindOrg(r) \/ CreateRole(r) \/ AddMember(r) \/ UpdateMember(r)
            \/ Invite(r) \/ AcceptInvitation(r) \/ CreateOrgUser(r)
            \/ FindAccount(r) \/ FindUser(r)
  <2>1. UNCHANGED <<roles, members, grants>>
    BY <1>15 DEF Throw, FindRole, CreateOrganization, FindAdmin, FindOrg,
       CreateRole, AddMember, UpdateMember, Invite, AcceptInvitation,
       CreateOrgUser, FindAccount, FindUser, tables
  <2>2. Plain(req'[r])
    BY <1>0, <1>15, PlainSteps
  <2> QED BY <1>1, <1>2, <2>1, <2>2
<1> QED BY <1>3, <1>4, <1>5, <1>6, <1>7, <1>8, <1>9, <1>10, <1>11, <1>12,
           <1>13, <1>14, <1>15 DEF Step

LEMMA SerialStep == Serial /\ [Next]_vars => Serial'
<1> SUFFICES ASSUME Serial, [Next]_vars PROVE Serial'
  OBVIOUS
<1>1. AllApt'
  BY AllAptStep DEF Serial
<1>2. CASE UNCHANGED vars
  <2>1. UNCHANGED <<roles, members, grants, req, traffic>>
    BY <1>2 DEF vars, tables
  <2>2. \A r \in Reqs : Current(req[r]) => Current(req[r])'
    BY <2>1 DEF Current, MembersOf, GrantsIn
  <2> QED BY <1>1, <2>1, <2>2 DEF Serial, Alone, Held, MemberOnce, MembersOf
<1>3. ASSUME NEW r \in Reqs, Step(r), UNCHANGED traffic PROVE Serial'
  <2> SUFFICES ASSUME ~traffic.overlap
               PROVE  /\ \A s \in Reqs :
                           req'[s] # Idle => Alone(s)' /\ Current(req[s])'
                      /\ Held' /\ MemberOnce'
    BY <1>1, <1>3 DEF Serial
  <2>1. Alone(r)
    BY <1>3, StartsAlone
  <2>2. \A s \in Reqs : s # r => req'[s] = req[s]
    BY <1>3, StepLocals DEF Becomes, Serial, AllApt, Owned, Typed, TypeOK
  <2>3. Held' /\ MemberOnce' /\ Current(req[r])'
    BY <1>3, AloneStep
  <2>4. Alone(r)'
    BY <2>1, <2>2 DEF Alone
  <2>5. \A s \in Reqs : req'[s] # Idle => s = r
    BY <2>1, <2>2 DEF Alone
  <2> QED BY <2>3, <2>4, <2>5
<1> QED BY <1>2, <1>3 DEF Next

LEMMA SerialInit == Init => Serial
BY AllAptInit, RowFacts DEF Init, Serial, Held, MemberOnce

\* When requests do not overlap, a role in an organisation is held by its
\* members only, at whatever await a handler fails: members are saved before
\* their grants and deleted after them.
THEOREM MembersHold == Spec => []HoldersAreMembers
<1>1. Serial => HoldersAreMembers
  BY DEF Serial, Held, HoldersAreMembers
<1> QED BY SerialInit, SerialStep, <1>1, PTL DEF Spec

\* Nor is a membership ever doubled then, whichever handlers are called: what
\* assignMember() and assignOrgAdmin() find missing is still missing when they
\* save it.
THEOREM MembersOnce == Spec => [](traffic.overlap \/ MemberOnce)
<1>1. Serial => traffic.overlap \/ MemberOnce
  BY DEF Serial
<1> QED BY SerialInit, SerialStep, <1>1, PTL DEF Spec

-----------------------------------------------------------------------------
(* Provisioning adds only what is missing *)

\* A handler that is about to save a role saves that of a template, which the
\* organisation does not have.
Missing(q) ==
  q.pc = "saveRole" =>
    /\ q.op # "createRole"
    /\ FindBySlug(Templates[q.k], q.org) = {}

Provisioning ==
  /\ Serial
  /\ ~traffic.overlap => (\A r \in Reqs : Missing(req[r])) /\ ProvisionedOnce

\* The roles that are no template's are left out of the requests one at a time:
\* createRole() saves whatever slug it is given, as often as it is called.
TemplatesOnly == \A t \in Traffics : ~t.overlap => "createRole" \notin t.ops

LEMMA SavesRole ==
  ASSUME Typed, NEW r \in Reqs, Step(r), req'[r].pc = "saveRole"
  PROVE  FindRole(r) \/ CreateRole(r)
<1> SUFFICES ASSUME ~FindRole(r), ~CreateRole(r) PROVE FALSE
  OBVIOUS
<1>0. req[r] \in Request /\ req \in [Reqs -> Request]
  BY DEF Typed, TypeOK
<1> USE <1>0 DEF Becomes, Goto, End
<1>1. req'[r] # Idle
  BY DEF Idle
<1>2. CASE SaveRole(r)
  <2>1. PICK x \in Roles : NextTemplate(r, x)
    BY <1>1, <1>2, SavedRole
  <2> QED BY <2>1 DEF NextTemplate, Request
<1>3. CASE FindMember(r) \/ SaveMember(r) \/ FindGrant(r)
  BY <1>1, <1>3 DEF FindMember, SaveMember, FindGrant, Request
<1>4. CASE RemoveMember(r)
  BY <1>4 DEF RemoveMember, Idle
<1>5. CASE FindDoomed(r)
  BY <1>5 DEF FindDoomed, AfterGrants, Request
<1>6. CASE DropGrant(r)
  BY <1>6 DEF DropGrant, AfterGrants, Request
<1>7. CASE SaveOrg(r)
  <2>1. PICK o : req'[r] = [req[r] EXCEPT !.pc = "findRole", !.org = o]
    BY <1>7 DEF SaveOrg
  <2> QED BY <2>1 DEF Request
<1>8. CASE SaveUser(r)
  <2>1. PICK u, pc : /\ pc \in {"findMember", "findRole"}
                     /\ req'[r] = [req[r] EXCEPT !.user = u, !.pc = pc]
    BY <1>8 DEF SaveUser
  <2> QED BY <2>1 DEF Request
<1>9. CASE FindAdmin(r) \/ FindAccount(r) \/ MarkUsed(r)
  BY <1>9 DEF FindAdmin, FindAccount, MarkUsed, Request
<1>10. CASE CreateOrganization(r)
  BY <1>10 DEF CreateOrganization, Idle
<1>11. CASE FindOrg(r)
  BY <1>11 DEF FindOrg, Idle
<1>12. CASE Invite(r)
  BY <1>12 DEF Invite, Idle
<1>13. CASE AcceptInvitation(r)
  <2>1. PICK i \in Invites :
          Becomes(r, [Idle EXCEPT !.op = "accept", !.pc = "markUsed",
            !.scope = invites[i].by, !.invite = i, !.email = invites[i].email,
            !.org = invites[i].org,
            !.slug = IF invites[i].slug \in TemplateSlugs
                       THEN invites[i].slug ELSE "member"])
    BY <1>13 DEF AcceptInvitation
  <2> QED BY <2>1 DEF Idle
<1>14. CASE CreateOrgUser(r)
  BY <1>14 DEF CreateOrgUser, Idle
<1>15. CASE FindUser(r)
  BY <1>15 DEF FindUser, Idle
<1>16. CASE AddMember(r)
  <2>1. PICK c \in Callers, o \in Orgs, t \in Slugs, u \in Users, x \in Roles :
          /\ MayAssign(c, o, t) /\ x \in FindBySlug(t, o)
          /\ Becomes(r, [Idle EXCEPT !.op = "addMember", !.pc = "findMember",
                           !.scope = c.scope, !.user = u, !.org = o,
                           !.role = x])
    BY <1>16, AddMemberStarts
  <2> QED BY <2>1 DEF Idle
<1>17. CASE UpdateMember(r)
  <2>1. PICK c \in Callers, o \in Orgs, t \in Slugs, u \in Users, x \in Roles :
          /\ MayAssign(c, o, t) /\ x \in FindBySlug(t, o)
          /\ Becomes(r, [Idle EXCEPT !.op = "updateMember", !.pc = "findDoomed",
                           !.scope = c.scope, !.user = u, !.org = o,
                           !.role = x])
    BY <1>17, UpdateMemberStarts
  <2> QED BY <2>1 DEF Idle
<1>18. CASE \/ Throw(r) \/ SaveGrant(r) \/ DeleteOrganization(r)
            \/ DeleteMember(r) \/ SaveInvite(r) \/ DeleteUser(r)
  BY <1>1, <1>18 DEF Throw, SaveGrant, DeleteOrganization, DeleteMember,
                     SaveInvite, DeleteUser
<1> QED BY <1>2, <1>3, <1>4, <1>5, <1>6, <1>7, <1>8, <1>9, <1>10, <1>11, <1>12,
           <1>13, <1>14, <1>15, <1>16, <1>17, <1>18 DEF Step

LEMMA ProvisioningStep ==
  ASSUME TemplatesOnly, Provisioning, NEW r \in Reqs, Step(r),
         ~traffic.overlap
  PROVE  (\A s \in Reqs : Missing(req[s])') /\ ProvisionedOnce'
<1> DEFINE p == req[r]
<1>0. /\ Typed /\ TypeOK /\ p \in Request /\ Alone(r) /\ ProvisionedOnce
      /\ Missing(p)
      /\ \A s \in Reqs : s # r => req'[s] = req[s]
  BY StartsAlone, StepLocals
  DEF Provisioning, Serial, AllApt, Owned, Typed, TypeOK, Becomes
<1>1. ~CreateRole(r)
  BY <1>0 DEF TypeOK, TemplatesOnly, CreateRole, Accepts
<1>2. ASSUME NEW s \in Reqs, s # r PROVE Missing(req[s])'
  BY <1>0, <1>2 DEF Alone, Missing, Idle
<1>3. Missing(req[r])'
  <2> SUFFICES ASSUME req'[r].pc = "saveRole"
               PROVE  /\ req'[r].op # "createRole"
                      /\ \A x \in Roles :
                           roles'[x] # [org  |-> req'[r].org,
                                        slug |-> Templates[req'[r].k]]
    BY DEF Missing, FindBySlug
  <2>1. FindRole(r)
    BY <1>0, <1>1, SavesRole
  <2>2. p.pc = "findRole" /\ p.op # "createRole" /\ roles' = roles
    BY <1>0, <2>1 DEF FindRole, At, tables, Typed, Locals, OpKnown
  <2>3. ASSUME NEW x \in Roles, NextTemplate(r, x) PROVE FALSE
    <3>1. PICK role, k, pc :
            /\ pc \in {"findRole", "findAdmin", "findMember"}
            /\ req' = [req EXCEPT ![r] =
                         [p EXCEPT !.role = role, !.k = k, !.pc = pc]]
      BY <2>3 DEF NextTemplate, Becomes
    <3>2. req'[r].pc = pc
      BY <1>0, <3>1 DEF TypeOK, Request
    <3> QED BY <3>1, <3>2
  <2>4. /\ req'[r] = [p EXCEPT !.pc = "saveRole"]
        /\ FindBySlug(Templates[p.k], p.org) = {}
    BY <1>0, <2>1, <2>3 DEF FindRole, FindBySlug, Goto, TypeOK
  <2>5. req'[r].op = p.op /\ req'[r].org = p.org /\ req'[r].k = p.k
    BY <1>0, <2>4 DEF Request
  <2> HIDE DEF p
  <2> QED BY <2>2, <2>4, <2>5 DEF FindBySlug
<1>4. ProvisionedOnce'
  <2>1. CASE SaveRole(r)
    <3>1. PICK x \in Roles, t \in Slugs :
            /\ roles[x] = Free /\ p.org \in Orgs
            /\ roles' = [roles EXCEPT ![x] = [org |-> p.org, slug |-> t]]
            /\ p.op # "createRole" => t = Templates[p.k]
      BY <1>0, <2>1, SavedRole
    <3>2. /\ p.op # "createRole"
          /\ \A y \in Roles : roles[y] # [org |-> p.org, slug |-> t]
      BY <1>0, <2>1, <3>1 DEF SaveRole, At, Missing, FindBySlug
    <3> HIDE DEF p
    <3> QED BY <1>0, <3>1, <3>2 DEF ProvisionedOnce, TypeOK
  <2>2. CASE DeleteOrganization(r)
    <3>1. \A x \in Roles : roles'[x] \in {Gone, roles[x]}
      BY <2>2 DEF DeleteOrganization
    <3> QED BY <1>0, <3>1, RowFacts DEF ProvisionedOnce
  <2>3. CASE ~SaveRole(r) /\ ~DeleteOrganization(r)
    <3>1. UNCHANGED roles
      BY <2>3, Reads DEF tables, Writes, SaveMember, SaveGrant, SaveOrg,
         SaveUser, DropGrant, DeleteMember, DeleteUser, SaveInvite, MarkUsed
    <3> QED BY <1>0, <3>1 DEF ProvisionedOnce
  <2> QED BY <2>1, <2>2, <2>3
<1> QED BY <1>2, <1>3, <1>4

\* Where the requests that come one at a time create no roles of their own, one
\* that repeats or completes the work of another adds only what is missing,
\* whatever await that one failed at: every find precedes its save, and nobody
\* else writes between the two.
THEOREM OnceAdded == TemplatesOnly => (Spec => []AddedOnce)
<1> SUFFICES ASSUME TemplatesOnly PROVE Spec => []AddedOnce
  OBVIOUS
<1>1. Init => Provisioning
  <2> SUFFICES ASSUME Init PROVE Provisioning
    OBVIOUS
  <2>1. \A r \in Reqs : req[r].pc = "idle"
    BY DEF Init, Idle
  <2>2. ProvisionedOnce
    BY RowFacts DEF Init, ProvisionedOnce
  <2> QED BY <2>1, <2>2, SerialInit DEF Provisioning, Missing
<1>2. Provisioning /\ [Next]_vars => Provisioning'
  <2> SUFFICES ASSUME Provisioning, [Next]_vars PROVE Provisioning'
    OBVIOUS
  <2>1. Serial'
    BY SerialStep DEF Provisioning
  <2>2. CASE UNCHANGED vars
    BY <2>1, <2>2 DEF Provisioning, Missing, FindBySlug, ProvisionedOnce, vars,
       tables
  <2>3. ASSUME NEW r \in Reqs, Step(r), UNCHANGED traffic PROVE Provisioning'
    BY <2>1, <2>3, ProvisioningStep DEF Provisioning
  <2> QED BY <2>2, <2>3 DEF Next
<1>3. Provisioning => AddedOnce
  BY DEF Provisioning, Serial, AddedOnce
<1> QED BY <1>1, <1>2, <1>3, PTL DEF Spec

=============================================================================

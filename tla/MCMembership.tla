--------------------------- MODULE MCMembership ----------------------------
(***************************************************************************)
(* Instances of OrgMembership for TLC.  The identifiers of a table are     *)
(* alike, and so are the addresses.                                        *)
(***************************************************************************)
EXTENDS OrgMembership, TLC

Symmetry ==
  Permutations(Users) \cup Permutations(Emails) \cup Permutations(Orgs)
    \cup Permutations(Roles) \cup Permutations(Members)
    \cup Permutations(Grants) \cup Permutations(Invites) \cup Permutations(Reqs)

ThreeTemplates == <<"org_admin", "member", "end_user">>
TemplateRoles  == {"org_admin", "member", "end_user"}

\* One at a time: everything but the roles that are no template's.
OneAtATime == [ops |-> AllOps \ {"createRole"}, overlap |-> FALSE]
\* Overlapping: handlers that assign members, and those that delete what they
\* assign.
Overlapping ==
  [ops |-> {"createOrg", "invite", "accept", "deleteOrg", "deleteUser",
            "createRole"}, overlap |-> TRUE]
BothTraffics == {OneAtATime, Overlapping}
=============================================================================

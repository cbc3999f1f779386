------------------------------ MODULE MCAccess ------------------------------
(***************************************************************************)
(* An instance of Access for TLC: one system resource, two default roles,  *)
(* and a role of a tenant.                                                 *)
(***************************************************************************)
EXTENDS Access, TLC

CONSTANTS read, write, thing

Symmetry == Permutations(Users) \cup Permutations(Orgs) \cup Permutations(Roles)
              \cup Permutations(Resources) \cup Permutations(Instances)

ReadThing == [action |-> read, target |-> thing]
WriteAny  == [action |-> write, target |-> Wildcard]

AllPerms  == {ReadThing, WriteAny}
ReadOnly  == {ReadThing}
AllSlugs  == {"platform_admin", "org_admin"}
Things    == <<thing>>
Defaults  == <<"platform_admin", "org_admin">>
AdminMay  == [platform_admin |-> <<ReadThing, WriteAny>>,
              org_admin |-> <<ReadThing>>]

Bound(starts, signUps, changes, checks) ==
  [starts |-> starts, signUps |-> signUps, changes |-> changes,
   checks |-> checks]

\* Instances that start together and again, without a check; and one check,
\* with administrators at work or for an administrator of the second start.
Bounds == {Bound(3, 2, 2, 0), Bound(2, 2, 3, 0),
           Bound(1, 1, 4, 1), Bound(2, 1, 1, 1)}
=============================================================================

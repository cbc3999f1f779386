-------------------------- MODULE MCAdministration --------------------------
(***************************************************************************)
(* An instance of Administration for TLC: one person's address, in lower   *)
(* case and with a capital, for a user, a service account or two of each.  *)
(***************************************************************************)
EXTENDS Administration, TLC

CONSTANTS small

Symmetry == Permutations(Users) \cup Permutations(Keys)
              \cup Permutations(Orgs) \cup Permutations(Reqs)
              \cup Permutations(Profiles)

LowerCase == [e \in Emails |-> small]
=============================================================================

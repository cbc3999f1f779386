---------------------------- MODULE MCAllowlist ----------------------------
(***************************************************************************)
(* Instances of RedirectAllowlist for TLC.  The URIs besides the frontend  *)
(* are alike, and so are the rows and the organisations.                   *)
(***************************************************************************)
EXTENDS RedirectAllowlist, TLC

Symmetry == Permutations(Ids) \cup Permutations(Orgs)
              \cup Permutations(Uris \ Base) \cup Permutations(Reqs)
=============================================================================

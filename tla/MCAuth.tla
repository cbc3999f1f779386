------------------------------- MODULE MCAuth -------------------------------
(***************************************************************************)
(* Instances of AuthService for TLC.  Each set of Ops is a part of the     *)
(* service whose handlers meet on the same rows.                           *)
(***************************************************************************)
EXTENDS AuthService, TLC

\* All identifiers are random: exchanging two of them changes nothing.
Symmetry ==
  Permutations(Users) \cup Permutations(Emails) \cup Permutations(Passwords)
    \cup Permutations(Creds) \cup Permutations(Sessions)
    \cup Permutations(Grants) \cup Permutations(Links) \cup Permutations(Reqs)

\* Opening, rotating and closing sessions.
SessionOps ==
  {"register", "login", "refresh", "logout", "revokeOne", "revokeAll"}
\* Accounts, their passwords and their links.
AccountOps == {"register", "login", "requestReset", "confirmReset",
               "verifyEmail", "deleteAccount"}
=============================================================================

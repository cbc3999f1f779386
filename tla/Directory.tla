----------------------------- MODULE Directory -----------------------------
(***************************************************************************)
(* The tables around the users: google and TOTP sign-in data, API keys,    *)
(* and what TypeORM and the foreign keys do to them.  Identities and       *)
(* ServiceAccounts are the handlers that work on these tables.             *)
(*                                                                         *)
(* Address is the lower case of an address: findByEmail() looks for it,    *)
(* while a row holds what its writer saved.                                *)
(***************************************************************************)
EXTENDS Naturals

CONSTANTS Users, Keys, Profiles, Orgs,
          Emails,
          Address,  \* an address in lower case, per address
          Reqs,     \* requests in flight at one time
          MaxTotp,  \* bound: TOTP rows of a user
          Free, Gone, None

VARIABLES users,
          oauth,    \* the user of a Google profile: oauth_accounts
          totp,     \* the number of TOTP rows of a user: user_mfa
          keys,     \* api_keys
          touching, \* keys whose lastUsedAt is being written
          req

tables == <<users, oauth, totp, keys, touching>>

Opt(S)  == S \cup {None}
UserRow == [type: {"human", "service"}, email: Opt(Emails),
            verified: BOOLEAN, org: Opt(Orgs)]
\* A key that never expires is one that has not expired yet.
KeyRow  == [user: Users, active: BOOLEAN, expired: BOOLEAN]

ASSUME DirectoryAssumption ==
  /\ Address \in [Emails -> Emails]
  /\ \A e \in Emails : Address[Address[e]] = Address[e]
  /\ MaxTotp \in Nat \ {0}
  /\ Free # Gone
  /\ {Free, Gone} \cap (UserRow \cup KeyRow) = {}
  /\ None \notin Users \cup Keys \cup Profiles \cup Orgs \cup Emails
                   \cup UserRow

Live(x)  == x \notin {Free, Gone}
Fresh(t) == {k \in DOMAIN t : t[k] = Free}
Is(u, type) == Live(users[u]) /\ users[u].type = type

Human(e, verified) ==
  [type |-> "human", email |-> e, verified |-> verified, org |-> None]
Service(o) ==
  [type |-> "service", email |-> None, verified |-> FALSE, org |-> o]

FindByEmail(e) == {u \in Users : Live(users[u]) /\ users[u].email = Address[e]}

\* save(): an UPDATE of the row, or an INSERT when it is gone.  The address is
\* unique and, for service accounts, null.
SaveUser(u, row) ==
  /\ row.email # None =>
       \A v \in Users \ {u} : Live(users[v]) => users[v].email # row.email
  /\ users' = [users EXCEPT ![u] = row]

\* The accounts, rows and keys that refer to the user go with it.
DeleteUser(u) ==
  /\ users' = [users EXCEPT ![u] = Gone]
  /\ oauth' = [p \in Profiles |-> IF oauth[p] = u THEN None ELSE oauth[p]]
  /\ totp' = [totp EXCEPT ![u] = 0]
  /\ keys' = [k \in Keys |->
       IF Live(keys[k]) /\ keys[k].user = u THEN Gone ELSE keys[k]]
  /\ UNCHANGED touching

\* findAndValidate()
Valid(k) == Live(keys[k]) /\ keys[k].active /\ ~keys[k].expired

-----------------------------------------------------------------------------
(* Requests *)

Pcs == {"idle", "findByEmail", "saveGoogle", "saveOauth", "saveVerified",
        "saveUpdate", "delete", "saveTotp", "saveService", "saveKey", "revoke"}

\* allowed: allowedOrgIds, where ManagementGuard set them.
Request == [pc: Pcs, allowed: SUBSET Orgs,
            user: Opt(Users), row: Opt(UserRow), key: Opt(Keys),
            profile: Opt(Profiles), email: Opt(Emails)]
Idle == [pc |-> "idle", allowed |-> {}, user |-> None,
         row |-> None, key |-> None, profile |-> None, email |-> None]

At(r, pc)     == req[r].pc = pc
Becomes(r, q) == req' = [req EXCEPT ![r] = q]
End(r)        == Becomes(r, Idle)

\* A query fails, or the process dies.
Throw(r) ==
  /\ req[r] # Idle
  /\ End(r)
  /\ UNCHANGED tables
=============================================================================

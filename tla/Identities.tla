----------------------------- MODULE Identities -----------------------------
(***************************************************************************)
(* Human accounts: the Google sign-in (google.strategy.ts), the            *)
(* administration of users (management.controller.ts), and TOTP            *)
(* (mfa.service.ts).  Registration and verification, which AuthService     *)
(* models in full, are here with the writes that meet the others.          *)
(*                                                                         *)
(* The reads of a handler before its first write are one step, except in   *)
(* the Google sign-in.  Whether an administrator shares an organisation    *)
(* with the user is left open: see OrgMembership.                          *)
(***************************************************************************)
EXTENDS Directory

VARIABLES signed, \* history: whom a profile was signed in as, until deleted
          capital,\* history: users whose address Google reported with capitals
          raced   \* history: users for whom two enrolments overlapped

history == <<signed, capital, raced>>

-----------------------------------------------------------------------------
(* validate() of GoogleStrategy; loginWithUser() follows: see AuthService. *)

\* Mutant: the address is looked for first.
FindByAddressFirst(r) ==
  /\ At(r, "idle")
  /\ \E p \in Profiles, e \in Emails :
       \/ /\ FindByEmail(e) # {}
          /\ \E u \in FindByEmail(e) : signed' = [signed EXCEPT ![p] = u]
          /\ UNCHANGED req
       \/ /\ FindByEmail(e) = {}
          /\ Becomes(r, [Idle EXCEPT !.pc = "findByEmail", !.profile = p,
                                     !.email = e])
          /\ UNCHANGED signed
  /\ UNCHANGED <<tables, capital, raced>>

\* The address of a profile is what Google reports, in any case, this time.
FindByProvider(r) ==
  /\ At(r, "idle")
  /\ \E p \in Profiles, e \in Emails :
       IF oauth[p] # None
         THEN signed' = [signed EXCEPT ![p] = oauth[p]] /\ UNCHANGED req
         ELSE /\ Becomes(r, [Idle EXCEPT !.pc = "findByEmail", !.profile = p,
                                         !.email = e])
              /\ UNCHANGED signed
  /\ UNCHANGED <<tables, capital, raced>>

FindAccount(r) ==
  /\ At(r, "findByEmail")
  /\ LET found == FindByEmail(req[r].email)
     IN  \/ found = {} /\ Becomes(r, [req[r] EXCEPT !.pc = "saveGoogle"])
         \/ \E u \in found :
              Becomes(r, [req[r] EXCEPT !.pc = "saveOauth", !.user = u])
  /\ UNCHANGED <<tables, history>>

SaveGoogle(r) ==
  /\ At(r, "saveGoogle")
  /\ \E u \in Fresh(users) :
       /\ SaveUser(u, Human(req[r].email, TRUE))
       /\ capital' = capital \cup
            {v \in {u} : req[r].email # Address[req[r].email]}
       /\ Becomes(r, [req[r] EXCEPT !.pc = "saveOauth", !.user = u])
  /\ UNCHANGED <<oauth, totp, keys, touching, signed, raced>>

\* Mutant: oauth_accounts has no foreign key.
SaveOauthUnchecked(r) ==
  /\ At(r, "saveOauth")
  /\ oauth[req[r].profile] = None
  /\ oauth' = [oauth EXCEPT ![req[r].profile] = req[r].user]
  /\ signed' = [signed EXCEPT ![req[r].profile] = req[r].user]
  /\ End(r)
  /\ UNCHANGED <<users, totp, keys, touching, capital, raced>>

\* Mutant: the relation cascades, so that the user is saved with it.
SaveOauthCascades(r) ==
  /\ At(r, "saveOauth")
  /\ oauth[req[r].profile] = None
  /\ SaveUser(req[r].user, Human(req[r].email, TRUE))
  /\ oauth' = [oauth EXCEPT ![req[r].profile] = req[r].user]
  /\ signed' = [signed EXCEPT ![req[r].profile] = req[r].user]
  /\ End(r)
  /\ UNCHANGED <<totp, keys, touching, capital, raced>>

\* The provider's id is unique, and the user must be there.
SaveOauth(r) ==
  /\ At(r, "saveOauth")
  /\ Live(users[req[r].user]) /\ oauth[req[r].profile] = None
  /\ oauth' = [oauth EXCEPT ![req[r].profile] = req[r].user]
  /\ signed' = [signed EXCEPT ![req[r].profile] = req[r].user]
  /\ End(r)
  /\ UNCHANGED <<users, totp, keys, touching, capital, raced>>

-----------------------------------------------------------------------------
(* The rows of users *)

Register ==
  /\ \E e \in Emails, u \in Fresh(users) :
       FindByEmail(e) = {} /\ SaveUser(u, Human(Address[e], FALSE))
  /\ UNCHANGED <<oauth, totp, keys, touching, req, history>>

FindVerified(r) ==
  /\ At(r, "idle")
  /\ \E u \in Users :
       /\ Is(u, "human")
       /\ Becomes(r, [Idle EXCEPT !.pc = "saveVerified", !.user = u,
                        !.row = [users[u] EXCEPT !.verified = TRUE]])
  /\ UNCHANGED <<tables, history>>

\* Mutant: the address is saved as it was sent.
UpdateRaw(r) ==
  /\ At(r, "idle")
  /\ \E u \in Users, e \in Emails :
       /\ Is(u, "human") /\ FindByEmail(e) \subseteq {u}
       /\ Becomes(r, [Idle EXCEPT !.pc = "saveUpdate", !.user = u,
                        !.row = [users[u] EXCEPT !.email = e]])
  /\ UNCHANGED <<tables, history>>

\* updateUser(): the address may change, and the row stays verified.
UpdateUser(r) ==
  /\ At(r, "idle")
  /\ \E u \in Users :
       /\ Is(u, "human")
       /\ \E e \in {users[u].email} \cup
                     {f \in Emails : f = Address[f]
                                       /\ FindByEmail(f) \subseteq {u}} :
            Becomes(r, [Idle EXCEPT !.pc = "saveUpdate", !.user = u,
                          !.row = [users[u] EXCEPT !.email = e]])
  /\ UNCHANGED <<tables, history>>

\* Both save the whole row that they read.
SaveRow(r) ==
  /\ At(r, "saveVerified") \/ At(r, "saveUpdate")
  /\ SaveUser(req[r].user, req[r].row)
  /\ End(r)
  /\ UNCHANGED <<oauth, totp, keys, touching, history>>

\* deleteUser(), and deleteAccount(), which asks nothing about the type.
FindDeleted(r) ==
  /\ At(r, "idle")
  /\ \E u \in Users :
       Live(users[u]) /\ Becomes(r, [Idle EXCEPT !.pc = "delete", !.user = u])
  /\ UNCHANGED <<tables, history>>

\* Mutant: the foreign keys do not cascade.
DeleteAlone(r) ==
  /\ At(r, "delete")
  /\ users' = [users EXCEPT ![req[r].user] = Gone]
  /\ End(r)
  /\ UNCHANGED <<oauth, totp, keys, touching, history>>

Delete(r) ==
  /\ At(r, "delete")
  /\ DeleteUser(req[r].user)
  /\ signed' = [p \in Profiles |->
       IF signed[p] = req[r].user THEN None ELSE signed[p]]
  /\ End(r)
  /\ UNCHANGED <<capital, raced>>

-----------------------------------------------------------------------------
(* TOTP.  The caller's account may be gone: the token outlives it. *)

\* Mutant: an enrolment is not looked for.
EnrollAnew(r) ==
  /\ At(r, "idle")
  /\ \E u \in Users :
       /\ users[u] # Free
       /\ Becomes(r, [Idle EXCEPT !.pc = "saveTotp", !.user = u])
       /\ UNCHANGED raced
  /\ UNCHANGED <<tables, signed, capital>>

FindTotp(r) ==
  /\ At(r, "idle")
  /\ \E u \in Users :
       /\ users[u] # Free /\ totp[u] = 0
       /\ Becomes(r, [Idle EXCEPT !.pc = "saveTotp", !.user = u])
       /\ raced' = raced \cup {v \in {u} : \E q \in Reqs \ {r} :
                                 At(q, "saveTotp") /\ req[q].user = v}
  /\ UNCHANGED <<tables, signed, capital>>

SaveTotp(r) ==
  /\ At(r, "saveTotp")
  /\ Live(users[req[r].user]) /\ totp[req[r].user] < MaxTotp
  /\ totp' = [totp EXCEPT ![req[r].user] = @ + 1]
  /\ End(r)
  /\ UNCHANGED <<users, oauth, keys, touching, history>>

RemoveTotp ==
  /\ \E u \in Users : totp[u] > 0 /\ totp' = [totp EXCEPT ![u] = 0]
  /\ UNCHANGED <<users, oauth, keys, touching, req, history>>
=============================================================================

--------------------------- MODULE ServiceAccounts ---------------------------
(***************************************************************************)
(* Service accounts and their API keys: the handlers of                    *)
(* management.controller.ts, the guards that take a key (ManagementGuard,  *)
(* AuthGuard, OrgContextMiddleware) and api-key.service.ts.                *)
(*                                                                         *)
(* The guard and the reads of a handler before its first write are one     *)
(* step: a key may be revoked, and an account deleted, before the write.   *)
(***************************************************************************)
EXTENDS Identities

-----------------------------------------------------------------------------
(* The callers that ManagementGuard lets pass: platform administrators, the *)
(* administrators of some organisations (OrgMembership says of which), and  *)
(* service accounts of an organisation.                                     *)

ServiceKeys == {k \in Keys : /\ Valid(k)
                             /\ Is(keys[k].user, "service")
                             /\ users[keys[k].user].org # None}
Callers ==
  {[platform |-> TRUE, allowed |-> {}, key |-> None]} \cup
  {[platform |-> FALSE, allowed |-> S, key |-> None] :
     S \in (SUBSET Orgs) \ {{}}} \cup
  {[platform |-> FALSE, allowed |-> {users[keys[k].user].org}, key |-> k] :
     k \in ServiceKeys}

\* Mutant: a caller without a key has one written, too.
TouchNone(k) == touching' = touching \cup {k}

\* findAndValidate() starts an update of lastUsedAt and does not wait for it.
Touch(k) == touching' = touching \cup ({k} \ {None})

\* Mutant: the account's organisation is not compared.
AccessToAny(c, u) == Is(u, "service")

\* ensureServiceAccountAccess()
AccessTo(c, u) ==
  /\ Is(u, "service")
  /\ c.platform \/ users[u].org \in c.allowed

\* A key on any other endpoint.
UseKey ==
  /\ \E k \in Keys : Valid(k) /\ Touch(k)
  /\ UNCHANGED <<users, oauth, totp, keys, req, history>>

\* Mutant: the row is saved as findAndValidate() read it.
LastUsedSaved(row) == [row EXCEPT !.active = TRUE]

\* The update sets lastUsedAt, which only listings show, and nothing else.
LastUsed(row) == row

UpdateLastUsed(k) ==
  /\ k \in touching
  /\ touching' = touching \ {k}
  /\ keys' = IF Live(keys[k]) THEN [keys EXCEPT ![k] = LastUsed(@)] ELSE keys
  /\ UNCHANGED <<users, oauth, totp, req, history>>

\* The update of lastUsedAt failed; nobody is told.
TouchLost(k) ==
  /\ k \in touching
  /\ touching' = touching \ {k}
  /\ UNCHANGED <<users, oauth, totp, keys, req, history>>

Expire(k) ==
  /\ Live(keys[k]) /\ ~keys[k].expired
  /\ keys' = [keys EXCEPT ![k].expired = TRUE]
  /\ UNCHANGED <<users, oauth, totp, touching, req, history>>

-----------------------------------------------------------------------------
\* The organisation of a platform administrator's choice need not exist, and
\* may be left out.
CreateServiceAccount(r) ==
  /\ At(r, "idle")
  /\ \E c \in Callers, o \in Opt(Orgs) :
       /\ c.platform \/ o \in c.allowed
       /\ Touch(c.key)
       /\ Becomes(r, [Idle EXCEPT !.pc = "saveService", !.row = Service(o),
                                  !.allowed = c.allowed])
  /\ UNCHANGED <<users, oauth, totp, keys, history>>

SaveService(r) ==
  /\ At(r, "saveService")
  /\ \E u \in Fresh(users) :
       /\ SaveUser(u, req[r].row)
       /\ Becomes(r, [req[r] EXCEPT !.pc = "saveKey", !.user = u])
  /\ UNCHANGED <<oauth, totp, keys, touching, history>>

CreateApiKey(r) ==
  /\ At(r, "idle")
  /\ \E c \in Callers, u \in Users :
       /\ AccessTo(c, u)
       /\ Touch(c.key)
       /\ Becomes(r, [Idle EXCEPT !.pc = "saveKey", !.user = u,
                                  !.allowed = c.allowed])
  /\ UNCHANGED <<users, oauth, totp, keys, history>>

\* generateForUser(); the foreign key refuses the key of a deleted account.
SaveKey(r) ==
  /\ At(r, "saveKey")
  /\ Live(users[req[r].user])
  /\ \E k \in Fresh(keys) :
       keys' = [keys EXCEPT ![k] = [user |-> req[r].user, active |-> TRUE,
                                    expired |-> FALSE]]
  /\ End(r)
  /\ UNCHANGED <<users, oauth, totp, touching, history>>

\* Mutant: the key of another account is revoked.
FindAnyKey(u) == {k \in Keys : Live(keys[k])}

FindKey(u) == {k \in Keys : Live(keys[k]) /\ keys[k].user = u}

RevokeApiKey(r) ==
  /\ At(r, "idle")
  /\ \E c \in Callers, u \in Users :
       /\ AccessTo(c, u)
       /\ Touch(c.key)
       /\ \E k \in FindKey(u) :
            Becomes(r, [Idle EXCEPT !.pc = "revoke", !.user = u, !.key = k,
                                    !.allowed = c.allowed])
  /\ UNCHANGED <<users, oauth, totp, keys, history>>

Revoke(r) ==
  /\ At(r, "revoke")
  /\ keys' = [k \in Keys |-> IF k = req[r].key /\ Live(keys[k])
                               THEN [keys[k] EXCEPT !.active = FALSE]
                               ELSE keys[k]]
  /\ End(r)
  /\ UNCHANGED <<users, oauth, totp, touching, history>>

DeleteServiceAccount(r) ==
  /\ At(r, "idle")
  /\ \E c \in Callers, u \in Users :
       /\ AccessTo(c, u)
       /\ Touch(c.key)
       /\ Becomes(r, [Idle EXCEPT !.pc = "delete", !.user = u,
                                  !.allowed = c.allowed])
  /\ UNCHANGED <<users, oauth, totp, keys, history>>
=============================================================================

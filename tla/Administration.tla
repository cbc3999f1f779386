--------------------------- MODULE Administration ---------------------------
(***************************************************************************)
(* Identities and ServiceAccounts together: both write the rows of users,  *)
(* and either deletes what the other is working on.                        *)
(***************************************************************************)
EXTENDS ServiceAccounts

vars == <<tables, req, history>>

TypeOK ==
  /\ users    \in [Users -> {Free, Gone} \cup UserRow]
  /\ oauth    \in [Profiles -> Opt(Users)]
  /\ totp     \in [Users -> 0 .. MaxTotp]
  /\ keys     \in [Keys -> {Free, Gone} \cup KeyRow]
  /\ touching \subseteq {k \in Keys : keys[k] # Free}
  /\ req      \in [Reqs -> Request]
  /\ signed   \in [Profiles -> Opt(Users)]
  /\ capital \subseteq Users /\ raced \subseteq Users

Init ==
  /\ users = [u \in Users |-> Free]
  /\ oauth = [p \in Profiles |-> None]
  /\ totp = [u \in Users |-> 0]
  /\ keys = [k \in Keys |-> Free]
  /\ touching = {}
  /\ req = [r \in Reqs |-> Idle]
  /\ signed = [p \in Profiles |-> None]
  /\ capital = {} /\ raced = {}

Next ==
  \/ Register \/ RemoveTotp \/ UseKey
  \/ \E k \in Keys : UpdateLastUsed(k) \/ TouchLost(k) \/ Expire(k)
  \/ \E r \in Reqs :
       \/ Throw(r) /\ UNCHANGED history
       \/ FindByProvider(r) \/ FindAccount(r) \/ SaveGoogle(r) \/ SaveOauth(r)
       \/ FindVerified(r) \/ UpdateUser(r) \/ SaveRow(r)
       \/ FindDeleted(r) \/ Delete(r)
       \/ FindTotp(r) \/ SaveTotp(r)
       \/ CreateServiceAccount(r) \/ SaveService(r)
       \/ CreateApiKey(r) \/ SaveKey(r)
       \/ RevokeApiKey(r) \/ Revoke(r) \/ DeleteServiceAccount(r)

Spec == Init /\ [][Next]_vars

-----------------------------------------------------------------------------
(* Properties *)

\* What hangs on a user is gone with the user, however long ago the handler
\* that saves it found the user; a profile is a human's and a key is a service
\* account's.
ChildrenHaveUsers ==
  /\ \A p \in Profiles : oauth[p] # None => Is(oauth[p], "human")
  /\ \A u \in Users : totp[u] > 0 => Live(users[u])
  /\ \A k \in Keys : Live(keys[k]) => Is(keys[k].user, "service")

\* A profile signs in the same user every time, until that user is deleted,
\* whatever becomes of addresses at Google and here, and whatever sign-ins of
\* the profile overlap (google.strategy.ts).
SameProfileSameUser ==
  [][\A p \in Profiles : signed[p] # None => signed'[p] \in {signed[p], None}
     ]_vars

\* Two accounts have the same address only if the Google sign-in saved one of
\* them, as Google reported it: findByEmail() looks for it in lower case.
OneAccountPerAddress ==
  \A u, v \in Users :
    (u # v /\ Is(u, "human") /\ Is(v, "human")
       /\ Address[users[u].email] = Address[users[v].email])
    => {u, v} \cap capital # {}

\* A user has one TOTP enrolment, unless two enrolments overlapped.
EnrolledOnce == \A u \in Users : totp[u] > 1 => u \in raced

\* A user stays deleted, and an address verified, unless a handler in flight
\* still holds the row as it was (updateUser and verifyEmail save whole rows).
NothingUndone ==
  [][\A u \in Users :
       (\A r \in Reqs : req[r].row = None \/ req[r].user # u) =>
         /\ users[u] = Gone => users'[u] = Gone
         /\ Live(users[u]) /\ users[u].verified =>
              users'[u] = Gone \/ users'[u].verified]_vars

\* A key that was revoked, has expired or is gone lets nobody in again,
\* whatever was under way with it: the update of lastUsedAt comes late.
RevokedForGood ==
  [][\A k \in Keys : keys[k] # Free /\ ~Valid(k) => ~Valid(k)']_vars

\* A caller with a limited scope changes the service accounts, and the keys, of
\* its own organisations only (README.md:105).
ScopedToOrg ==
  [][\A r \in Reqs : req'[r] # req[r] /\ req[r].allowed # {} =>
       /\ \A u \in Users : users'[u] # users[u] =>
            \/ Is(u, "service") /\ users[u].org \in req[r].allowed
            \/ Is(u, "service")' /\ users'[u].org \in req[r].allowed
       /\ \A k \in Keys : keys'[k] # keys[k] =>
            users[IF Live(keys[k]) THEN keys[k].user
                                   ELSE keys'[k].user].org
              \in req[r].allowed]_vars
=============================================================================

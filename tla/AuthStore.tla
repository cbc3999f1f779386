----------------------------- MODULE AuthStore -----------------------------
(***************************************************************************)
(* The shared stores of the backend: the Postgres tables of users,         *)
(* credentials, sessions and one-time links, and the two Redis key spaces  *)
(* of opaque tokens.  Each operator is one repository, Redis or token      *)
(* service call, which is atomic; handlers are sequences of such calls.    *)
(*                                                                         *)
(* A table maps an identifier to Free (never allocated), to a row, or to   *)
(* Gone (deleted or expired).  Identifiers are random UUIDs or tokens of   *)
(* 256 bits, so an allocation picks a Free one and none is allocated       *)
(* twice.  One element of Grants names the access and the refresh token    *)
(* that the same call generated.                                           *)
(***************************************************************************)
CONSTANTS Users, Emails, Passwords, Creds, Sessions, Grants, Links,
          Free, Gone

VARIABLES users, creds, sessions, links,    \* Postgres
          at, rt                            \* Redis: "at:" and "rt:" keys

db    == <<users, creds, sessions>>
redis == <<at, rt>>

Kinds    == {"password_reset", "email_verification"}
UserRow  == [email: Emails, emailVerified: BOOLEAN]
CredRow  == [userId: Users, passwordHash: Passwords]
TokenRow == [userId: Users, sessionId: Sessions]
LinkRow  == [kind: Kinds, userId: Users, usedAt: BOOLEAN, expired: BOOLEAN]

\* The two sentinels are not rows.
ASSUME StoreAssumption ==
  /\ Free # Gone
  /\ {Free, Gone} \cap
       (Users \cup UserRow \cup CredRow \cup TokenRow \cup LinkRow) = {}

Live(x)  == x \notin {Free, Gone}
Fresh(t) == {k \in DOMAIN t : t[k] = Free}

StoreTypeOK ==
  /\ users    \in [Users -> {Free, Gone} \cup UserRow]
  /\ creds    \in [Creds -> {Free, Gone} \cup CredRow]
  /\ sessions \in [Sessions -> {Free, Gone} \cup Users]
  /\ links    \in [Links -> {Free} \cup LinkRow]
  /\ at       \in [Grants -> {Free, Gone} \cup TokenRow]
  /\ rt       \in [Grants -> {Free, Gone} \cup TokenRow]

StoreInit ==
  /\ users    = [u \in Users    |-> Free]
  /\ creds    = [c \in Creds    |-> Free]
  /\ sessions = [s \in Sessions |-> Free]
  /\ links    = [l \in Links    |-> Free]
  /\ at       = [g \in Grants   |-> Free]
  /\ rt       = [g \in Grants   |-> Free]

-----------------------------------------------------------------------------
(* Repositories *)

FindByEmail(e) == {u \in Users : Live(users[u]) /\ users[u].email = e}
CredsOf(u)     == {c \in Creds : Live(creds[c]) /\ creds[c].userId = u}
\* Mutant: a criterion that is undefined selects every row.
SessionsOfAnyone(u) == {s \in Sessions : Live(sessions[s])}
SessionsOf(u)  == {s \in Sessions : sessions[s] = u}

Delete(t, K) == [k \in DOMAIN t |-> IF k \in K THEN Gone ELSE t[k]]

\* TypeORM's save(): an INSERT when the primary key is not in the table, an
\* UPDATE otherwise.  The unique index on email may refuse the row.
EmailTaken(u, e) == FindByEmail(e) \ {u} # {}
SaveUserRow(u, e, verified) ==
  users' = [users EXCEPT ![u] = [email |-> e, emailVerified |-> verified]]

\* A row that refers to a user is refused by the foreign key when it is gone.
UserExists(u) == Live(users[u])
SaveCredRow(c, u, p) ==
  creds' = [creds EXCEPT ![c] = [userId |-> u, passwordHash |-> p]]
SaveSessionRow(s, u) == sessions' = [sessions EXCEPT ![s] = u]

DeleteSessions(S) == sessions' = Delete(sessions, S)

\* The foreign keys of credentials and sessions are ON DELETE CASCADE.
DeleteUserRow(u) ==
  /\ users'    = Delete(users, {u})
  /\ creds'    = Delete(creds, CredsOf(u))
  /\ sessions' = Delete(sessions, SessionsOf(u))

-----------------------------------------------------------------------------
(* Token service over Redis *)

\* Mutant: the two ids of the payload are exchanged.
TokenSwapped(u, s) == [userId |-> s, sessionId |-> u]
Token(u, s) == [userId |-> u, sessionId |-> s]
FreshGrants == Fresh(at) \cap Fresh(rt)

StoreAccessToken(g, u, s)  == at' = [at EXCEPT ![g] = Token(u, s)]
StoreRefreshToken(g, u, s) == rt' = [rt EXCEPT ![g] = Token(u, s)]
RevokeAccessToken(g)       == at' = Delete(at, {g})
RevokeRefreshToken(g)      == rt' = Delete(rt, {g})

\* The TTLs: 15 minutes for an access token, 7 days for the refresh token
\* that was stored just after it, which therefore outlives it.
ExpireAccess(g) ==
  /\ Live(at[g])
  /\ RevokeAccessToken(g)
  /\ UNCHANGED <<db, links, rt>>
ExpireRefresh(g) ==
  /\ Live(rt[g])
  /\ ~Live(at[g])
  /\ RevokeRefreshToken(g)
  /\ UNCHANGED <<db, links, at>>

-----------------------------------------------------------------------------
(* One-time links.  The table has no foreign key to users. *)

CreateLinkRow(l, k, u) ==
  links' = [links EXCEPT ![l] =
              [kind |-> k, userId |-> u, usedAt |-> FALSE, expired |-> FALSE]]

\* Mutant: usedAt is not looked at.
UsableAgain(l, k) == Live(links[l]) /\ ~links[l].expired /\ links[l].kind = k
\* The checks that consume() and peek() make on the row they read.
Usable(l, k) ==
  /\ Live(links[l])
  /\ ~links[l].usedAt
  /\ ~links[l].expired
  /\ links[l].kind = k

MarkUsedRow(l) == links' = [links EXCEPT ![l].usedAt = TRUE]

ExpireLink(l) ==
  /\ Live(links[l])
  /\ ~links[l].expired
  /\ links' = [links EXCEPT ![l].expired = TRUE]
  /\ UNCHANGED <<db, redis>>
=============================================================================

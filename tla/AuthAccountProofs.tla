------------------------- MODULE AuthAccountProofs -------------------------
(***************************************************************************)
(* Theorems about the accounts that AuthService keeps: their rows, their   *)
(* deletion, their links, the announcement of their logins and, when       *)
(* requests come one at a time, their password and the refresh token of    *)
(* each of their sessions.                                                 *)
(***************************************************************************)
EXTENDS AuthServiceProofs

\* The steps that write a table of Postgres other than that of links.
Writes(r) ==
  \/ SaveUser(r) \/ SaveVerified(r) \/ DeleteUser(r)
  \/ SaveCred(r) \/ SavePassword(r)
  \/ SaveSession(r) \/ DeleteSession(r) \/ Sweep(r)

LEMMA DbStep ==
  ASSUME [Next]_vars
  PROVE  UNCHANGED db \/ \E r \in Reqs : Step(r) /\ Writes(r)
<1>1. ASSUME NEW r \in Reqs, Step(r) PROVE UNCHANGED db \/ Writes(r)
  <2>1. CASE Throw(r) \/ RegisterFind(r) \/ LoginFind(r) \/ Compare(r)
    BY <2>1 DEF Throw, RegisterFind, LoginFind, Compare
  <2>2. CASE StoreAccess(r) \/ StoreRefresh(r) \/ Emit(r) \/ RefreshResolve(r)
    BY <2>2 DEF StoreAccess, StoreRefresh, Emit, RefreshResolve
  <2>3. CASE RefreshFindSession(r) \/ RefreshRevoke(r) \/ AuthGuard(r)
    BY <2>3 DEF RefreshFindSession, RefreshRevoke, AuthGuard
  <2>4. CASE LogoutRevoke(r) \/ FindOwn(r) \/ FindAccount(r) \/ ResetRequest(r)
    BY <2>4 DEF LogoutRevoke, FindOwn, FindAccount, ResetRequest
  <2>5. CASE CreateLink(r) \/ ConsumeFind(r) \/ MarkUsed(r) \/ FindCred(r)
               \/ FindUser(r)
    BY <2>5 DEF CreateLink, ConsumeFind, MarkUsed, FindCred, FindUser
  <2> QED
    BY <1>1, <2>1, <2>2, <2>3, <2>4, <2>5 DEF Step, Writes
<1>2. \/ \E r \in Reqs : Step(r)
      \/ UNCHANGED db
  BY DEF Next, vars, Expire, ExpireAccess, ExpireOld, ExpireRefresh,
         LinkExpires, ExpireLink
<1> QED
  BY <1>1, <1>2

\* How a row of a user, or of a table that refers to users, changes.
LEMMA UserStep ==
  ASSUME TypeOK, [Next]_vars, NEW u \in Users
  PROVE  \/ users'[u] = users[u]
         \/ /\ Live(users'[u])
            /\ \E r \in Reqs : \/ SaveUser(r) /\ users[u] = Free
                               \/ SaveVerified(r) /\ req[r].user = u
         \/ \E r \in Reqs : DeleteUser(r) /\ req[r].user = u
<1>1. ASSUME NEW r \in Reqs, SaveUser(r)
      PROVE  users'[u] = users[u] \/ (Live(users'[u]) /\ users[u] = Free)
  <2>1. PICK v \in Users :
          /\ users[v] = Free
          /\ users' = [users EXCEPT ![v] = [email |-> req[r].email,
                                            emailVerified |-> FALSE]]
    BY <1>1 DEF SaveUser, SaveUserRow, Fresh, TypeOK, StoreTypeOK
  <2> DEFINE row == [email |-> req[r].email, emailVerified |-> FALSE]
  <2>2. Live(row)
    <3>1. req[r].email \in Emails
      BY <1>1 DEF SaveUser, At, TypeOK, TypedRequest, Locals
    <3>2. row \in UserRow
      BY <3>1 DEF UserRow
    <3> QED
      BY <3>2, StoreAssumption DEF Live
  <2>3. users' = [users EXCEPT ![v] = row]
    BY <2>1
  <2>4. users'[u] = IF u = v THEN row ELSE users[u]
    BY <2>3 DEF TypeOK, StoreTypeOK
  <2> HIDE DEF row
  <2> QED
    BY <2>1, <2>2, <2>4
<1>2. ASSUME NEW r \in Reqs, SaveVerified(r)
      PROVE  users'[u] = users[u] \/ (Live(users'[u]) /\ req[r].user = u)
  <2>1. users' = [users EXCEPT ![req[r].user] = [email |-> req[r].email,
                                                 emailVerified |-> TRUE]]
    BY <1>2 DEF SaveVerified, SaveUserRow
  <2> DEFINE row == [email |-> req[r].email, emailVerified |-> TRUE]
  <2>2. Live(row)
    <3>1. req[r].email \in Emails
      BY <1>2 DEF SaveVerified, At, TypeOK, TypedRequest, Locals
    <3>2. row \in UserRow
      BY <3>1 DEF UserRow
    <3> QED
      BY <3>2, StoreAssumption DEF Live
  <2>3. users' = [users EXCEPT ![req[r].user] = row]
    BY <2>1
  <2>4. users'[u] = IF u = req[r].user THEN row ELSE users[u]
    BY <2>3 DEF TypeOK, StoreTypeOK
  <2> HIDE DEF row
  <2> QED
    BY <2>2, <2>4
<1>3. ASSUME NEW r \in Reqs, DeleteUser(r)
      PROVE  users'[u] = users[u] \/ req[r].user = u
  BY <1>3 DEF DeleteUser, DeleteUserRow, Delete, TypeOK, StoreTypeOK
<1>4. ASSUME NEW r \in Reqs, Writes(r)
      PROVE  \/ UNCHANGED users
             \/ SaveUser(r) \/ SaveVerified(r) \/ DeleteUser(r)
  BY <1>4 DEF Writes, SaveCred, SavePassword, SaveSession, DeleteSession, Sweep
<1> QED
  BY <1>1, <1>2, <1>3, <1>4, DbStep DEF db

LEMMA CredStep ==
  ASSUME TypeOK, [Next]_vars, NEW c \in Creds, Live(creds'[c])
  PROVE  \/ /\ creds'[c] = creds[c]
            /\ \A r \in Reqs : DeleteUser(r) => req[r].user # creds[c].userId
         \/ \E r \in Reqs :
              /\ \/ SaveCred(r) /\ creds[c] = Free
                 \/ /\ SavePassword(r)
                    /\ IF req[r].cred = None THEN creds[c] = Free
                                             ELSE req[r].cred = c
              /\ creds'[c] = [userId |-> req[r].user,
                              passwordHash |-> req[r].pw]
              /\ UserExists(req[r].user) /\ UNCHANGED users
<1>1. ASSUME NEW r \in Reqs, SaveCred(r)
      PROVE  \/ creds'[c] = creds[c]
             \/ /\ creds[c] = Free /\ UserExists(req[r].user)
                /\ creds'[c] = [userId |-> req[r].user,
                                passwordHash |-> req[r].pw]
                /\ UNCHANGED users
  BY <1>1 DEF SaveCred, SaveCredRow, Fresh, TypeOK, StoreTypeOK
<1>2. ASSUME NEW r \in Reqs, SavePassword(r)
      PROVE  \/ creds'[c] = creds[c]
             \/ /\ IF req[r].cred = None THEN creds[c] = Free
                                         ELSE req[r].cred = c
                /\ UserExists(req[r].user)
                /\ creds'[c] = [userId |-> req[r].user,
                                passwordHash |-> req[r].pw]
                /\ UNCHANGED users
  BY <1>2 DEF SavePassword, SaveCredRow, Fresh, TypeOK, StoreTypeOK
<1>3. ASSUME NEW r \in Reqs, DeleteUser(r)
      PROVE  creds'[c] = creds[c] /\ req[r].user # creds[c].userId
  BY <1>3 DEF DeleteUser, DeleteUserRow, Delete, CredsOf, Live, TypeOK,
              StoreTypeOK
<1>4. ASSUME NEW r \in Reqs, Writes(r)
      PROVE  \/ UNCHANGED creds
             \/ SaveCred(r) \/ SavePassword(r) \/ DeleteUser(r)
  BY <1>4 DEF Writes, SaveUser, SaveVerified, SaveSession, DeleteSession, Sweep
<1>5. UNCHANGED db => UNCHANGED creds
  BY DEF db
<1> QED
  BY <1>1, <1>2, <1>3, <1>4, <1>5, DbStep

-----------------------------------------------------------------------------
LEMMA RowsStep == TypeOK /\ RowsHaveUsers /\ [Next]_vars => RowsHaveUsers'
<1> SUFFICES ASSUME TypeOK, RowsHaveUsers, [Next]_vars PROVE RowsHaveUsers'
  OBVIOUS
<1>1. ASSUME NEW u \in Users, UserExists(u),
             \A r \in Reqs : DeleteUser(r) => req[r].user # u
      PROVE  Live(users'[u])
  BY <1>1, UserStep DEF UserExists
<1>2. ASSUME NEW c \in Creds, Live(creds'[c])
      PROVE  Live(users'[creds'[c].userId])
  <2>1. CASE /\ creds'[c] = creds[c]
             /\ \A r \in Reqs : DeleteUser(r) => req[r].user # creds[c].userId
    <3>1. Live(creds[c]) /\ creds[c].userId \in Users
      BY <1>2, <2>1 DEF Live, TypeOK, StoreTypeOK, CredRow
    <3> QED
      BY <1>1, <2>1, <3>1 DEF RowsHaveUsers, UserExists
  <2>2. CASE \E r \in Reqs :
               /\ creds'[c] = [userId |-> req[r].user,
                               passwordHash |-> req[r].pw]
               /\ UserExists(req[r].user) /\ UNCHANGED users
    BY <2>2 DEF UserExists
  <2> QED
    BY <1>2, <2>1, <2>2, CredStep
<1>3. ASSUME NEW s \in Sessions, Live(sessions'[s])
      PROVE  Live(users'[sessions'[s]])
  <2>1. CASE sessions'[s] = sessions[s]
    <3>1. Live(sessions[s]) /\ sessions[s] \in Users
      BY <1>3, <2>1 DEF Live, TypeOK, StoreTypeOK
    <3>2. ASSUME NEW r \in Reqs, DeleteUser(r)
          PROVE  req[r].user # sessions[s]
      BY <1>3, <2>1, <3>2 DEF DeleteUser, DeleteUserRow, Delete, SessionsOf,
                              Live, TypeOK, StoreTypeOK
    <3> QED
      BY <1>1, <2>1, <3>1, <3>2 DEF RowsHaveUsers
  <2>2. CASE \E r \in Reqs : SaveSession(r) /\ req'[r].sess = s
    <3>1. PICK r \in Reqs : SaveSession(r) /\ req'[r].sess = s
      BY <2>2
    <3>2. sessions'[s] = req[r].user /\ UserExists(req[r].user)
      BY <3>1 DEF SaveSession, SaveSessionRow, Fresh, TypeOK, StoreTypeOK,
                  TypedRequest, Request
    <3>3. UNCHANGED users
      BY <3>1 DEF SaveSession
    <3> QED
      BY <3>2, <3>3 DEF UserExists
  <2> QED
    BY <1>3, <2>1, <2>2, SessionStep DEF Live
<1> QED
  BY <1>2, <1>3 DEF RowsHaveUsers, UserExists

\* The foreign keys do their work although handlers check for the user some
\* awaits before they insert, and an account is deleted in between.
THEOREM RowsOwned == Spec => []RowsHaveUsers
<1>1. Init => RowsHaveUsers
  BY StoreAssumption DEF Init, StoreInit, RowsHaveUsers, Live
<1> QED
  BY <1>1, RowsStep, TypeCorrect, PTL DEF Spec

-----------------------------------------------------------------------------
\* How a request gets to the calls that this part is about.
LEMMA CallStep ==
  ASSUME TypeOK, [Next]_vars, NEW r \in Reqs, req'[r] # req[r]
  PROVE  /\ At(r, "saveVerified")' => FindUser(r) /\ req'[r].user = req[r].user
         /\ At(r, "markUsed")' => ConsumeFind(r)
         /\ At(r, "saveCred")' => SaveUser(r)
         /\ At(r, "savePassword")' => FindCred(r)
         /\ req'[r].pc \in {"storeAccess", "storeRefresh"} =>
              \/ SaveSession(r)
              \/ /\ req'[r].sess = req[r].sess
                 /\ \/ At(r, "storeAccess")
                    \/ RefreshRevoke(r) /\ At(r, "revokeOld")
         /\ req'[r].pc \in {"findSession", "revokeOld"} =>
              \/ RefreshResolve(r)
              \/ /\ At(r, "findSession")
                 /\ req'[r].sess = req[r].sess /\ req'[r].src = req[r].src
<1> DEFINE Pc == {"saveVerified", "markUsed", "saveCred", "savePassword",
                  "storeAccess", "storeRefresh", "findSession", "revokeOld"}
<1>1. Step(r)
  BY OthersStay
<1> USE DEF TypeOK, TypedRequest, Request, At, End, Idle
<1>2. ASSUME SaveUser(r) PROVE req'[r].pc = "saveCred"
  BY <1>2 DEF SaveUser
<1>3. ASSUME SaveSession(r) PROVE req'[r].pc = "storeAccess"
  BY <1>3 DEF SaveSession
<1>4. ASSUME StoreAccess(r)
      PROVE  /\ req[r].pc = "storeAccess" /\ req'[r].pc = "storeRefresh"
             /\ req'[r].sess = req[r].sess
  BY <1>4 DEF StoreAccess
<1>5. ASSUME RefreshResolve(r) PROVE req'[r].pc = "findSession"
  BY <1>5 DEF RefreshResolve
<1>6. ASSUME RefreshFindSession(r)
      PROVE  /\ req[r].pc = "findSession"
             /\ req'[r].pc \in {"revokeOld", "revokeDead"}
             /\ req'[r].sess = req[r].sess /\ req'[r].src = req[r].src
  BY <1>6 DEF RefreshFindSession
<1>7. ASSUME RefreshRevoke(r)
      PROVE  \/ req'[r].pc = "idle"
             \/ /\ req[r].pc = "revokeOld" /\ req'[r].pc = "storeAccess"
                /\ req'[r].sess = req[r].sess
  BY <1>7 DEF RefreshRevoke
<1>8. ASSUME ConsumeFind(r) PROVE req'[r].pc = "markUsed"
  BY <1>8 DEF ConsumeFind
<1>9. ASSUME FindCred(r) PROVE req'[r].pc = "savePassword"
  BY <1>9 DEF FindCred
<1>10. ASSUME FindUser(r)
       PROVE  req'[r].pc = "saveVerified" /\ req'[r].user = req[r].user
  BY <1>10 DEF FindUser
<1>11. ASSUME Throw(r) PROVE req'[r].pc \notin Pc
  BY <1>11 DEF Throw
<1>12. ASSUME RegisterFind(r) PROVE req'[r].pc \notin Pc
  BY <1>12 DEF RegisterFind
<1>13. ASSUME SaveCred(r) PROVE req'[r].pc \notin Pc
  BY <1>13 DEF SaveCred
<1>14. ASSUME LoginFind(r) PROVE req'[r].pc \notin Pc
  BY <1>14 DEF LoginFind
<1>15. ASSUME Compare(r) PROVE req'[r].pc \notin Pc
  BY <1>15 DEF Compare
<1>16. ASSUME StoreRefresh(r) PROVE req'[r].pc \notin Pc
  BY <1>16 DEF StoreRefresh
<1>17. ASSUME Emit(r) PROVE req'[r].pc \notin Pc
  BY <1>17 DEF Emit
<1>18. ASSUME AuthGuard(r) PROVE req'[r].pc \notin Pc
  BY <1>18 DEF AuthGuard, First
<1>19. ASSUME LogoutRevoke(r) PROVE req'[r].pc \notin Pc
  BY <1>19 DEF LogoutRevoke
<1>20. ASSUME FindOwn(r) PROVE req'[r].pc \notin Pc
  BY <1>20 DEF FindOwn
<1>21. ASSUME DeleteSession(r) PROVE req'[r].pc \notin Pc
  BY <1>21 DEF DeleteSession
<1>22. ASSUME FindAccount(r) PROVE req'[r].pc \notin Pc
  BY <1>22 DEF FindAccount
<1>23. ASSUME Sweep(r) PROVE req'[r].pc \notin Pc
  BY <1>23 DEF Sweep
<1>24. ASSUME DeleteUser(r) PROVE req'[r].pc \notin Pc
  BY <1>24 DEF DeleteUser
<1>25. ASSUME ResetRequest(r) PROVE req'[r].pc \notin Pc
  BY <1>25 DEF ResetRequest
<1>26. ASSUME CreateLink(r) PROVE req'[r].pc \notin Pc
  BY <1>26 DEF CreateLink
<1>27. ASSUME SaveVerified(r) PROVE req'[r].pc \notin Pc
  BY <1>27 DEF SaveVerified
<1>28. ASSUME MarkUsed(r) PROVE req'[r].pc \notin Pc
  BY <1>28 DEF MarkUsed, AfterConsume, Consumes, Locals
<1>29. ASSUME SavePassword(r) PROVE req'[r].pc \notin Pc
  BY <1>29 DEF SavePassword
<1> QED
  BY <1>1, <1>2, <1>3, <1>4, <1>5, <1>6, <1>7, <1>8, <1>9, <1>10, <1>11,
     <1>12, <1>13, <1>14, <1>15, <1>16, <1>17, <1>18, <1>19, <1>20, <1>21,
     <1>22, <1>23, <1>24, <1>25, <1>26, <1>27, <1>28, <1>29 DEF Step

\* An account that was deleted comes back only through a verification that had
\* read its row before: no other handler inserts a user it once read.
THEOREM DeletedAccounts == Spec => DeletedForGood
<1>1. ASSUME TypeOK, [Next]_vars, NEW u \in Users, users[u] = Gone,
             Restorers(u) = {}
      PROVE  users'[u] = Gone /\ Restorers(u)' = {}
  <2>1. users'[u] = Gone
    <3>1. users[u] # Free /\ ~Live(users[u])
      BY <1>1, StoreAssumption DEF Live
    <3>2. ASSUME NEW r \in Reqs, SaveVerified(r) PROVE req[r].user # u
      BY <1>1, <3>2 DEF SaveVerified, Restorers
    <3>3. ASSUME NEW r \in Reqs, DeleteUser(r), req[r].user = u
          PROVE  users'[u] = Gone
      BY <1>1, <3>3 DEF DeleteUser, DeleteUserRow, Delete, TypeOK, StoreTypeOK
    <3> QED
      BY <1>1, <3>1, <3>2, <3>3, UserStep
  <2>2. ASSUME NEW r \in Reqs, At(r, "saveVerified")', req'[r].user = u
        PROVE  FALSE
    <3>1. CASE req'[r] = req[r]
      BY <1>1, <2>2, <3>1 DEF Restorers, At
    <3>2. CASE FindUser(r) /\ req'[r].user = req[r].user
      BY <1>1, <2>2, <3>2 DEF FindUser, UserExists, Live
    <3> QED
      BY <1>1, <2>2, <3>1, <3>2, CallStep
  <2> QED
    BY <2>1, <2>2 DEF Restorers
<1>2. TypeOK /\ [Next]_vars =>
        [\A u \in Users : users[u] = Gone /\ Restorers(u) = {}
           => users'[u] = Gone /\ Restorers(u)' = {}]_vars
  BY <1>1
<1> QED
  BY <1>2, TypeCorrect, PTL DEF Spec, DeletedForGood

\* A used link that nobody is about to mark is spent for every handler.
THEOREM LinksSpent == Spec => UsedOnceDone
<1>1. ASSUME TypeOK, [Next]_vars, NEW l \in Links, SpentLink(l)
      PROVE  SpentLink(l)'
  <2>1. Live(links[l]) /\ links[l].usedAt /\ links[l] \in LinkRow
    BY <1>1 DEF SpentLink, Live, TypeOK, StoreTypeOK
  <2>2. ASSUME NEW r \in Reqs, At(r, "markUsed")', req'[r].link = l
        PROVE  FALSE
    <3>1. CASE req'[r] = req[r]
      BY <1>1, <2>2, <3>1 DEF SpentLink, At
    <3>2. CASE ConsumeFind(r)
      <4>1. PICK k \in Links, kind \in Kinds : /\ Usable(k, kind)
                                             /\ req'[r].link = k
        BY <1>1, <3>2
           DEF ConsumeFind, Consumes, Kinds, Idle, TypeOK, TypedRequest, Request
      <4> QED
        BY <2>1, <2>2, <4>1 DEF Usable
    <3> QED
      BY <1>1, <2>2, <3>1, <3>2, CallStep
  <2>3. Live(links'[l]) /\ links'[l].usedAt
    <3>1. CASE UNCHANGED links
      BY <2>1, <3>1
    <3>2. ASSUME NEW r \in Reqs, CreateLink(r)
          PROVE  Live(links'[l]) /\ links'[l].usedAt
      <4>1. l \notin Fresh(links)
        BY <2>1 DEF Fresh, Live
      <4>2. PICK k \in Fresh(links), kind \in Kinds :
              CreateLinkRow(k, kind, req[r].user)
        BY <3>2 DEF CreateLink, Kinds
      <4>3. links'[l] = links[l]
        BY <4>1, <4>2 DEF CreateLinkRow
      <4> QED
        BY <2>1, <4>3
    <3>3. ASSUME NEW r \in Reqs, MarkUsed(r)
          PROVE  Live(links'[l]) /\ links'[l].usedAt
      <4>1. req[r].link # l
        BY <1>1, <3>3 DEF SpentLink, MarkUsed
      <4>2. links'[l] = links[l]
        BY <3>3, <4>1 DEF MarkUsed, MarkUsedRow, TypeOK, StoreTypeOK
      <4> QED
        BY <2>1, <4>2
    <3>4. ASSUME NEW k \in Links, LinkExpires(k)
          PROVE  Live(links'[l]) /\ links'[l].usedAt
      <4>1. links'[l].usedAt
        BY <2>1, <3>4 DEF LinkExpires, ExpireLink, TypeOK, StoreTypeOK, LinkRow
      <4> QED
        BY <1>1, <2>1, <3>4, <4>1, ExpireLinkType, LiveRow
    <3>5. \/ UNCHANGED links
          \/ \E r \in Reqs : CreateLink(r) \/ MarkUsed(r)
          \/ \E k \in Links : LinkExpires(k)
      BY <1>1, Writers
         DEF SaveUser, SaveCred, SaveSession, StoreAccess, StoreRefresh,
             RefreshRevoke, LogoutRevoke, DeleteSession, Sweep, DeleteUser,
             SavePassword, SaveVerified, Expire, ExpireAccess, ExpireOld,
             ExpireRefresh
    <3> QED
      BY <3>1, <3>2, <3>3, <3>4, <3>5
  <2> QED
    BY <2>2, <2>3 DEF SpentLink
<1>2. TypeOK /\ [Next]_vars =>
        [\A l \in Links : SpentLink(l) => SpentLink(l)']_vars
  BY <1>1
<1> QED
  BY <1>2, TypeCorrect, PTL DEF Spec, UsedOnceDone

-----------------------------------------------------------------------------
(* The handlers of AuthService implement OneTimeLink. *)

\* From the look-up of a link to the end of the request.
Consuming == {"markUsed", "findCred", "savePassword", "sweep", "findUser",
              "saveVerified"}
HoldsLink(q) == q.op \in DOMAIN Consumes /\ q.pc \in Consuming
LinksHeld == \A r \in Reqs : req[r].link # None => HoldsLink(req[r])

\* What a handler acts by does not change.
KeepsClaim(p, q) ==
  /\ q.link = p.link /\ q.op = p.op /\ q.user = p.user
  /\ p.pc # "markUsed" /\ q.pc # "markUsed"

\* A handler that does not consume a link holds none; one that does goes on with
\* the link it marked until it ends.
LEMMA HolderStep ==
  ASSUME TypeOK, LinksHeld, NEW r \in Reqs, Step(r)
  PROVE  \/ ConsumeFind(r)
         \/ MarkUsed(r)
         \/ req'[r].link = None
         \/ KeepsClaim(req[r], req'[r]) /\ HoldsLink(req'[r])
<1> DEFINE Keeps == KeepsClaim(req[r], req'[r]) /\ HoldsLink(req'[r])
<1> USE DEF TypeOK, TypedRequest, Request, At, End, Idle
<1>1. req[r].link # None => HoldsLink(req[r])
  BY DEF LinksHeld
<1>2. ASSUME req[r].pc \notin Consuming PROVE req[r].link = None
  BY <1>1, <1>2 DEF HoldsLink
<1>3. ASSUME req[r].op \notin DOMAIN Consumes PROVE req[r].link = None
  BY <1>1, <1>3 DEF HoldsLink
<1>4. CASE Throw(r)
  BY <1>4 DEF Throw
<1>5. CASE RegisterFind(r)
  BY <1>5 DEF RegisterFind
<1>6. CASE LoginFind(r)
  BY <1>6 DEF LoginFind
<1>7. CASE RefreshResolve(r)
  BY <1>7 DEF RefreshResolve
<1>8. CASE AuthGuard(r)
  BY <1>8 DEF AuthGuard
<1>9. CASE ResetRequest(r)
  BY <1>9 DEF ResetRequest
<1>10. CASE SaveUser(r)
  BY <1>2, <1>10 DEF SaveUser, Consuming
<1>11. CASE SaveCred(r)
  BY <1>2, <1>11 DEF SaveCred, Consuming
<1>12. CASE Compare(r)
  BY <1>2, <1>12 DEF Compare, Consuming
<1>13. CASE SaveSession(r)
  BY <1>2, <1>13 DEF SaveSession, Consuming
<1>14. CASE StoreAccess(r)
  BY <1>2, <1>14 DEF StoreAccess, Consuming
<1>15. CASE StoreRefresh(r)
  BY <1>2, <1>15 DEF StoreRefresh, Consuming
<1>16. CASE Emit(r)
  BY <1>16 DEF Emit
<1>17. CASE RefreshFindSession(r)
  BY <1>2, <1>17 DEF RefreshFindSession, Consuming
<1>18. CASE RefreshRevoke(r)
  BY <1>2, <1>18 DEF RefreshRevoke, Consuming
<1>19. CASE LogoutRevoke(r)
  BY <1>2, <1>19 DEF LogoutRevoke, Consuming
<1>20. CASE FindOwn(r)
  BY <1>2, <1>20 DEF FindOwn, Consuming
<1>21. CASE DeleteSession(r)
  BY <1>21 DEF DeleteSession
<1>22. CASE FindAccount(r)
  BY <1>2, <1>22 DEF FindAccount, Consuming
<1>23. CASE Sweep(r)
  BY <1>3, <1>23 DEF Sweep, Consumes
<1>24. CASE DeleteUser(r)
  BY <1>24 DEF DeleteUser
<1>25. CASE CreateLink(r)
  BY <1>2, <1>25 DEF CreateLink, Consuming
<1>26. CASE FindCred(r)
  BY <1>1, <1>26 DEF FindCred, HoldsLink, KeepsClaim, Consuming
<1>27. CASE SavePassword(r)
  BY <1>1, <1>27 DEF SavePassword, HoldsLink, KeepsClaim, Consuming
<1>28. CASE FindUser(r)
  BY <1>1, <1>28 DEF FindUser, HoldsLink, KeepsClaim, Consuming
<1>29. CASE SaveVerified(r)
  BY <1>29 DEF SaveVerified
<1> QED
  BY <1>4, <1>5, <1>6, <1>7, <1>8, <1>9, <1>10, <1>11, <1>12, <1>13, <1>14,
     <1>15, <1>16, <1>17, <1>18, <1>19, <1>20, <1>21, <1>22, <1>23, <1>24,
     <1>25, <1>26, <1>27, <1>28, <1>29 DEF Step

\* A handler that looks a link up finds it unused, and notes whose it is.
LEMMA LookedUp ==
  ASSUME TypeOK, NEW r \in Reqs, ConsumeFind(r)
  PROVE  \E l \in Links :
           /\ req[r] = Idle
           /\ req'[r].op \in DOMAIN Consumes
           /\ Usable(l, Consumes[req'[r].op])
           /\ req'[r].link = l /\ req'[r].pc = "markUsed"
           /\ req'[r].user = links[l].userId
<1>1. PICK op \in DOMAIN Consumes, l \in Links, p \in Passwords :
        /\ Accepts(r, op) /\ Usable(l, Consumes[op])
        /\ req' = [req EXCEPT ![r] = [Idle EXCEPT
             !.op = op, !.pc = "markUsed", !.link = l,
             !.user = links[l].userId,
             !.pw = IF op = "confirmReset" THEN p ELSE None]]
  BY DEF ConsumeFind
<1>2. /\ req'[r].op = op /\ req'[r].link = l /\ req'[r].pc = "markUsed"
      /\ req'[r].user = links[l].userId
  BY <1>1 DEF Idle, TypeOK
<1> QED
  BY <1>1, <1>2 DEF Accepts

\* The handler that marks a link keeps it.
LEMMA Marked ==
  ASSUME TypeOK, NEW r \in Reqs, MarkUsed(r)
  PROVE  /\ req[r].pc = "markUsed" /\ req[r].link \in Links
         /\ req[r].op \in DOMAIN Consumes
         /\ req'[r].link = req[r].link /\ req'[r].op = req[r].op
         /\ req'[r].user = req[r].user
         /\ req'[r].pc \in {"findCred", "findUser"}
<1>1. req[r].pc = "markUsed" /\ req[r].op \in DOMAIN Consumes
  BY DEF MarkUsed, At, TypeOK, TypedRequest, Locals
<1>2. AfterConsume[req[r].op] \in {"findCred", "findUser"}
  BY <1>1 DEF AfterConsume, Consumes
<1> QED
  BY <1>1, <1>2 DEF MarkUsed, At, TypeOK, TypedRequest, Request, Locals

LEMMA LinksHeldStep == TypeOK /\ LinksHeld /\ [Next]_vars => LinksHeld'
<1> SUFFICES ASSUME TypeOK, LinksHeld, [Next]_vars, NEW r \in Reqs,
                    req'[r].link # None
             PROVE  HoldsLink(req'[r])
  BY DEF LinksHeld, HoldsLink
<1>1. CASE req'[r] = req[r]
  BY <1>1 DEF LinksHeld
<1>2. CASE Step(r)
  <2>1. CASE ConsumeFind(r)
    BY <2>1, LookedUp DEF HoldsLink, Consuming
  <2>2. CASE MarkUsed(r)
    BY <2>2, Marked DEF HoldsLink, Consuming
  <2> QED
    BY <1>2, <2>1, <2>2, HolderStep
<1> QED
  BY <1>1, <1>2, OthersStay

\* The abstract claims change with the locals of the request that moves.
LEMMA ClaimOf ==
  ASSUME NEW r \in Reqs, \A q \in Reqs \ {r} : req'[q] = req[q]
  PROVE  \A x : Claim'[r] = x => Claim' = [Claim EXCEPT ![r] = x]
  BY DEF Claim, At

\* One row of the table is one link of the abstract specification.
LEMMA LinkStateOf ==
  ASSUME NEW l \in Links, NEW x, LinkState'[l] = x,
         \A k \in Links \ {l} : links'[k] = links[k]
  PROVE  LinkState' = [LinkState EXCEPT ![l] = x]
  BY DEF LinkState, LinkStatus

\* The status of a link whose row is there.
LEMMA LinkRowState ==
  ASSUME TypeOK, NEW l \in Links, links[l] # Free
  PROVE  /\ links[l] \in LinkRow
         /\ LinkState[l].status = LinkStatus(links[l])
         /\ LinkState[l].purpose =
              [kind |-> links[l].kind, userId |-> links[l].userId]
BY DEF TypeOK, StoreTypeOK, LinkState

LEMMA CreateMaps ==
  ASSUME TypeOK, LinksHeld, NEW r \in Reqs, CreateLink(r)
  PROVE  OneTime!Issue
<1>1. PICK l \in Fresh(links), kind \in Kinds :
        CreateLinkRow(l, kind, req[r].user)
  BY DEF CreateLink, Kinds
<1> DEFINE row == [kind |-> kind, userId |-> req[r].user, usedAt |-> FALSE,
                   expired |-> FALSE]
           p == [kind |-> kind, userId |-> req[r].user]
<1>2. l \in Links /\ links[l] = Free
  BY DEF Fresh, TypeOK, StoreTypeOK
<1>3. links'[l] = row /\ \A k \in Links \ {l} : links'[k] = links[k]
  BY <1>1, <1>2 DEF CreateLinkRow, TypeOK, StoreTypeOK
<1>4. req[r].user \in Users
  BY DEF CreateLink, At, TypeOK, TypedRequest, Locals
<1>5. row \in LinkRow /\ p \in LinkPurposes
  BY <1>4 DEF LinkRow, LinkPurposes
<1>6. row # Free
  BY <1>5, StoreAssumption
<1>7. LinkState[l].status = "free"
  BY <1>2 DEF LinkState
<1>8. LinkState'[l] = [status |-> "open", purpose |-> p]
  BY <1>2, <1>3, <1>6 DEF LinkState, LinkStatus
<1>9. LinkState' = [LinkState EXCEPT ![l] =
                      [status |-> "open", purpose |-> p]]
  BY <1>2, <1>3, <1>8, LinkStateOf
<1>10. req[r].link = None /\ req'[r].link = None
  <2>1. req[r].link = None
    BY DEF CreateLink, At, LinksHeld, HoldsLink, Consuming
  <2> QED
    BY <2>1 DEF CreateLink, End, Idle, TypeOK, TypedRequest, Request
<1>11. \A q \in Reqs \ {r} : req'[q] = req[q]
  BY OneMoves DEF Step
<1>12. UNCHANGED Claim
  BY <1>10, <1>11 DEF Claim, At
<1> QED
  BY <1>2, <1>5, <1>7, <1>9, <1>12 DEF OneTime!Issue

LEMMA FindMaps ==
  ASSUME TypeOK, NEW r \in Reqs, ConsumeFind(r)
  PROVE  OneTime!Take(r)
<1>1. PICK l \in Links :
        /\ req[r] = Idle
        /\ req'[r].op \in DOMAIN Consumes
        /\ Usable(l, Consumes[req'[r].op])
        /\ req'[r].link = l /\ req'[r].pc = "markUsed"
        /\ req'[r].user = links[l].userId
  BY LookedUp
<1>2. links[l] # Free /\ LinkStatus(links[l]) = "open"
  BY <1>1 DEF Usable, Live, LinkStatus
<1>3. /\ LinkState[l].status = "open"
      /\ LinkState[l].purpose =
           [kind |-> links[l].kind, userId |-> links[l].userId]
  BY <1>2, LinkRowState
<1>4. Claim[r].stage = "none"
  BY <1>1 DEF Claim, Idle
<1>5. Claim'[r] = [stage |-> "taken", link |-> l,
                   purpose |-> LinkState[l].purpose]
  <2>1. l # None
    BY ServiceAssumption
  <2>2. links[l].kind = Consumes[req'[r].op]
    BY <1>1 DEF Usable
  <2> QED
    BY <1>1, <1>3, <2>1, <2>2 DEF Claim, At
<1>6. Claim' = [Claim EXCEPT ![r] = [stage |-> "taken", link |-> l,
                                     purpose |-> LinkState[l].purpose]]
  BY <1>5, OneMoves, ClaimOf DEF Step
<1>7. UNCHANGED LinkState
  BY DEF ConsumeFind, LinkState
<1> QED
  BY <1>3, <1>4, <1>6, <1>7 DEF OneTime!Take

LEMMA MarkMaps ==
  ASSUME TypeOK, NEW r \in Reqs, MarkUsed(r)
  PROVE  OneTime!Spend(r)
<1> DEFINE l == req[r].link
           row == [links[l] EXCEPT !.usedAt = TRUE]
<1>1. /\ req[r].pc = "markUsed" /\ l \in Links
      /\ req'[r].link = l /\ req'[r].op = req[r].op
      /\ req'[r].user = req[r].user
      /\ req'[r].pc # "markUsed"
  BY Marked
<1>2. l # None
  BY <1>1, ServiceAssumption
<1>3. links[l] \in LinkRow
  BY <1>1 DEF TypeOK, StoreTypeOK, Live
<1>4. links'[l] = row /\ \A k \in Links \ {l} : links'[k] = links[k]
  BY <1>1 DEF MarkUsed, MarkUsedRow, TypeOK, StoreTypeOK
<1>5. /\ row \in LinkRow /\ row.usedAt
      /\ row.kind = links[l].kind /\ row.userId = links[l].userId
  BY <1>3 DEF LinkRow
<1>6. links[l] # Free /\ row # Free
  BY <1>3, <1>5, StoreAssumption
<1>7. LinkState'[l] = [LinkState[l] EXCEPT !.status = "spent"]
  <2> HIDE DEF row
  <2> QED
    BY <1>1, <1>4, <1>5, <1>6 DEF LinkState, LinkStatus
<1>8. LinkState' = [LinkState EXCEPT ![l].status = "spent"]
  BY <1>1, <1>4, <1>7, LinkStateOf
<1>9. Claim[r].stage = "taken" /\ Claim[r].link = l
  BY <1>1, <1>2 DEF Claim, At
<1>10. Claim'[r] = [Claim[r] EXCEPT !.stage = "spent"]
  BY <1>1, <1>2 DEF Claim, At
<1>11. Claim' = [Claim EXCEPT ![r].stage = "spent"]
  BY <1>10, OneMoves, ClaimOf DEF Step
<1> QED
  BY <1>8, <1>9, <1>11 DEF OneTime!Spend

LEMMA LinkExpiryMaps ==
  ASSUME TypeOK, NEW l \in Links, LinkExpires(l)
  PROVE  OneTime!Expire \/ UNCHANGED OneTime!vars
<1> DEFINE row == [links[l] EXCEPT !.expired = TRUE]
<1>1. links[l] \in LinkRow /\ ~links[l].expired
  BY DEF LinkExpires, ExpireLink, Live, TypeOK, StoreTypeOK
<1>2. links'[l] = row /\ \A k \in Links \ {l} : links'[k] = links[k]
  BY DEF LinkExpires, ExpireLink, TypeOK, StoreTypeOK
<1>3. /\ row \in LinkRow /\ row.expired /\ row.usedAt = links[l].usedAt
      /\ row.kind = links[l].kind /\ row.userId = links[l].userId
  BY <1>1 DEF LinkRow
<1>4. links[l] # Free /\ row # Free
  BY <1>1, <1>3, StoreAssumption
<1>5. UNCHANGED Claim
  BY DEF LinkExpires, Claim, At
<1> HIDE DEF row
<1>6. CASE links[l].usedAt
  <2>1. LinkState'[l] = LinkState[l]
    BY <1>2, <1>3, <1>4, <1>6 DEF LinkState, LinkStatus
  <2>2. UNCHANGED LinkState
    BY <1>2, <2>1 DEF LinkState, LinkStatus
  <2> QED
    BY <1>5, <2>2 DEF OneTime!vars
<1>7. CASE ~links[l].usedAt
  <2>1. LinkState[l].status = "open"
    BY <1>1, <1>4, <1>7 DEF LinkState, LinkStatus
  <2>2. LinkState'[l] = [LinkState[l] EXCEPT !.status = "expired"]
    BY <1>2, <1>3, <1>4, <1>7 DEF LinkState, LinkStatus
  <2>3. LinkState' = [LinkState EXCEPT ![l].status = "expired"]
    BY <1>2, <2>2, LinkStateOf
  <2> QED
    BY <1>5, <2>1, <2>3 DEF OneTime!Expire
<1> QED
  BY <1>6, <1>7

\* Every step of a handler issues, takes or spends a link, or lets one go, or is
\* not seen.
LEMMA LinkNextMaps ==
  TypeOK /\ LinksHeld /\ [Next]_vars => [OneTime!Next]_OneTime!vars
<1> SUFFICES ASSUME TypeOK, LinksHeld, [Next]_vars
             PROVE  [OneTime!Next]_OneTime!vars
  OBVIOUS
<1>1. CASE \E l \in Links : LinkExpires(l)
  BY <1>1, LinkExpiryMaps DEF OneTime!Next
<1>2. CASE UNCHANGED <<links, req>>
  BY <1>2 DEF LinkState, Claim, At, OneTime!vars
<1>3. ASSUME NEW r \in Reqs, Step(r)
      PROVE  [OneTime!Next]_OneTime!vars
  <2>1. CASE CreateLink(r)
    BY <2>1, CreateMaps DEF OneTime!Next
  <2>2. CASE ConsumeFind(r)
    BY <2>2, FindMaps DEF OneTime!Next
  <2>3. CASE MarkUsed(r)
    BY <2>3, MarkMaps DEF OneTime!Next
  <2>4. CASE UNCHANGED links /\ ~ConsumeFind(r) /\ ~MarkUsed(r)
    <3>1. UNCHANGED LinkState
      BY <2>4 DEF LinkState
    <3>2. CASE req'[r].link = None
      <4>1. Claim'[r] = [stage |-> "none", link |-> None, purpose |-> None]
        BY <3>2 DEF Claim
      <4>2. OneTime!GiveUp(r)
        BY <1>3, <3>1, <4>1, OneMoves, ClaimOf
           DEF OneTime!GiveUp, OneTime!NoClaim
      <4> QED
        BY <4>2 DEF OneTime!Next
    <3>3. CASE KeepsClaim(req[r], req'[r])
      <4>1. UNCHANGED Claim
        BY <1>3, <3>3, OneMoves DEF Claim, At, KeepsClaim
      <4> QED
        BY <3>1, <4>1 DEF OneTime!vars
    <3> QED
      BY <1>3, <2>4, <3>2, <3>3, HolderStep
  <2>5. UNCHANGED links \/ CreateLink(r) \/ MarkUsed(r)
    BY <1>3, AsksWritesNothing
       DEF Step, Asks, SaveUser, SaveCred, SaveSession, StoreAccess,
           StoreRefresh, RefreshRevoke, LogoutRevoke, DeleteSession, Sweep,
           DeleteUser, SavePassword, SaveVerified
  <2> QED
    BY <2>1, <2>2, <2>3, <2>4, <2>5
<1>4. \/ UNCHANGED <<links, req>>
      \/ \E r \in Reqs : Step(r)
      \/ \E l \in Links : LinkExpires(l)
  BY DEF Next, vars, Expire, ExpireAccess, ExpireOld, ExpireRefresh
<1> QED
  BY <1>1, <1>2, <1>3, <1>4

LEMMA LinkInitMaps == Init => LinksHeld /\ OneTime!Init
<1> SUFFICES ASSUME Init PROVE LinksHeld /\ OneTime!Init
  OBVIOUS
<1>1. \A r \in Reqs : req[r].link = None
  BY DEF Init, Idle
<1>2. Claim = [r \in Reqs |-> OneTime!NoClaim]
  BY <1>1 DEF Claim, OneTime!NoClaim
<1>3. LinkState = [l \in Links |-> OneTime!Unissued]
  BY DEF Init, StoreInit, LinkState, OneTime!Unissued
<1> QED
  BY <1>1, <1>2, <1>3 DEF LinksHeld, OneTime!Init

\* Whatever handlers overlap and fail, a link that was marked or is over is
\* consumed by nobody who had not already looked it up, and who consumes it acts
\* for the user and the purpose that it was issued for.
THEOREM LinksImplement == Spec => KeepsLinks
<1>1. TypeOK /\ LinksHeld /\ [Next]_vars => LinksHeld'
  BY LinksHeldStep
<1> QED
  BY <1>1, LinkInitMaps, LinkNextMaps, TypeCorrect, PTL
     DEF Spec, KeepsLinks, OneTime!Spec

-----------------------------------------------------------------------------
(* One request at a time.  Requests may still fail at any call, and tokens  *)
(* and links expire.                                                        *)

Serial == \A q, r \in Reqs : q = r

\* A request that is about to store tokens finds no refresh token of its
\* session, and one that is about to revoke its token finds no other.
Rotation ==
  /\ OneRefreshPerSession
  /\ \A r \in Reqs, g \in Grants :
       Live(rt[g]) /\ rt[g].sessionId = req[r].sess =>
         /\ req[r].pc \notin {"storeAccess", "storeRefresh"}
         /\ req[r].pc \in {"findSession", "revokeOld"} => g = req[r].src

LEMMA RotationStep ==
  Serial /\ TypeOK /\ OwnSession /\ Rotation /\ [Next]_vars => Rotation'
<1> SUFFICES ASSUME Serial, TypeOK, OwnSession, Rotation, [Next]_vars
             PROVE  Rotation'
  OBVIOUS
<1>1. ASSUME NEW g \in Grants, Live(rt'[g])
      PROVE  \/ rt'[g] = rt[g]
             \/ \E r \in Reqs : /\ StoreRefresh(r)
                                /\ rt'[g] = Token(req[r].user, req[r].sess)
  BY <1>1, TokenStep DEF Live
<1>2. ASSUME NEW r \in Reqs, StoreRefresh(r)
      PROVE  /\ req'[r].pc \in {"idle", "createLink", "emit"}
             /\ \A g \in Grants : Live(rt[g]) =>
                  rt[g].sessionId # req[r].sess
             /\ \A g \in Grants \ {req[r].grant} : rt'[g] = rt[g]
  <2>1. req'[r].pc \in {"idle", "createLink", "emit"}
    BY <1>2 DEF StoreRefresh, End, Idle, TypeOK, TypedRequest, Request
  <2>2. \A g \in Grants : Live(rt[g]) => rt[g].sessionId # req[r].sess
    BY <1>2 DEF StoreRefresh, At, Rotation
  <2>3. \A g \in Grants \ {req[r].grant} : rt'[g] = rt[g]
    BY <1>2 DEF StoreRefresh, StoreRefreshToken, TypeOK, StoreTypeOK
  <2> QED
    BY <2>1, <2>2, <2>3
<1>3. OneRefreshPerSession'
  <2> SUFFICES ASSUME NEW g \in Grants, NEW h \in Grants, g # h,
                      Live(rt'[g]), Live(rt'[h]),
                      rt'[g].sessionId = rt'[h].sessionId
               PROVE  FALSE
    BY DEF OneRefreshPerSession
  <2>1. CASE rt'[g] = rt[g] /\ rt'[h] = rt[h]
    BY <2>1 DEF Rotation, OneRefreshPerSession
  <2>2. CASE \E r \in Reqs : StoreRefresh(r)
    <3>1. PICK r \in Reqs : StoreRefresh(r)
      BY <2>2
    <3>2. rt'[g] = rt[g] \/ rt'[h] = rt[h]
      BY <1>2, <3>1
    <3>3. \A k \in {g, h} : \/ rt'[k] = rt[k]
                            \/ rt'[k] = Token(req[r].user, req[r].sess)
      BY <1>1, <3>1 DEF Serial
    <3>4. Token(req[r].user, req[r].sess).sessionId = req[r].sess
      BY DEF Token
    <3> QED
      BY <1>2, <2>1, <3>1, <3>2, <3>3, <3>4
  <2> QED
    BY <1>1, <2>1, <2>2
<1>4. ASSUME NEW r \in Reqs, NEW g \in Grants, Live(rt'[g]),
             rt'[g].sessionId = req'[r].sess
      PROVE  /\ req'[r].pc \notin {"storeAccess", "storeRefresh"}
             /\ req'[r].pc \in {"findSession", "revokeOld"} =>
                  g = req'[r].src
  <2>1. CASE StoreRefresh(r)
    BY <1>2, <2>1
  <2>2. CASE ~StoreRefresh(r)
    <3>1. rt'[g] = rt[g] /\ Live(rt[g])
      BY <1>1, <1>4, <2>2 DEF Serial
    <3>2. CASE req'[r] = req[r]
      BY <1>4, <3>1, <3>2 DEF Rotation
    <3>3. CASE req'[r] # req[r]
      <4>1. ASSUME req'[r].pc \in {"storeAccess", "storeRefresh"}
            PROVE  FALSE
        <5>1. CASE SaveSession(r)
          <6>1. sessions[req'[r].sess] = Free
            BY <5>1 DEF SaveSession, Fresh, TypeOK, StoreTypeOK, TypedRequest,
                        Request
          <6>2. sessions[rt[g].sessionId] \in {rt[g].userId, Gone}
                /\ rt[g].userId \in Users
            BY <3>1 DEF OwnSession, TokenOwner, Live, TypeOK, StoreTypeOK,
                        TokenRow
          <6> QED
            BY <1>4, <3>1, <6>1, <6>2, StoreAssumption
        <5>2. CASE req'[r].sess = req[r].sess /\ At(r, "storeAccess")
          BY <1>4, <3>1, <5>2 DEF Rotation, At
        <5>3. CASE /\ req'[r].sess = req[r].sess /\ RefreshRevoke(r)
                   /\ At(r, "revokeOld")
          <6>1. g = req[r].src
            BY <1>4, <3>1, <5>3 DEF Rotation, At
          <6>2. rt'[g] = Gone
            BY <5>3, <6>1 DEF RefreshRevoke, RevokeRefreshToken, Delete,
                              TypeOK, StoreTypeOK
          <6> QED
            BY <1>4, <6>2 DEF Live
        <5> QED
          BY <3>3, <4>1, <5>1, <5>2, <5>3, CallStep
      <4>2. ASSUME req'[r].pc \in {"findSession", "revokeOld"}
            PROVE  g = req'[r].src
        <5>1. CASE RefreshResolve(r)
          <6>1. PICK h \in Grants : /\ Live(rt[h]) /\ req'[r].src = h
                                    /\ req'[r].sess = rt[h].sessionId
            BY <5>1 DEF RefreshResolve, TypeOK, Idle
          <6> QED
            BY <1>4, <3>1, <6>1 DEF Rotation, OneRefreshPerSession
        <5>2. CASE /\ At(r, "findSession") /\ req'[r].sess = req[r].sess
                   /\ req'[r].src = req[r].src
          BY <1>4, <3>1, <5>2 DEF Rotation, At
        <5> QED
          BY <3>3, <4>2, <5>1, <5>2, CallStep
      <4> QED
        BY <4>1, <4>2
    <3> QED
      BY <3>2, <3>3
  <2> QED
    BY <2>1, <2>2
<1> QED
  BY <1>3, <1>4 DEF Rotation

\* When requests do not overlap, a client that refreshes never forks its
\* session, even when a refresh fails half way: the old token goes first.
THEOREM OneRefresh == ASSUME Serial PROVE Spec => []OneRefreshPerSession
<1>1. Init => Rotation
  BY DEF Init, StoreInit, Rotation, OneRefreshPerSession, Live
<1>2. TypeOK /\ OwnSession /\ Rotation /\ [Next]_vars => Rotation'
  BY RotationStep
<1>3. Rotation => OneRefreshPerSession
  BY DEF Rotation
<1> QED
  BY <1>1, <1>2, <1>3, TypeCorrect, OwnSessions, PTL DEF Spec

-----------------------------------------------------------------------------
\* A request that is about to insert a credential finds none of its user, and
\* one that is about to update a credential finds no other.
Password ==
  /\ OneCredential
  /\ \A r \in Reqs, c \in Creds :
       Live(creds[c]) /\ creds[c].userId = req[r].user =>
         /\ ~At(r, "saveCred")
         /\ At(r, "savePassword") => c = req[r].cred

LEMMA PasswordStep ==
  Serial /\ TypeOK /\ RowsHaveUsers /\ Password /\ [Next]_vars => Password'
<1> SUFFICES ASSUME Serial, TypeOK, RowsHaveUsers, Password, [Next]_vars
             PROVE  Password'
  OBVIOUS
<1>1. ASSUME NEW r \in Reqs, SaveCred(r) \/ SavePassword(r)
      PROVE  /\ req'[r].pc \notin {"saveCred", "savePassword"}
             /\ \A c \in Creds : Live(creds[c]) /\ creds[c].userId = req[r].user
                  => SavePassword(r) /\ c = req[r].cred
             /\ \E c \in Creds : \A d \in Creds \ {c} : creds'[d] = creds[d]
             /\ SavePassword(r) /\ req[r].cred # None =>
                  \A d \in Creds \ {req[r].cred} : creds'[d] = creds[d]
  <2>1. req'[r].pc \notin {"saveCred", "savePassword"}
    BY <1>1 DEF SaveCred, SavePassword, TypeOK, TypedRequest, Request
  <2>2. ASSUME NEW c \in Creds, Live(creds[c]), creds[c].userId = req[r].user
        PROVE  SavePassword(r) /\ c = req[r].cred
    BY <1>1, <2>2 DEF Password, SaveCred, SavePassword, At
  <2>3. \E c \in Creds : \A d \in Creds \ {c} : creds'[d] = creds[d]
    <3>1. PICK c \in Creds : SaveCredRow(c, req[r].user, req[r].pw)
      BY <1>1 DEF SaveCred, SavePassword, Fresh, TypeOK, StoreTypeOK,
                  TypedRequest, Request, Opt
    <3> QED
      BY <3>1 DEF SaveCredRow, TypeOK, StoreTypeOK
  <2>4. ASSUME SavePassword(r), req[r].cred # None
        PROVE  \A d \in Creds \ {req[r].cred} : creds'[d] = creds[d]
    BY <2>4 DEF SavePassword, SaveCredRow, TypeOK, StoreTypeOK
  <2> QED
    BY <2>1, <2>2, <2>3, <2>4
<1>2. OneCredential'
  <2> SUFFICES ASSUME NEW c \in Creds, NEW d \in Creds, c # d,
                      Live(creds'[c]), Live(creds'[d]),
                      creds'[c].userId = creds'[d].userId
               PROVE  FALSE
    BY DEF OneCredential
  <2>1. CASE creds'[c] = creds[c] /\ creds'[d] = creds[d]
    BY <2>1 DEF Password, OneCredential
  <2>2. CASE \E r \in Reqs : SaveCred(r) \/ SavePassword(r)
    <3>1. PICK r \in Reqs : SaveCred(r) \/ SavePassword(r)
      BY <2>2
    <3>2. ASSUME NEW k \in {c, d}, creds'[k] # creds[k]
          PROVE  /\ creds'[k].userId = req[r].user
                 /\ SaveCred(r) \/ req[r].cred = None \/ req[r].cred = k
      <4>1. PICK q \in Reqs :
              /\ \/ SaveCred(q)
                 \/ IF req[q].cred = None THEN creds[k] = Free
                                          ELSE req[q].cred = k
              /\ creds'[k] = [userId |-> req[q].user,
                              passwordHash |-> req[q].pw]
        BY <3>2, CredStep
      <4>2. q = r
        BY DEF Serial
      <4> QED
        BY <4>1, <4>2
    <3>3. creds'[c] = creds[c] \/ creds'[d] = creds[d]
      BY <1>1, <3>1
    <3>4. PICK k \in {c, d}, l \in {c, d} : /\ k # l /\ creds'[k] # creds[k]
                                            /\ creds'[l] = creds[l]
      BY <2>1, <3>3
    <3>5. creds[l].userId = req[r].user /\ Live(creds[l])
      BY <3>2, <3>4
    <3>6. SavePassword(r) /\ l = req[r].cred /\ l # None
      BY <1>1, <3>1, <3>4, <3>5, ServiceAssumption
    <3> QED
      BY <1>1, <3>1, <3>4, <3>6
  <2> QED
    BY <2>1, <2>2, CredStep
<1>3. ASSUME NEW r \in Reqs, NEW c \in Creds, Live(creds'[c]),
             creds'[c].userId = req'[r].user
      PROVE  /\ ~At(r, "saveCred")'
             /\ At(r, "savePassword")' => c = req'[r].cred
  <2>1. CASE SaveCred(r) \/ SavePassword(r)
    BY <1>1, <2>1 DEF At
  <2>2. CASE ~(SaveCred(r) \/ SavePassword(r))
    <3>1. creds'[c] = creds[c] /\ Live(creds[c])
      <4>1. \A q \in Reqs : q = r
        BY DEF Serial
      <4> QED
        BY <1>3, <2>2, <4>1, CredStep
    <3>2. CASE req'[r] = req[r]
      BY <1>3, <3>1, <3>2 DEF Password, At
    <3>3. CASE req'[r] # req[r]
      <4>1. ASSUME At(r, "saveCred")' PROVE FALSE
        <5>1. SaveUser(r)
          BY <3>3, <4>1, CallStep
        <5>2. req'[r].user \in Fresh(users)
          BY <5>1 DEF SaveUser, TypeOK, TypedRequest, Request
        <5>3. ~UserExists(creds[c].userId)
          BY <1>3, <3>1, <5>2 DEF Fresh, UserExists, Live
        <5> QED
          BY <3>1, <5>3 DEF RowsHaveUsers
      <4>2. ASSUME At(r, "savePassword")' PROVE c = req'[r].cred
        <5>1. FindCred(r)
          BY <3>3, <4>2, CallStep
        <5>2. /\ req'[r].user = req[r].user
              /\ req'[r].cred \in IF CredsOf(req[r].user) = {}
                                   THEN {None} ELSE CredsOf(req[r].user)
          BY <5>1 DEF FindCred, TypeOK, TypedRequest, Request
        <5>3. c \in CredsOf(req[r].user)
          BY <1>3, <3>1, <5>2 DEF CredsOf
        <5> QED
          BY <5>2, <5>3 DEF CredsOf, Password, OneCredential
      <4> QED
        BY <4>1, <4>2
    <3> QED
      BY <3>2, <3>3
  <2> QED
    BY <2>1, <2>2
<1> QED
  BY <1>2, <1>3 DEF Password, At

\* When requests do not overlap, a user has at most one password, although no
\* index forbids a second one.
THEOREM OnePassword == ASSUME Serial PROVE Spec => []OneCredential
<1>1. Init => Password
  BY DEF Init, StoreInit, Password, OneCredential, Live
<1>2. TypeOK /\ RowsHaveUsers /\ Password /\ [Next]_vars => Password'
  BY PasswordStep
<1>3. Password => OneCredential
  BY DEF Password
<1> QED
  BY <1>1, <1>2, <1>3, TypeCorrect, RowsOwned, PTL DEF Spec

-----------------------------------------------------------------------------
(* What was announced.  A login publishes its event after it has stored its *)
(* tokens, and a refresh publishes nothing: that every token in a client's  *)
(* hands was announced must be followed from the event through the chain of *)
(* tokens, each of which names the session and the user of the one before.  *)

Said(row, E) == \/ <<"LoginSucceeded", row.sessionId>> \in E
                \/ <<"UserRegistered", row.userId>> \in E
Carried(r) == Token(req[r].user, req[r].sess)
Renews(r) ==
  req[r].op = "refresh" /\ req[r].pc \in Permitted \cup {"findSession"}
Opens(r)  == req[r].pc \in {"saveUser", "saveCred", "compare", "saveSession"}
               => req[r].op \in {"register", "login"}
\* The tokens are stored and will be returned when the event is published.
Announces(r) ==
  At(r, "emit") \/ (At(r, "createLink") /\ req[r].op = "register")

Announced ==
  /\ \A g \in known : /\ at[g] # Free /\ (Live(at[g]) => Said(at[g], events))
                      /\ rt[g] # Free /\ (Live(rt[g]) => Said(rt[g], events))
  /\ \A r \in Reqs :
       /\ Opens(r)
       /\ Renews(r) => Said(Carried(r), events)
       /\ At(r, "storeRefresh") => at[req[r].grant] \in {Gone, Carried(r)}
       /\ Announces(r) => /\ at[req[r].grant] \in {Gone, Carried(r)}
                          /\ rt[req[r].grant] \in {Gone, Carried(r)}

\* How a token that was stored changes.
LEMMA TokenFades ==
  ASSUME TypeOK, [Next]_vars, NEW g \in Grants
  PROVE  /\ at[g] # Free => at'[g] \in {at[g], Gone}
         /\ rt[g] # Free =>
              \/ rt'[g] \in {rt[g], Gone}
              \/ \E r \in Reqs : StoreRefresh(r) /\ req[r].grant = g
<1>1. ASSUME NEW r \in Reqs, StoreAccess(r), at[g] # Free
      PROVE  at'[g] = at[g]
  BY <1>1 DEF StoreAccess, StoreAccessToken, FreshGrants, Fresh, TypeOK,
              StoreTypeOK
<1>2. ASSUME NEW r \in Reqs, StoreRefresh(r), req[r].grant # g
      PROVE  rt'[g] = rt[g]
  BY <1>2 DEF StoreRefresh, StoreRefreshToken, TypeOK, StoreTypeOK
<1> QED
  BY <1>1, <1>2, TokenStep

\* How the events and the clients' tokens become more.
LEMMA AnnounceStep ==
  ASSUME TypeOK, [Next]_vars
  PROVE  /\ events \subseteq events'
         /\ \A g \in known' : g \in known \/ \E r \in Reqs :
              /\ g = req[r].grant
              /\ Emit(r) \/ (StoreRefresh(r) /\ req[r].op = "refresh")
<1>1. ASSUME NEW r \in Reqs, Step(r), ~StoreRefresh(r), ~Emit(r)
      PROVE  UNCHANGED <<known, events>>
  <2>1. CASE Throw(r) \/ RegisterFind(r) \/ SaveUser(r) \/ SaveCred(r)
    BY <2>1 DEF Throw, RegisterFind, SaveUser, SaveCred
  <2>2. CASE LoginFind(r) \/ Compare(r) \/ SaveSession(r) \/ StoreAccess(r)
    BY <2>2 DEF LoginFind, Compare, SaveSession, StoreAccess
  <2>3. CASE RefreshResolve(r) \/ RefreshFindSession(r) \/ RefreshRevoke(r)
    BY <2>3 DEF RefreshResolve, RefreshFindSession, RefreshRevoke
  <2>4. CASE AuthGuard(r) \/ LogoutRevoke(r) \/ FindOwn(r) \/ DeleteSession(r)
    BY <2>4 DEF AuthGuard, LogoutRevoke, FindOwn, DeleteSession
  <2>5. CASE FindAccount(r) \/ Sweep(r) \/ DeleteUser(r) \/ ResetRequest(r)
    BY <2>5 DEF FindAccount, Sweep, DeleteUser, ResetRequest
  <2>6. CASE CreateLink(r) \/ ConsumeFind(r) \/ MarkUsed(r) \/ FindCred(r)
    BY <2>6 DEF CreateLink, ConsumeFind, MarkUsed, FindCred
  <2>7. CASE SavePassword(r) \/ FindUser(r) \/ SaveVerified(r)
    BY <2>7 DEF SavePassword, FindUser, SaveVerified
  <2> QED
    BY <1>1, <2>1, <2>2, <2>3, <2>4, <2>5, <2>6, <2>7 DEF Step
<1>2. ASSUME NEW r \in Reqs, StoreRefresh(r)
      PROVE  /\ events' = events
             /\ \/ known' = known
                \/ req[r].op = "refresh" /\ known' = known \cup {req[r].grant}
  BY <1>2 DEF StoreRefresh
<1>3. ASSUME NEW r \in Reqs, Emit(r)
      PROVE  events \subseteq events' /\ known' = known \cup {req[r].grant}
  BY <1>3 DEF Emit
<1>4. \/ \E r \in Reqs : Step(r)
      \/ UNCHANGED <<known, events>>
  BY DEF Next, vars, Expire, ExpireOld, LinkExpires
<1> QED
  BY <1>1, <1>2, <1>3, <1>4

\* How a request gets to a call that announces a session or renews its tokens.
LEMMA QuietAnnounces ==
  ASSUME TypeOK, NEW r \in Reqs, Quiet(r)
  PROVE  Announces(r)' => /\ Announces(r) /\ Carried(r)' = Carried(r)
                          /\ req'[r].grant = req[r].grant
<1> USE DEF Announces, Carried, At, End, Idle, TypeOK, TypedRequest, Request
<1>1. CASE Throw(r)
  BY <1>1 DEF Throw
<1>2. CASE RegisterFind(r)
  BY <1>2 DEF RegisterFind
<1>3. CASE SaveUser(r)
  BY <1>3 DEF SaveUser
<1>4. CASE SaveCred(r)
  BY <1>4 DEF SaveCred
<1>5. CASE LoginFind(r)
  BY <1>5 DEF LoginFind
<1>6. CASE Compare(r)
  BY <1>6 DEF Compare
<1>7. CASE Emit(r)
  BY <1>7 DEF Emit
<1>8. CASE FindOwn(r)
  BY <1>8 DEF FindOwn
<1>9. CASE FindAccount(r)
  BY <1>9 DEF FindAccount
<1>10. CASE ResetRequest(r)
  BY <1>10 DEF ResetRequest
<1>11. CASE CreateLink(r)
  BY <1>11 DEF CreateLink
<1>12. CASE ConsumeFind(r)
  BY <1>12 DEF ConsumeFind
<1>13. CASE MarkUsed(r)
  BY <1>13 DEF MarkUsed, AfterConsume, Consumes, Locals
<1>14. CASE FindCred(r)
  BY <1>14 DEF FindCred
<1>15. CASE SavePassword(r)
  BY <1>15 DEF SavePassword
<1>16. CASE FindUser(r)
  BY <1>16 DEF FindUser
<1>17. CASE SaveVerified(r)
  BY <1>17 DEF SaveVerified
<1> QED
  BY <1>1, <1>2, <1>3, <1>4, <1>5, <1>6, <1>7, <1>8, <1>9, <1>10, <1>11,
     <1>12, <1>13, <1>14, <1>15, <1>16, <1>17 DEF Quiet

LEMMA AnnounceCalls ==
  ASSUME TypeOK, [Next]_vars, NEW r \in Reqs
  PROVE  /\ Renews(r)' => \/ Renews(r) /\ Carried(r)' = Carried(r)
                          \/ SaveSession(r) /\ req[r].op = "refresh"
                          \/ RefreshResolve(r)
         /\ Announces(r)' =>
              /\ Announces(r) \/ StoreRefresh(r)
              /\ req'[r].grant = req[r].grant /\ Carried(r)' = Carried(r)
<1> USE DEF Announces, Carried, At
<1>1. CASE req'[r] = req[r]
  BY <1>1 DEF Renews
<1>2. CASE Step(r)
  <2>1. CASE Quiet(r)
    BY <2>1, QuietStep, QuietAnnounces DEF Renews, Permitted, UsesRefresh
  <2> USE DEF Renews, Permitted, End, Idle, TypeOK, TypedRequest, Request
  <2>2. CASE SaveSession(r)
    <3>1. PICK s : req'[r] = [req[r] EXCEPT !.pc = "storeAccess", !.sess = s]
      BY <2>2 DEF SaveSession
    <3>2. req'[r].pc = "storeAccess" /\ req'[r].op = req[r].op
      BY <3>1
    <3> QED
      BY <2>2, <3>2
  <2>3. CASE StoreAccess(r)
    BY <2>3 DEF StoreAccess
  <2>4. CASE StoreRefresh(r)
    BY <2>4 DEF StoreRefresh
  <2>5. CASE RefreshResolve(r)
    <3>1. req'[r].pc = "findSession"
      BY <2>5 DEF RefreshResolve
    <3> QED
      BY <2>5, <3>1
  <2>6. CASE RefreshFindSession(r)
    BY <2>6 DEF RefreshFindSession
  <2>7. CASE RefreshRevoke(r)
    BY <2>7 DEF RefreshRevoke
  <2>8. CASE AuthGuard(r)
    BY <2>8 DEF AuthGuard, First
  <2>9. CASE LogoutRevoke(r)
    BY <2>9 DEF LogoutRevoke
  <2>10. CASE DeleteSession(r)
    BY <2>10 DEF DeleteSession
  <2>11. CASE Sweep(r)
    BY <2>11 DEF Sweep
  <2>12. CASE DeleteUser(r)
    BY <2>12 DEF DeleteUser
  <2> QED
    BY <1>2, <2>1, <2>2, <2>3, <2>4, <2>5, <2>6, <2>7, <2>8, <2>9, <2>10,
       <2>11, <2>12, StepKinds
<1> QED
  BY <1>1, <1>2, OthersStay

\* Only registration and login open a session.
LEMMA OpensStep ==
  ASSUME TypeOK, [Next]_vars, NEW r \in Reqs, Opens(r)
  PROVE  Opens(r)'
<1> USE DEF Opens
<1>1. CASE req'[r] = req[r]
  BY <1>1
<1>2. CASE Step(r)
  <2> USE DEF At, End, Idle, TypeOK, TypedRequest, Request
  <2>1. CASE Throw(r)
    BY <2>1 DEF Throw
  <2>2. CASE RegisterFind(r)
    BY <2>2 DEF RegisterFind
  <2>3. CASE SaveUser(r)
    BY <2>3 DEF SaveUser
  <2>4. CASE SaveCred(r)
    BY <2>4 DEF SaveCred
  <2>5. CASE LoginFind(r)
    BY <2>5 DEF LoginFind
  <2>6. CASE Compare(r)
    BY <2>6 DEF Compare
  <2>7. CASE SaveSession(r)
    BY <2>7 DEF SaveSession
  <2>8. CASE StoreAccess(r)
    BY <2>8 DEF StoreAccess
  <2>9. CASE StoreRefresh(r)
    BY <2>9 DEF StoreRefresh
  <2>10. CASE Emit(r)
    BY <2>10 DEF Emit
  <2>11. CASE RefreshResolve(r)
    BY <2>11 DEF RefreshResolve
  <2>12. CASE RefreshFindSession(r)
    BY <2>12 DEF RefreshFindSession
  <2>13. CASE RefreshRevoke(r)
    BY <2>13 DEF RefreshRevoke
  <2>14. CASE AuthGuard(r)
    BY <2>14 DEF AuthGuard, First
  <2>15. CASE LogoutRevoke(r)
    BY <2>15 DEF LogoutRevoke
  <2>16. CASE FindOwn(r)
    BY <2>16 DEF FindOwn
  <2>17. CASE DeleteSession(r)
    BY <2>17 DEF DeleteSession
  <2>18. CASE FindAccount(r)
    BY <2>18 DEF FindAccount
  <2>19. CASE Sweep(r)
    BY <2>19 DEF Sweep
  <2>20. CASE DeleteUser(r)
    BY <2>20 DEF DeleteUser
  <2>21. CASE ResetRequest(r)
    BY <2>21 DEF ResetRequest
  <2>22. CASE CreateLink(r)
    BY <2>22 DEF CreateLink
  <2>23. CASE ConsumeFind(r)
    BY <2>23 DEF ConsumeFind
  <2>24. CASE MarkUsed(r)
    BY <2>24 DEF MarkUsed, AfterConsume, Consumes, Locals
  <2>25. CASE FindCred(r)
    BY <2>25 DEF FindCred
  <2>26. CASE SavePassword(r)
    BY <2>26 DEF SavePassword
  <2>27. CASE FindUser(r)
    BY <2>27 DEF FindUser
  <2>28. CASE SaveVerified(r)
    BY <2>28 DEF SaveVerified
  <2> QED
    BY <1>2, <2>1, <2>2, <2>3, <2>4, <2>5, <2>6, <2>7, <2>8, <2>9, <2>10,
       <2>11, <2>12, <2>13, <2>14, <2>15, <2>16, <2>17, <2>18, <2>19, <2>20,
       <2>21, <2>22, <2>23, <2>24, <2>25, <2>26, <2>27, <2>28 DEF Step
<1> QED
  BY <1>1, <1>2, OthersStay

LEMMA AnnouncedStep ==
  TypeOK /\ TokensHeld /\ Announced /\ [Next]_vars => Announced'
<1> SUFFICES ASSUME TypeOK, TokensHeld, Announced, [Next]_vars
             PROVE  Announced'
  OBVIOUS
<1>1. \A row : Said(row, events) => Said(row, events')
  BY AnnounceStep DEF Said
\* The tokens that a handler is about to return.
<1>2. ASSUME NEW r \in Reqs, At(r, "storeRefresh")'
      PROVE  at'[req'[r].grant] \in {Gone, Carried(r)'}
  <2>1. CASE req'[r] = req[r]
    <3>1. /\ req[r].grant \in Grants /\ at[req[r].grant] # Free
          /\ at[req[r].grant] \in {Gone, Carried(r)}
      BY <1>2, <2>1 DEF At, Announced, TokensHeld, TypeOK, TypedRequest, Locals
    <3> QED
      BY <2>1, <3>1, TokenFades DEF Carried
  <2>2. CASE StoreAccess(r)
    <3>1. PICK g \in FreshGrants :
            /\ at' = [at EXCEPT ![g] = Token(req[r].user, req[r].sess)]
            /\ req' = [req EXCEPT ![r].pc = "storeRefresh", ![r].grant = g]
      BY <2>2 DEF StoreAccess, StoreAccessToken
    <3>2. g \in Grants
      BY DEF FreshGrants, Fresh, TypeOK, StoreTypeOK
    <3> QED
      BY <3>1, <3>2 DEF Carried, TypeOK, StoreTypeOK, TypedRequest, Request
  <2> QED
    BY <1>2, <2>1, <2>2, UsesStep
<1>3. ASSUME NEW r \in Reqs, StoreRefresh(r)
      PROVE  /\ req[r].grant \in Grants /\ req[r].grant \notin known
             /\ at'[req[r].grant] = at[req[r].grant]
             /\ at[req[r].grant] \in {Gone, Carried(r)}
             /\ at[req[r].grant] # Free
             /\ rt'[req[r].grant] = Carried(r) /\ Carried(r) # Free
  <2>1. At(r, "storeRefresh") /\ req[r].grant \in Grants
    BY <1>3 DEF StoreRefresh, At, TypeOK, TypedRequest, Locals
  <2>2. Carried(r) # Free
    BY <2>1, TokenIsRow DEF Carried
  <2>3. rt[req[r].grant] = Free /\ at[req[r].grant] # Free
    BY <2>1 DEF TokensHeld
  <2> QED
    BY <1>3, <2>1, <2>2, <2>3
       DEF Announced, StoreRefresh, StoreRefreshToken, Carried, TypeOK,
           StoreTypeOK
<1>4. ASSUME NEW r \in Reqs, Announces(r)
      PROVE  /\ req[r].grant \in Grants
             /\ at[req[r].grant] \in {Gone, Carried(r)}
             /\ rt[req[r].grant] \in {Gone, Carried(r)}
             /\ Carried(r) # Free
  <2>1. /\ req[r].grant \in Grants
        /\ req[r].user \in Users /\ req[r].sess \in Sessions
    BY <1>4 DEF Announces, At, TypeOK, TypedRequest, Locals
  <2>2. Token(req[r].user, req[r].sess) \in TokenRow
    BY <2>1 DEF Token, TokenRow
  <2> QED
    BY <1>4, <2>1, <2>2, StoreAssumption DEF Announced, Carried
<1>5. ASSUME NEW q \in Reqs, StoreRefresh(q), NEW g \in Grants, rt[g] # Free
      PROVE  req[q].grant # g
  BY <1>5 DEF StoreRefresh, TokensHeld
<1>6. \A g \in Grants : /\ at[g] # Free => at'[g] \in {at[g], Gone}
                        /\ rt[g] # Free => rt'[g] \in {rt[g], Gone}
  BY <1>5, TokenFades
<1>7. ASSUME NEW r \in Reqs, Announces(r)'
      PROVE  /\ at'[req'[r].grant] \in {Gone, Carried(r)'}
             /\ rt'[req'[r].grant] \in {Gone, Carried(r)'}
  <2>1. req'[r].grant = req[r].grant /\ Carried(r)' = Carried(r)
    BY <1>7, AnnounceCalls
  <2>2. CASE Announces(r)
    BY <1>4, <1>6, <2>1, <2>2, StoreAssumption
  <2>3. CASE StoreRefresh(r)
    BY <1>3, <2>1, <2>3
  <2> QED
    BY <1>7, <2>2, <2>3, AnnounceCalls
<1>8. ASSUME NEW r \in Reqs, Renews(r)' PROVE Said(Carried(r)', events')
  <2>1. CASE Renews(r) /\ Carried(r)' = Carried(r)
    BY <1>1, <2>1 DEF Announced, Said
  <2>2. CASE SaveSession(r) /\ req[r].op = "refresh"
    BY <2>2 DEF SaveSession, At, Announced, Opens
  <2>3. CASE RefreshResolve(r)
    <3>1. PICK g \in known :
            /\ Live(rt[g]) /\ UNCHANGED events
            /\ req' = [req EXCEPT ![r] = [Idle EXCEPT
                         !.op = "refresh", !.pc = "findSession", !.src = g,
                         !.user = rt[g].userId, !.sess = rt[g].sessionId]]
      BY <2>3 DEF RefreshResolve
    <3>2. Carried(r)'.userId = rt[g].userId
          /\ Carried(r)'.sessionId = rt[g].sessionId
      BY <3>1 DEF Carried, Token, TypeOK, TypedRequest, Request, Idle
    <3>3. Said(rt[g], events)
      BY <3>1 DEF Announced
    <3> QED
      BY <3>1, <3>2, <3>3 DEF Said
  <2> QED
    BY <1>8, <2>1, <2>2, <2>3, AnnounceCalls
\* The tokens in the clients' hands.
<1>9. ASSUME NEW g \in known'
      PROVE  /\ at'[g] # Free /\ (Live(at'[g]) => Said(at'[g], events'))
             /\ rt'[g] # Free /\ (Live(rt'[g]) => Said(rt'[g], events'))
  <2>1. CASE g \in known
    <3>1. /\ g \in Grants /\ at[g] # Free /\ rt[g] # Free
          /\ Live(at[g]) => Said(at[g], events)
          /\ Live(rt[g]) => Said(rt[g], events)
      BY <2>1 DEF Announced, TypeOK
    <3>2. at'[g] \in {at[g], Gone} /\ rt'[g] \in {rt[g], Gone}
      BY <1>6, <3>1
    <3> QED
      BY <1>1, <3>1, <3>2, StoreAssumption DEF Live, Said
  <2>2. ASSUME NEW r \in Reqs, g = req[r].grant,
               Emit(r) \/ (StoreRefresh(r) /\ req[r].op = "refresh")
        PROVE  /\ at[g] \in {Gone, Carried(r)} /\ at'[g] \in {at[g], Gone}
               /\ rt'[g] \in {Gone, Carried(r)} /\ Carried(r) # Free
               /\ Said(Carried(r), events')
    <3>1. CASE Emit(r)
      <4>1. Announces(r)
        BY <3>1 DEF Emit, Announces
      <4>2. Said(Carried(r), events')
        BY <3>1 DEF Emit, Said, Carried, Token
      <4> QED
        BY <1>4, <2>2, <3>1, <4>1, <4>2 DEF Emit, redis
    <3>2. CASE StoreRefresh(r) /\ req[r].op = "refresh"
      <4>1. Renews(r)
        BY <3>2 DEF StoreRefresh, At, Renews, Permitted
      <4> QED
        BY <1>1, <1>3, <2>2, <3>2, <4>1 DEF Announced
    <3> QED
      BY <2>2, <3>1, <3>2
  <2>3. CASE g \notin known
    BY <1>9, <2>2, <2>3, AnnounceStep, StoreAssumption DEF Live
  <2> QED
    BY <2>1, <2>3
<1> QED
  BY <1>2, <1>7, <1>8, <1>9, OpensStep DEF Announced

\* Every access token in a client's hands belongs to a session that was
\* announced on the event feed when it was opened, through any number of
\* refreshes and however requests overlap or fail.
THEOREM LoginsAnnounced == Spec => []LoginAnnounced
<1>1. Init => Announced
  BY DEF Init, Announced, Opens, Renews, Announces, Permitted, Idle, At
<1>2. TypeOK /\ TokensHeld /\ Announced /\ [Next]_vars => Announced'
  BY AnnouncedStep
<1>3. Announced => LoginAnnounced
  BY DEF Announced, LoginAnnounced, Said
<1>4. Init => TokensHeld
  BY InitMaps
<1>5. TypeOK /\ TokensHeld /\ [Next]_vars => TokensHeld'
  BY TokensHeldStep
<1> QED
  BY <1>1, <1>2, <1>3, <1>4, <1>5, TypeCorrect, PTL DEF Spec
=============================================================================

------------------------- MODULE AuthServiceProofs -------------------------
(***************************************************************************)
(* Theorems about AuthService, for any number of users, sessions, tokens,  *)
(* links and overlapping requests, and for any set of handlers.            *)
(***************************************************************************)
EXTENDS AuthService, TLAPS

\* An idle request is well typed.
LEMMA IdleIsTyped == Idle \in TypedRequest
  BY ServiceAssumption DEF TypedRequest, Locals, Idle, Request, Opt, Pcs

\* Deleting rows keeps the type of a table.
LEMMA DeleteType ==
  ASSUME NEW S, NEW T, Gone \in T, NEW t \in [S -> T], NEW K
  PROVE  Delete(t, K) \in [S -> T]
  BY DEF Delete

\* A row of the table of links is not a sentinel.
LEMMA LiveRow == \A x : x \in LinkRow => Live(x)
  BY StoreAssumption DEF Live

\* A link is written under an unused token, and every earlier row stays.
LEMMA CreateLinkType ==
  ASSUME TypeOK, NEW r \in Reqs, CreateLink(r)
  PROVE  /\ links' \in [Links -> {Free} \cup LinkRow]
         /\ \A l \in Links : Live(links[l]) => links'[l] \in LinkRow
<1>1. PICK k \in Fresh(links), kind \in Kinds :
        CreateLinkRow(k, kind, req[r].user)
  BY DEF CreateLink, Kinds
<1>2. k \in Links /\ ~Live(links[k]) /\ req[r].user \in Users
  BY <1>1 DEF Fresh, Live, TypeOK, StoreTypeOK, CreateLink, At, TypedRequest,
              Locals
<1> DEFINE row == [kind |-> kind, userId |-> req[r].user,
                   usedAt |-> FALSE, expired |-> FALSE]
<1>3. row \in LinkRow
  BY <1>2 DEF LinkRow
<1>4. links' = [links EXCEPT ![k] = row]
  BY <1>1 DEF CreateLinkRow
<1> QED
  BY <1>2, <1>3, <1>4 DEF TypeOK, StoreTypeOK, Live

\* Marking a link as used keeps every row a row.
LEMMA MarkUsedType ==
  ASSUME TypeOK, NEW r \in Reqs, MarkUsed(r)
  PROVE  /\ links' \in [Links -> {Free} \cup LinkRow]
         /\ \A l \in Links : Live(links[l]) => links'[l] \in LinkRow
<1>1. req[r].link \in Links /\ Live(links[req[r].link])
  BY DEF TypeOK, MarkUsed, TypedRequest, Locals, At
<1>2. PICK k \in Links : /\ Live(links[k])
                         /\ links' = [links EXCEPT ![k].usedAt = TRUE]
  BY <1>1 DEF MarkUsed, MarkUsedRow
<1>3. links[k] \in LinkRow
  BY <1>2 DEF TypeOK, StoreTypeOK, Live
<1>4. [links[k] EXCEPT !.usedAt = TRUE] \in LinkRow
  BY <1>3 DEF LinkRow
<1> QED
  BY <1>2, <1>3, <1>4 DEF TypeOK, StoreTypeOK, Live

\* So does its expiry.
LEMMA ExpireLinkType ==
  ASSUME TypeOK, NEW k \in Links, LinkExpires(k)
  PROVE  /\ links' \in [Links -> {Free} \cup LinkRow]
         /\ \A l \in Links : Live(links[l]) => links'[l] \in LinkRow
<1>1. Live(links[k]) /\ links' = [links EXCEPT ![k].expired = TRUE]
  BY DEF LinkExpires, ExpireLink
<1>2. links[k] \in LinkRow
  BY <1>1 DEF TypeOK, StoreTypeOK, Live
<1>3. [links[k] EXCEPT !.expired = TRUE] \in LinkRow
  BY <1>2 DEF LinkRow
<1> QED
  BY <1>1, <1>2, <1>3 DEF TypeOK, StoreTypeOK, Live

\* Every step keeps the tables and the handlers' locals well typed.
LEMMA TypeStep == TypeOK /\ [Next]_vars => TypeOK'
<1> SUFFICES ASSUME TypeOK, [Next]_vars PROVE TypeOK'
  OBVIOUS
<1> USE IdleIsTyped, DeleteType, ServiceAssumption DEF TypeOK, StoreTypeOK
<1>1. ASSUME NEW r \in Reqs, Throw(r) PROVE TypeOK'
  <2>1. StoreTypeOK'
    BY <1>1 DEF Throw, db, redis
  <2>2. req' \in [Reqs -> TypedRequest]
    BY <1>1 DEF Throw, Accepts, At, End, Idle, TypedRequest, Request, Locals,
           Opt, Pcs
  <2>3. \A q \in Reqs : req'[q].link \in Links => Live(links'[req'[q].link])
    BY <1>1 DEF Throw, End, Idle, At, TypedRequest, Locals
  <2>4. known' \subseteq Grants /\ events' \subseteq Event
    BY <1>1 DEF Throw
  <2> QED
    BY <2>1, <2>2, <2>3, <2>4
<1>2. ASSUME NEW r \in Reqs, RegisterFind(r) PROVE TypeOK'
  <2>1. StoreTypeOK'
    BY <1>2 DEF RegisterFind, db, redis
  <2>2. req' \in [Reqs -> TypedRequest]
    <3>1. PICK e \in Emails, p \in Passwords :
            req' = [req EXCEPT ![r] =
                      [Idle EXCEPT !.op = "register", !.pc = "saveUser",
                                     !.email = e, !.pw = p]]
      BY <1>2 DEF RegisterFind
    <3> DEFINE q == [Idle EXCEPT !.op = "register", !.pc = "saveUser",
                                     !.email = e, !.pw = p]
    <3>2. q \in Request
      BY IdleIsTyped DEF TypedRequest, Request, Opt, Pcs, AllOps
    <3>3. Locals(q)
      BY DEF Locals, Idle
    <3> QED
      BY <3>1, <3>2, <3>3 DEF TypedRequest
  <2>3. \A q \in Reqs : req'[q].link \in Links => Live(links'[req'[q].link])
    BY <1>2 DEF RegisterFind, End, Idle, At, TypedRequest, Locals
  <2>4. known' \subseteq Grants /\ events' \subseteq Event
    BY <1>2 DEF RegisterFind
  <2> QED
    BY <2>1, <2>2, <2>3, <2>4
<1>3. ASSUME NEW r \in Reqs, SaveUser(r) PROVE TypeOK'
  <2>1. StoreTypeOK'
    BY <1>3 DEF SaveUser, SaveUserRow, UserRow, At, Fresh, Locals,
           TypedRequest, db, redis
  <2>2. req' \in [Reqs -> TypedRequest]
    <3>1. req[r] \in Request /\ Locals(req[r]) /\ req[r].pc = "saveUser"
      BY <1>3 DEF TypedRequest, SaveUser, At
    <3>2. PICK u \in Users :
            req' = [req EXCEPT ![r].pc = "saveCred", ![r].user = u]
      BY <1>3, <3>1 DEF SaveUser, TypeOK, StoreTypeOK, Fresh
    <3> DEFINE q == [req[r] EXCEPT !.pc = "saveCred", !.user = u]
    <3>3. q \in Request
      BY <3>1 DEF Request, Pcs, Opt
    <3>4. Locals(q)
      BY <3>1 DEF Locals, Request
    <3> QED
      BY <1>3, <3>2, <3>3, <3>4 DEF TypedRequest
  <2>3. \A q \in Reqs : req'[q].link \in Links => Live(links'[req'[q].link])
    BY <1>3 DEF SaveUser, End, Idle, At, TypedRequest, Locals
  <2>4. known' \subseteq Grants /\ events' \subseteq Event
    BY <1>3 DEF SaveUser
  <2> QED
    BY <2>1, <2>2, <2>3, <2>4
<1>4. ASSUME NEW r \in Reqs, SaveCred(r) PROVE TypeOK'
  <2>1. StoreTypeOK'
    BY <1>4 DEF SaveCred, SaveCredRow, CredRow, At, Fresh, Locals,
           TypedRequest, Request, Opt, db, redis
  <2>2. req' \in [Reqs -> TypedRequest]
    <3>1. req[r] \in Request /\ Locals(req[r]) /\ req[r].pc = "saveCred"
      BY <1>4 DEF TypedRequest, SaveCred, At
    <3> DEFINE q(pc) == [req[r] EXCEPT !.pc = pc]
    <3>2. q("saveSession") \in Request
      BY <3>1 DEF Request, Pcs
    <3>3. req' = [req EXCEPT ![r] = q("saveSession")]
      BY <1>4 DEF SaveCred
    <3>4. Locals(q("saveSession"))
      BY <3>1 DEF Locals, Request
    <3> QED
      BY <3>2, <3>3, <3>4 DEF TypedRequest
  <2>3. \A q \in Reqs : req'[q].link \in Links => Live(links'[req'[q].link])
    BY <1>4 DEF SaveCred, End, Idle, At, TypedRequest, Locals
  <2>4. known' \subseteq Grants /\ events' \subseteq Event
    BY <1>4 DEF SaveCred
  <2> QED
    BY <2>1, <2>2, <2>3, <2>4
<1>5. ASSUME NEW r \in Reqs, LoginFind(r) PROVE TypeOK'
  <2>1. StoreTypeOK'
    BY <1>5 DEF LoginFind, db, redis
  <2>2. req' \in [Reqs -> TypedRequest]
    <3>1. PICK u \in Users, p \in Passwords :
            req' = [req EXCEPT ![r] =
                      [Idle EXCEPT !.op = "login", !.pc = "compare",
                                     !.user = u, !.pw = p]]
      BY <1>5 DEF LoginFind, FindByEmail
    <3> DEFINE q == [Idle EXCEPT !.op = "login", !.pc = "compare",
                                     !.user = u, !.pw = p]
    <3>2. q \in Request
      BY IdleIsTyped DEF TypedRequest, Request, Opt, Pcs, AllOps
    <3>3. Locals(q)
      BY DEF Locals, Idle
    <3> QED
      BY <3>1, <3>2, <3>3 DEF TypedRequest
  <2>3. \A q \in Reqs : req'[q].link \in Links => Live(links'[req'[q].link])
    BY <1>5 DEF LoginFind, End, Idle, At, TypedRequest, Locals
  <2>4. known' \subseteq Grants /\ events' \subseteq Event
    BY <1>5 DEF LoginFind
  <2> QED
    BY <2>1, <2>2, <2>3, <2>4
<1>6. ASSUME NEW r \in Reqs, Compare(r) PROVE TypeOK'
  <2>1. StoreTypeOK'
    BY <1>6 DEF Compare, db, redis
  <2>2. req' \in [Reqs -> TypedRequest]
    <3>1. req[r] \in Request /\ Locals(req[r]) /\ req[r].pc = "compare"
      BY <1>6 DEF TypedRequest, Compare, At
    <3>2. req' = [req EXCEPT ![r] = [req[r] EXCEPT !.pc = "saveSession"]]
      BY <1>6 DEF Compare
    <3> DEFINE q == [req[r] EXCEPT !.pc = "saveSession"]
    <3>3. q \in Request
      BY <3>1 DEF Request, Pcs, Opt
    <3>4. Locals(q)
      BY <3>1 DEF Locals, Request
    <3> QED
      BY <1>6, <3>2, <3>3, <3>4 DEF TypedRequest
  <2>3. \A q \in Reqs : req'[q].link \in Links => Live(links'[req'[q].link])
    BY <1>6 DEF Compare, End, Idle, At, TypedRequest, Locals
  <2>4. known' \subseteq Grants /\ events' \subseteq Event
    BY <1>6 DEF Compare
  <2> QED
    BY <2>1, <2>2, <2>3, <2>4
<1>7. ASSUME NEW r \in Reqs, SaveSession(r) PROVE TypeOK'
  <2>1. StoreTypeOK'
    BY <1>7 DEF SaveSession, SaveSessionRow, At, Fresh, Locals, TypedRequest,
           db, redis
  <2>2. req' \in [Reqs -> TypedRequest]
    <3>1. req[r] \in Request /\ Locals(req[r]) /\ req[r].pc = "saveSession"
      BY <1>7 DEF TypedRequest, SaveSession, At
    <3>2. PICK s \in Sessions :
            req' = [req EXCEPT ![r].pc = "storeAccess", ![r].sess = s]
      BY <1>7, <3>1 DEF SaveSession, TypeOK, StoreTypeOK, Fresh
    <3> DEFINE q == [req[r] EXCEPT !.pc = "storeAccess", !.sess = s]
    <3>3. q \in Request
      BY <3>1 DEF Request, Pcs, Opt
    <3>4. Locals(q)
      BY <3>1 DEF Locals, Request
    <3> QED
      BY <1>7, <3>2, <3>3, <3>4 DEF TypedRequest
  <2>3. \A q \in Reqs : req'[q].link \in Links => Live(links'[req'[q].link])
    BY <1>7 DEF SaveSession, End, Idle, At, TypedRequest, Locals
  <2>4. known' \subseteq Grants /\ events' \subseteq Event
    BY <1>7 DEF SaveSession
  <2> QED
    BY <2>1, <2>2, <2>3, <2>4
<1>8. ASSUME NEW r \in Reqs, StoreAccess(r) PROVE TypeOK'
  <2>1. StoreTypeOK'
    BY <1>8 DEF StoreAccess, StoreAccessToken, At, Fresh, FreshGrants, Token,
           TokenRow, Locals, TypedRequest, db, redis
  <2>2. req' \in [Reqs -> TypedRequest]
    <3>1. req[r] \in Request /\ Locals(req[r]) /\ req[r].pc = "storeAccess"
      BY <1>8 DEF TypedRequest, StoreAccess, At
    <3>2. PICK g \in Grants :
            req' = [req EXCEPT ![r].pc = "storeRefresh", ![r].grant = g]
      BY <1>8, <3>1 DEF StoreAccess, TypeOK, StoreTypeOK, Fresh, FreshGrants
    <3> DEFINE q == [req[r] EXCEPT !.pc = "storeRefresh", !.grant = g]
    <3>3. q \in Request
      BY <3>1 DEF Request, Pcs, Opt
    <3>4. Locals(q)
      BY <3>1 DEF Locals, Request
    <3> QED
      BY <1>8, <3>2, <3>3, <3>4 DEF TypedRequest
  <2>3. \A q \in Reqs : req'[q].link \in Links => Live(links'[req'[q].link])
    BY <1>8 DEF StoreAccess, End, Idle, At, TypedRequest, Locals
  <2>4. known' \subseteq Grants /\ events' \subseteq Event
    BY <1>8 DEF StoreAccess
  <2> QED
    BY <2>1, <2>2, <2>3, <2>4
<1>9. ASSUME NEW r \in Reqs, StoreRefresh(r) PROVE TypeOK'
  <2>1. StoreTypeOK'
    BY <1>9 DEF StoreRefresh, StoreRefreshToken, At, Fresh, FreshGrants,
           Token, TokenRow, Locals, TypedRequest, db, redis
  <2>2. req' \in [Reqs -> TypedRequest]
    <3>1. req[r] \in Request /\ Locals(req[r]) /\ req[r].pc = "storeRefresh"
      BY <1>9 DEF TypedRequest, StoreRefresh, At
    <3> DEFINE q(pc) == [req[r] EXCEPT !.pc = pc]
    <3>2. q("createLink") \in Request
      BY <3>1 DEF Request, Pcs
    <3>3. q("emit") \in Request
      BY <3>1 DEF Request, Pcs
    <3>4. \/ req' = [req EXCEPT ![r] = q("createLink")]
          \/ req' = [req EXCEPT ![r] = q("emit")]
          \/ req' = [req EXCEPT ![r] = Idle]
      BY <1>9 DEF StoreRefresh, End
    <3>5. Locals(q("createLink"))
      BY <3>1 DEF Locals, Request
    <3>6. Locals(q("emit"))
      BY <3>1 DEF Locals, Request
    <3> QED
      BY IdleIsTyped, <3>2, <3>3, <3>4, <3>5, <3>6 DEF TypedRequest
  <2>3. \A q \in Reqs : req'[q].link \in Links => Live(links'[req'[q].link])
    <3>1. links' = links /\ \A q \in Reqs : req'[q].link \in {req[q].link, None}
      BY <1>9 DEF StoreRefresh, At, End, Idle, TypedRequest, Request
    <3> QED
      BY <3>1
  <2>4. known' \subseteq Grants /\ events' \subseteq Event
    BY <1>9 DEF StoreRefresh, At, TypedRequest, Locals
  <2> QED
    BY <2>1, <2>2, <2>3, <2>4
<1>10. ASSUME NEW r \in Reqs, Emit(r) PROVE TypeOK'
  <2>1. StoreTypeOK'
    BY <1>10 DEF Emit, db, redis
  <2>2. req' \in [Reqs -> TypedRequest]
    BY <1>10 DEF Emit, Accepts, At, End, Idle, TypedRequest, Request, Locals,
           Opt, Pcs
  <2>3. \A q \in Reqs : req'[q].link \in Links => Live(links'[req'[q].link])
    BY <1>10 DEF Emit, End, Idle, At, TypedRequest, Locals
  <2>4. known' \subseteq Grants /\ events' \subseteq Event
    BY <1>10 DEF Emit, Event, At, TypedRequest, Locals
  <2> QED
    BY <2>1, <2>2, <2>3, <2>4
<1>11. ASSUME NEW r \in Reqs, RefreshResolve(r) PROVE TypeOK'
  <2>1. StoreTypeOK'
    BY <1>11 DEF RefreshResolve, db, redis
  <2>2. req' \in [Reqs -> TypedRequest]
    <3>1. PICK g \in Grants :
            /\ req' = [req EXCEPT ![r] =
                      [Idle EXCEPT !.op = "refresh", !.pc = "findSession",
                   !.src = g, !.user = rt[g].userId, !.sess = rt[g].sessionId]]
            /\ Live(rt[g])
      BY <1>11 DEF RefreshResolve
    <3>2. rt[g].userId \in Users /\ rt[g].sessionId \in Sessions
      BY <3>1 DEF Live, TokenRow
    <3> DEFINE q == [Idle EXCEPT !.op = "refresh", !.pc = "findSession",
                   !.src = g, !.user = rt[g].userId, !.sess = rt[g].sessionId]
    <3>3. q \in Request
      BY IdleIsTyped, <3>2 DEF TypedRequest, Request, Opt, Pcs, AllOps
    <3>4. Locals(q)
      BY <3>2 DEF Locals, Idle
    <3> QED
      BY <3>1, <3>3, <3>4 DEF TypedRequest
  <2>3. \A q \in Reqs : req'[q].link \in Links => Live(links'[req'[q].link])
    BY <1>11 DEF RefreshResolve, End, Idle, At, TypedRequest, Locals
  <2>4. known' \subseteq Grants /\ events' \subseteq Event
    BY <1>11 DEF RefreshResolve
  <2> QED
    BY <2>1, <2>2, <2>3, <2>4
<1>12. ASSUME NEW r \in Reqs, RefreshFindSession(r) PROVE TypeOK'
  <2>1. StoreTypeOK'
    BY <1>12 DEF RefreshFindSession, db, redis
  <2>2. req' \in [Reqs -> TypedRequest]
    <3>1. req[r] \in Request /\ Locals(req[r]) /\ req[r].pc = "findSession"
      BY <1>12 DEF TypedRequest, RefreshFindSession, At
    <3> DEFINE q(pc) == [req[r] EXCEPT !.pc = pc]
    <3>2. q("revokeOld") \in Request
      BY <3>1 DEF Request, Pcs
    <3>3. q("revokeDead") \in Request
      BY <3>1 DEF Request, Pcs
    <3>4. \/ req' = [req EXCEPT ![r] = q("revokeOld")]
          \/ req' = [req EXCEPT ![r] = q("revokeDead")]
      BY <1>12 DEF RefreshFindSession
    <3>5. Locals(q("revokeOld"))
      BY <3>1 DEF Locals, Request
    <3>6. Locals(q("revokeDead"))
      BY <3>1 DEF Locals, Request
    <3> QED
      BY <3>2, <3>3, <3>4, <3>5, <3>6 DEF TypedRequest
  <2>3. \A q \in Reqs : req'[q].link \in Links => Live(links'[req'[q].link])
    BY <1>12 DEF RefreshFindSession, End, Idle, At, TypedRequest, Locals
  <2>4. known' \subseteq Grants /\ events' \subseteq Event
    BY <1>12 DEF RefreshFindSession
  <2> QED
    BY <2>1, <2>2, <2>3, <2>4
<1>13. ASSUME NEW r \in Reqs, RefreshRevoke(r) PROVE TypeOK'
  <2>1. StoreTypeOK'
    BY <1>13 DEF RefreshRevoke, RevokeRefreshToken, db, redis
  <2>2. req' \in [Reqs -> TypedRequest]
    <3>1. /\ req[r] \in Request /\ Locals(req[r])
          /\ req[r].pc \in {"revokeOld", "revokeDead"}
      BY <1>13 DEF TypedRequest, RefreshRevoke, At
    <3> DEFINE q(pc) == [req[r] EXCEPT !.pc = pc]
    <3>2. q("storeAccess") \in Request
      BY <3>1 DEF Request, Pcs
    <3>3. \/ req' = [req EXCEPT ![r] = q("storeAccess")]
          \/ req' = [req EXCEPT ![r] = Idle]
      BY <1>13 DEF RefreshRevoke, End
    <3>4. Locals(q("storeAccess"))
      BY <3>1 DEF Locals, Request
    <3> QED
      BY IdleIsTyped, <3>2, <3>3, <3>4 DEF TypedRequest
  <2>3. \A q \in Reqs : req'[q].link \in Links => Live(links'[req'[q].link])
    <3>1. links' = links /\ \A q \in Reqs : req'[q].link \in {req[q].link, None}
      BY <1>13 DEF RefreshRevoke, At, End, Idle, TypedRequest, Request
    <3> QED
      BY <3>1
  <2>4. known' \subseteq Grants /\ events' \subseteq Event
    BY <1>13 DEF RefreshRevoke
  <2> QED
    BY <2>1, <2>2, <2>3, <2>4
<1>14. ASSUME NEW r \in Reqs, AuthGuard(r) PROVE TypeOK'
  <2>1. StoreTypeOK'
    BY <1>14 DEF AuthGuard, db, redis
  <2>2. req' \in [Reqs -> TypedRequest]
    <3>1. PICK op \in DOMAIN First, g \in Grants :
            /\ req' = [req EXCEPT ![r] =
                      [Idle EXCEPT !.op = op, !.pc = First[op],
                   !.src = g, !.user = at[g].userId, !.sess = at[g].sessionId]]
            /\ Live(at[g])
      BY <1>14 DEF AuthGuard
    <3>2. at[g].userId \in Users /\ at[g].sessionId \in Sessions
      BY <3>1 DEF Live, TokenRow
    <3>3. op \in AllOps /\ First[op] \in Pcs
      BY DEF First, AllOps, Pcs
    <3> DEFINE q == [Idle EXCEPT !.op = op, !.pc = First[op],
                   !.src = g, !.user = at[g].userId, !.sess = at[g].sessionId]
    <3>4. q \in Request
      BY IdleIsTyped, <3>2, <3>3 DEF TypedRequest, Request, Opt
    <3>5. Locals(q)
      BY <3>2, <3>3 DEF Locals, Idle, First
    <3> QED
      BY <3>1, <3>4, <3>5 DEF TypedRequest
  <2>3. \A q \in Reqs : req'[q].link \in Links => Live(links'[req'[q].link])
    BY <1>14 DEF AuthGuard, End, Idle, At, TypedRequest, Locals
  <2>4. known' \subseteq Grants /\ events' \subseteq Event
    BY <1>14 DEF AuthGuard
  <2> QED
    BY <2>1, <2>2, <2>3, <2>4
<1>15. ASSUME NEW r \in Reqs, LogoutRevoke(r) PROVE TypeOK'
  <2>1. StoreTypeOK'
    BY <1>15 DEF LogoutRevoke, RevokeAccessToken, db, redis
  <2>2. req' \in [Reqs -> TypedRequest]
    <3>1. req[r] \in Request /\ Locals(req[r]) /\ req[r].pc = "revokeAccess"
      BY <1>15 DEF TypedRequest, LogoutRevoke, At
    <3> DEFINE q(pc) == [req[r] EXCEPT !.pc = pc]
    <3>2. q("deleteSession") \in Request
      BY <3>1 DEF Request, Pcs
    <3>3. req' = [req EXCEPT ![r] = q("deleteSession")]
      BY <1>15 DEF LogoutRevoke
    <3>4. Locals(q("deleteSession"))
      BY <3>1 DEF Locals, Request
    <3> QED
      BY <3>2, <3>3, <3>4 DEF TypedRequest
  <2>3. \A q \in Reqs : req'[q].link \in Links => Live(links'[req'[q].link])
    BY <1>15 DEF LogoutRevoke, End, Idle, At, TypedRequest, Locals
  <2>4. known' \subseteq Grants /\ events' \subseteq Event
    BY <1>15 DEF LogoutRevoke
  <2> QED
    BY <2>1, <2>2, <2>3, <2>4
<1>16. ASSUME NEW r \in Reqs, FindOwn(r) PROVE TypeOK'
  <2>1. StoreTypeOK'
    BY <1>16 DEF FindOwn, db, redis
  <2>2. req' \in [Reqs -> TypedRequest]
    <3>1. req[r] \in Request /\ Locals(req[r]) /\ req[r].pc = "findOwn"
      BY <1>16 DEF TypedRequest, FindOwn, At
    <3>2. PICK s \in Sessions :
            req' = [req EXCEPT ![r].pc = "deleteSession", ![r].sess = s]
      BY <1>16, <3>1 DEF FindOwn, TypeOK, StoreTypeOK, SessionsOf
    <3> DEFINE q == [req[r] EXCEPT !.pc = "deleteSession", !.sess = s]
    <3>3. q \in Request
      BY <3>1 DEF Request, Pcs, Opt
    <3>4. Locals(q)
      BY <3>1 DEF Locals, Request
    <3> QED
      BY <1>16, <3>2, <3>3, <3>4 DEF TypedRequest
  <2>3. \A q \in Reqs : req'[q].link \in Links => Live(links'[req'[q].link])
    BY <1>16 DEF FindOwn, End, Idle, At, TypedRequest, Locals
  <2>4. known' \subseteq Grants /\ events' \subseteq Event
    BY <1>16 DEF FindOwn
  <2> QED
    BY <2>1, <2>2, <2>3, <2>4
<1>17. ASSUME NEW r \in Reqs, DeleteSession(r) PROVE TypeOK'
  <2>1. StoreTypeOK'
    BY <1>17 DEF DeleteSession, DeleteSessions, db, redis
  <2>2. req' \in [Reqs -> TypedRequest]
    BY <1>17 DEF DeleteSession, Accepts, At, End, Idle, TypedRequest, Request,
           Locals, Opt, Pcs
  <2>3. \A q \in Reqs : req'[q].link \in Links => Live(links'[req'[q].link])
    BY <1>17 DEF DeleteSession, End, Idle, At, TypedRequest, Locals
  <2>4. known' \subseteq Grants /\ events' \subseteq Event
    BY <1>17 DEF DeleteSession
  <2> QED
    BY <2>1, <2>2, <2>3, <2>4
<1>18. ASSUME NEW r \in Reqs, FindAccount(r) PROVE TypeOK'
  <2>1. StoreTypeOK'
    BY <1>18 DEF FindAccount, db, redis
  <2>2. req' \in [Reqs -> TypedRequest]
    <3>1. req[r] \in Request /\ Locals(req[r]) /\ req[r].pc = "findAccount"
      BY <1>18 DEF TypedRequest, FindAccount, At
    <3> DEFINE q(pc) == [req[r] EXCEPT !.pc = pc]
    <3>2. q("sweep") \in Request
      BY <3>1 DEF Request, Pcs
    <3>3. req' = [req EXCEPT ![r] = q("sweep")]
      BY <1>18 DEF FindAccount
    <3>4. Locals(q("sweep"))
      BY <3>1 DEF Locals, Request
    <3> QED
      BY <3>2, <3>3, <3>4 DEF TypedRequest
  <2>3. \A q \in Reqs : req'[q].link \in Links => Live(links'[req'[q].link])
    BY <1>18 DEF FindAccount, End, Idle, At, TypedRequest, Locals
  <2>4. known' \subseteq Grants /\ events' \subseteq Event
    BY <1>18 DEF FindAccount
  <2> QED
    BY <2>1, <2>2, <2>3, <2>4
<1>19. ASSUME NEW r \in Reqs, Sweep(r) PROVE TypeOK'
  <2>1. StoreTypeOK'
    BY <1>19 DEF Sweep, DeleteSessions, db, redis
  <2>2. req' \in [Reqs -> TypedRequest]
    <3>1. req[r] \in Request /\ Locals(req[r]) /\ req[r].pc = "sweep"
      BY <1>19 DEF TypedRequest, Sweep, At
    <3> DEFINE q(pc) == [req[r] EXCEPT !.pc = pc]
    <3>2. q("deleteUser") \in Request
      BY <3>1 DEF Request, Pcs
    <3>3. \/ req' = [req EXCEPT ![r] = q("deleteUser")]
          \/ req' = [req EXCEPT ![r] = Idle]
      BY <1>19 DEF Sweep, End
    <3>4. Locals(q("deleteUser"))
      BY <3>1 DEF Locals, Request
    <3> QED
      BY IdleIsTyped, <3>2, <3>3, <3>4 DEF TypedRequest
  <2>3. \A q \in Reqs : req'[q].link \in Links => Live(links'[req'[q].link])
    <3>1. links' = links /\ \A q \in Reqs : req'[q].link \in {req[q].link, None}
      BY <1>19 DEF Sweep, End, Idle, TypedRequest, Request
    <3> QED
      BY <3>1
  <2>4. known' \subseteq Grants /\ events' \subseteq Event
    BY <1>19 DEF Sweep
  <2> QED
    BY <2>1, <2>2, <2>3, <2>4
<1>20. ASSUME NEW r \in Reqs, DeleteUser(r) PROVE TypeOK'
  <2>1. StoreTypeOK'
    BY <1>20 DEF DeleteUser, DeleteUserRow, db, redis
  <2>2. req' \in [Reqs -> TypedRequest]
    BY <1>20 DEF DeleteUser, Accepts, At, End, Idle, TypedRequest, Request,
           Locals, Opt, Pcs
  <2>3. \A q \in Reqs : req'[q].link \in Links => Live(links'[req'[q].link])
    BY <1>20 DEF DeleteUser, End, Idle, At, TypedRequest, Locals
  <2>4. known' \subseteq Grants /\ events' \subseteq Event
    BY <1>20 DEF DeleteUser
  <2> QED
    BY <2>1, <2>2, <2>3, <2>4
<1>21. ASSUME NEW r \in Reqs, ResetRequest(r) PROVE TypeOK'
  <2>1. StoreTypeOK'
    BY <1>21 DEF ResetRequest, db, redis
  <2>2. req' \in [Reqs -> TypedRequest]
    <3>1. PICK u \in Users :
            req' = [req EXCEPT ![r] =
                      [Idle EXCEPT !.op = "requestReset",
                                     !.pc = "createLink", !.user = u]]
      BY <1>21 DEF ResetRequest, FindByEmail
    <3> DEFINE q == [Idle EXCEPT !.op = "requestReset",
                                     !.pc = "createLink", !.user = u]
    <3>2. q \in Request
      BY IdleIsTyped DEF TypedRequest, Request, Opt, Pcs, AllOps
    <3>3. Locals(q)
      BY DEF Locals, Idle
    <3> QED
      BY <3>1, <3>2, <3>3 DEF TypedRequest
  <2>3. \A q \in Reqs : req'[q].link \in Links => Live(links'[req'[q].link])
    BY <1>21 DEF ResetRequest, End, Idle, At, TypedRequest, Locals
  <2>4. known' \subseteq Grants /\ events' \subseteq Event
    BY <1>21 DEF ResetRequest
  <2> QED
    BY <2>1, <2>2, <2>3, <2>4
<1>22. ASSUME NEW r \in Reqs, CreateLink(r) PROVE TypeOK'
  <2>1. StoreTypeOK'
    BY <1>22, CreateLinkType DEF CreateLink, db, redis
  <2>2. req' \in [Reqs -> TypedRequest]
    <3>1. req[r] \in Request /\ Locals(req[r]) /\ req[r].pc = "createLink"
      BY <1>22 DEF TypedRequest, CreateLink, At
    <3> DEFINE q(pc) == [req[r] EXCEPT !.pc = pc]
    <3>2. q("emit") \in Request
      BY <3>1 DEF Request, Pcs
    <3>3. \/ req' = [req EXCEPT ![r] = q("emit")] /\ req[r].op = "register"
          \/ req' = [req EXCEPT ![r] = Idle]
      BY <1>22 DEF CreateLink, End
    <3>4. req[r].op = "register" => Locals(q("emit"))
      BY <3>1 DEF Locals, Request
    <3> QED
      BY IdleIsTyped, <3>2, <3>3, <3>4 DEF TypedRequest
  <2>3. \A q \in Reqs : req'[q].link \in Links => Live(links'[req'[q].link])
    <3>1. \A q \in Reqs : req'[q].link \in {req[q].link, None}
      BY <1>22 DEF CreateLink, End, Idle, TypedRequest, Request
    <3> QED
      BY <3>1, <1>22, CreateLinkType, LiveRow
  <2>4. known' \subseteq Grants /\ events' \subseteq Event
    BY <1>22 DEF CreateLink
  <2> QED
    BY <2>1, <2>2, <2>3, <2>4
<1>23. ASSUME NEW r \in Reqs, ConsumeFind(r) PROVE TypeOK'
  <2>1. StoreTypeOK'
    BY <1>23 DEF ConsumeFind, db, redis
  <2>2. req' \in [Reqs -> TypedRequest]
    <3>1. PICK op \in DOMAIN Consumes, l \in Links, p \in Passwords :
            /\ Live(links[l])
            /\ req' = [req EXCEPT ![r] = [Idle EXCEPT
                         !.op = op, !.pc = "markUsed", !.link = l,
                         !.user = links[l].userId,
                         !.pw = IF op = "confirmReset" THEN p ELSE None]]
      BY <1>23 DEF ConsumeFind, Usable
    <3>2. PICK pw \in Opt(Passwords) :
            pw = IF op = "confirmReset" THEN p ELSE None
      BY DEF Opt
    <3>3. op \in AllOps /\ links[l].userId \in Users
      BY <3>1 DEF AllOps, Live, LinkRow
    <3> DEFINE q == [Idle EXCEPT !.op = op, !.pc = "markUsed", !.link = l,
                                 !.user = links[l].userId, !.pw = pw]
    <3>4. q \in Request
      BY IdleIsTyped, <3>3 DEF TypedRequest, Request, Opt, Pcs
    <3>5. Locals(q)
      BY <3>2, <3>3 DEF Locals, Idle
    <3> QED
      BY <3>1, <3>2, <3>4, <3>5 DEF TypedRequest
  <2>3. \A q \in Reqs : req'[q].link \in Links => Live(links'[req'[q].link])
    BY <1>23 DEF ConsumeFind, End, Idle, At, Usable, TypedRequest, Locals
  <2>4. known' \subseteq Grants /\ events' \subseteq Event
    BY <1>23 DEF ConsumeFind
  <2> QED
    BY <2>1, <2>2, <2>3, <2>4
<1>24. ASSUME NEW r \in Reqs, MarkUsed(r) PROVE TypeOK'
  <2>1. StoreTypeOK'
    BY <1>24, MarkUsedType DEF MarkUsed, db, redis
  <2>2. req' \in [Reqs -> TypedRequest]
    <3>1. req[r] \in Request /\ Locals(req[r]) /\ req[r].pc = "markUsed"
      BY <1>24 DEF TypedRequest, MarkUsed, At
    <3> DEFINE q(pc) == [req[r] EXCEPT !.pc = pc]
    <3>2. q("findCred") \in Request
      BY <3>1 DEF Request, Pcs
    <3>3. q("findUser") \in Request
      BY <3>1 DEF Request, Pcs
    <3>4. \/ /\ req' = [req EXCEPT ![r] = q("findCred")]
             /\ req[r].op = "confirmReset"
          \/ req' = [req EXCEPT ![r] = q("findUser")]
      <4>1. req' = [req EXCEPT ![r] = q(AfterConsume[req[r].op])]
        BY <1>24 DEF MarkUsed
      <4>2. req[r].op \in {"confirmReset", "verifyEmail"}
        BY <3>1 DEF Locals, Consumes
      <4>3. /\ AfterConsume["confirmReset"] = "findCred"
            /\ AfterConsume["verifyEmail"] = "findUser"
        BY DEF AfterConsume
      <4> QED
        BY <4>1, <4>2, <4>3
    <3>5. req[r].op = "confirmReset" => Locals(q("findCred"))
      BY <3>1 DEF Locals, Request
    <3>6. Locals(q("findUser"))
      BY <3>1 DEF Locals, Request
    <3> QED
      BY <3>2, <3>3, <3>4, <3>5, <3>6 DEF TypedRequest
  <2>3. \A q \in Reqs : req'[q].link \in Links => Live(links'[req'[q].link])
    <3>1. \A q \in Reqs : req'[q].link = req[q].link
      BY <1>24 DEF MarkUsed, TypedRequest, Request
    <3> QED
      BY <3>1, <1>24, MarkUsedType, LiveRow
  <2>4. known' \subseteq Grants /\ events' \subseteq Event
    BY <1>24 DEF MarkUsed
  <2> QED
    BY <2>1, <2>2, <2>3, <2>4
<1>25. ASSUME NEW r \in Reqs, FindCred(r) PROVE TypeOK'
  <2>1. StoreTypeOK'
    BY <1>25 DEF FindCred, db, redis
  <2>2. req' \in [Reqs -> TypedRequest]
    <3>1. req[r] \in Request /\ Locals(req[r]) /\ req[r].pc = "findCred"
      BY <1>25 DEF TypedRequest, FindCred, At
    <3>2. PICK c \in Opt(Creds) :
            req' = [req EXCEPT ![r].pc = "savePassword", ![r].cred = c]
      BY <1>25, <3>1 DEF FindCred, TypeOK, StoreTypeOK, CredsOf, Opt
    <3> DEFINE q == [req[r] EXCEPT !.pc = "savePassword", !.cred = c]
    <3>3. q \in Request
      <4>1. "savePassword" \in Pcs
        BY DEF Pcs
      <4> QED
        BY <3>1, <4>1 DEF Request
    <3>4. Locals(q)
      BY <3>1 DEF Locals, Request
    <3> QED
      BY <1>25, <3>2, <3>3, <3>4 DEF TypedRequest
  <2>3. \A q \in Reqs : req'[q].link \in Links => Live(links'[req'[q].link])
    BY <1>25 DEF FindCred, End, Idle, At, TypedRequest, Locals
  <2>4. known' \subseteq Grants /\ events' \subseteq Event
    BY <1>25 DEF FindCred
  <2> QED
    BY <2>1, <2>2, <2>3, <2>4
<1>26. ASSUME NEW r \in Reqs, SavePassword(r) PROVE TypeOK'
  <2>1. StoreTypeOK'
    BY <1>26 DEF SavePassword, SaveCredRow, CredRow, At, Fresh, Locals,
           TypedRequest, Request, Opt, db, redis
  <2>2. req' \in [Reqs -> TypedRequest]
    <3>1. req[r] \in Request /\ Locals(req[r]) /\ req[r].pc = "savePassword"
      BY <1>26 DEF TypedRequest, SavePassword, At
    <3> DEFINE q(pc) == [req[r] EXCEPT !.pc = pc]
    <3>2. q("sweep") \in Request
      BY <3>1 DEF Request, Pcs
    <3>3. req' = [req EXCEPT ![r] = q("sweep")]
      BY <1>26 DEF SavePassword
    <3>4. Locals(q("sweep"))
      BY <3>1 DEF Locals, Request
    <3> QED
      BY <3>2, <3>3, <3>4 DEF TypedRequest
  <2>3. \A q \in Reqs : req'[q].link \in Links => Live(links'[req'[q].link])
    BY <1>26 DEF SavePassword, End, Idle, At, TypedRequest, Locals
  <2>4. known' \subseteq Grants /\ events' \subseteq Event
    BY <1>26 DEF SavePassword
  <2> QED
    BY <2>1, <2>2, <2>3, <2>4
<1>27. ASSUME NEW r \in Reqs, FindUser(r) PROVE TypeOK'
  <2>1. StoreTypeOK'
    BY <1>27 DEF FindUser, db, redis
  <2>2. req' \in [Reqs -> TypedRequest]
    <3>1. req[r] \in Request /\ Locals(req[r]) /\ req[r].pc = "findUser"
      BY <1>27 DEF TypedRequest, FindUser, At
    <3>2. users[req[r].user].email \in Emails
      BY <3>1, <1>27 DEF FindUser, UserExists, Live, Locals, UserRow
    <3> DEFINE q == [req[r] EXCEPT !.pc = "saveVerified",
                                  !.email = users[req[r].user].email]
    <3>3. q \in Request
      BY <3>1, <3>2 DEF Request, Pcs, Opt
    <3>4. Locals(q)
      BY <3>1, <3>2 DEF Locals, Request
    <3> QED
      BY <1>27, <3>2, <3>3, <3>4 DEF TypedRequest, FindUser
  <2>3. \A q \in Reqs : req'[q].link \in Links => Live(links'[req'[q].link])
    BY <1>27 DEF FindUser, End, Idle, At, TypedRequest, Locals
  <2>4. known' \subseteq Grants /\ events' \subseteq Event
    BY <1>27 DEF FindUser
  <2> QED
    BY <2>1, <2>2, <2>3, <2>4
<1>28. ASSUME NEW r \in Reqs, SaveVerified(r) PROVE TypeOK'
  <2>1. StoreTypeOK'
    BY <1>28 DEF SaveVerified, SaveUserRow, UserRow, At, Fresh, Locals,
           TypedRequest, db, redis
  <2>2. req' \in [Reqs -> TypedRequest]
    BY <1>28 DEF SaveVerified, Accepts, At, End, Idle, TypedRequest, Request,
           Locals, Opt, Pcs
  <2>3. \A q \in Reqs : req'[q].link \in Links => Live(links'[req'[q].link])
    BY <1>28 DEF SaveVerified, End, Idle, At, TypedRequest, Locals
  <2>4. known' \subseteq Grants /\ events' \subseteq Event
    BY <1>28 DEF SaveVerified
  <2> QED
    BY <2>1, <2>2, <2>3, <2>4
<1>29. ASSUME NEW g \in Grants, Expire(g) PROVE TypeOK'
  BY <1>29 DEF Expire, ExpireAccess, RevokeAccessToken, db
<1>30. ASSUME NEW g \in Grants, ExpireOld(g) PROVE TypeOK'
  BY <1>30 DEF ExpireOld, ExpireRefresh, RevokeRefreshToken, db
<1>31. ASSUME NEW l \in Links, LinkExpires(l) PROVE TypeOK'
  BY <1>31, ExpireLinkType, LiveRow DEF LinkExpires, ExpireLink, db, redis
<1>32. CASE UNCHANGED vars
  BY <1>32 DEF vars, db, redis
<1> QED
  BY <1>1, <1>2, <1>3, <1>4, <1>5, <1>6, <1>7, <1>8, <1>9, <1>10, <1>11,
         <1>12, <1>13, <1>14, <1>15, <1>16, <1>17, <1>18, <1>19, <1>20, <1>21,
         <1>22, <1>23, <1>24, <1>25, <1>26, <1>27, <1>28, <1>29, <1>30, <1>31,
         <1>32 DEF Next, Step

\* No table ever holds a value of the wrong kind, and no handler makes a call
\* with a local it has not set.
THEOREM TypeCorrect == Spec => []TypeOK
<1>1. Init => TypeOK
  BY IdleIsTyped, ServiceAssumption
     DEF Init, TypeOK, StoreInit, StoreTypeOK, Idle
<1> QED
  BY <1>1, TypeStep, PTL DEF Spec

-----------------------------------------------------------------------------
(* Sessions *)

\* The steps that read and write no table.
Asks(r) ==
  \/ Throw(r) \/ RegisterFind(r) \/ LoginFind(r) \/ Compare(r) \/ Emit(r)
  \/ RefreshResolve(r) \/ RefreshFindSession(r) \/ AuthGuard(r) \/ FindOwn(r)
  \/ FindAccount(r) \/ ResetRequest(r) \/ ConsumeFind(r) \/ FindCred(r)
  \/ FindUser(r)

LEMMA AsksWritesNothing ==
  ASSUME NEW r \in Reqs, Asks(r)
  PROVE  UNCHANGED <<db, links, redis>>
<1>1. CASE \/ Throw(r) \/ RegisterFind(r) \/ LoginFind(r) \/ Compare(r)
           \/ Emit(r) \/ RefreshResolve(r) \/ RefreshFindSession(r)
  BY <1>1 DEF Throw, RegisterFind, LoginFind, Compare, Emit, RefreshResolve,
              RefreshFindSession
<1>2. CASE \/ AuthGuard(r) \/ FindOwn(r) \/ FindAccount(r) \/ ResetRequest(r)
           \/ ConsumeFind(r) \/ FindCred(r) \/ FindUser(r)
  BY <1>2 DEF AuthGuard, FindOwn, FindAccount, ResetRequest, ConsumeFind,
              FindCred, FindUser
<1> QED
  BY <1>1, <1>2 DEF Asks

\* The steps that write, whoever takes them.
LEMMA Writers ==
  ASSUME [Next]_vars
  PROVE  \/ UNCHANGED <<db, links, redis>>
         \/ \E r \in Reqs :
              \/ SaveUser(r) \/ SaveCred(r) \/ SaveSession(r) \/ StoreAccess(r)
              \/ StoreRefresh(r) \/ RefreshRevoke(r) \/ LogoutRevoke(r)
              \/ DeleteSession(r) \/ Sweep(r) \/ DeleteUser(r) \/ CreateLink(r)
              \/ MarkUsed(r) \/ SavePassword(r) \/ SaveVerified(r)
         \/ \E g \in Grants : Expire(g) \/ ExpireOld(g)
         \/ \E l \in Links : LinkExpires(l)
<1>1. CASE UNCHANGED vars
  BY <1>1 DEF vars
<1>2. CASE Next
  BY <1>2, AsksWritesNothing DEF Next, Step, Asks
<1> QED
  BY <1>1, <1>2

\* The session table: a row is opened under an unused id, or deleted by a
\* request that works on that session or on its user's.
LEMMA SessionStep ==
  ASSUME TypeOK, [Next]_vars, NEW s \in Sessions
  PROVE  \/ sessions'[s] = sessions[s]
         \/ /\ sessions[s] = Free
            /\ \E r \in Reqs : SaveSession(r) /\ req'[r].sess = s
         \/ /\ sessions'[s] = Gone
            /\ \E r \in Reqs : /\ DeleteSession(r) \/ Sweep(r) \/ DeleteUser(r)
                               /\ \/ req[r].sess = s
                                  \/ s \in SessionsOf(req[r].user)
<1>1. ASSUME NEW r \in Reqs, SaveSession(r)
      PROVE  \/ sessions'[s] = sessions[s]
             \/ sessions[s] = Free /\ req'[r].sess = s
  BY <1>1 DEF SaveSession, SaveSessionRow, Fresh, TypeOK, StoreTypeOK,
         TypedRequest, Request
<1>2. ASSUME NEW r \in Reqs, DeleteSession(r)
      PROVE  \/ sessions'[s] = sessions[s]
             \/ sessions'[s] = Gone /\ req[r].sess = s
  BY <1>2 DEF DeleteSession, DeleteSessions, Delete, TypeOK, StoreTypeOK
<1>3. ASSUME NEW r \in Reqs, Sweep(r)
      PROVE  \/ sessions'[s] = sessions[s]
             \/ sessions'[s] = Gone /\ s \in SessionsOf(req[r].user)
  BY <1>3 DEF Sweep, DeleteSessions, Delete, TypeOK, StoreTypeOK
<1>4. ASSUME NEW r \in Reqs, DeleteUser(r)
      PROVE  \/ sessions'[s] = sessions[s]
             \/ sessions'[s] = Gone /\ s \in SessionsOf(req[r].user)
  BY <1>4 DEF DeleteUser, DeleteUserRow, Delete, TypeOK, StoreTypeOK
<1>5. CASE UNCHANGED sessions
  BY <1>5
<1>6. \/ UNCHANGED sessions
      \/ \E r \in Reqs : \/ SaveSession(r) \/ DeleteSession(r)
                        \/ Sweep(r) \/ DeleteUser(r)
  BY Writers DEF db, SaveUser, SaveCred, StoreAccess, StoreRefresh,
                 RefreshRevoke, LogoutRevoke, CreateLink, MarkUsed,
                 SavePassword, SaveVerified, Expire, ExpireAccess, ExpireOld,
                 ExpireRefresh, LinkExpires, ExpireLink
<1> QED
  BY <1>1, <1>2, <1>3, <1>4, <1>5, <1>6

\* Redis: a token disappears, or is stored for the request's user and session.
LEMMA TokenStep ==
  ASSUME TypeOK, [Next]_vars, NEW g \in Grants
  PROVE  /\ \/ at'[g] \in {at[g], Gone}
            \/ \E r \in Reqs : /\ StoreAccess(r)
                               /\ at'[g] = Token(req[r].user, req[r].sess)
         /\ \/ rt'[g] \in {rt[g], Gone}
            \/ \E r \in Reqs : /\ StoreRefresh(r)
                               /\ rt'[g] = Token(req[r].user, req[r].sess)
<1>1. ASSUME NEW r \in Reqs, StoreAccess(r)
      PROVE  at'[g] \in {at[g], Token(req[r].user, req[r].sess)}
  BY <1>1 DEF StoreAccess, StoreAccessToken, TypeOK, StoreTypeOK
<1>2. ASSUME NEW r \in Reqs, StoreRefresh(r)
      PROVE  rt'[g] \in {rt[g], Token(req[r].user, req[r].sess)}
  BY <1>2 DEF StoreRefresh, StoreRefreshToken, TypeOK, StoreTypeOK
<1>3. \/ at'[g] \in {at[g], Gone}
      \/ \E r \in Reqs : StoreAccess(r)
  <2>1. \/ UNCHANGED at
        \/ \E r \in Reqs : StoreAccess(r) \/ LogoutRevoke(r)
        \/ \E k \in Grants : Expire(k)
    BY Writers DEF redis, SaveUser, SaveCred, SaveSession, StoreRefresh,
                   RefreshRevoke, DeleteSession, Sweep, DeleteUser, CreateLink,
                   MarkUsed, SavePassword, SaveVerified, ExpireOld,
                   ExpireRefresh, LinkExpires, ExpireLink
  <2> QED
    BY <2>1 DEF LogoutRevoke, RevokeAccessToken, Expire, ExpireAccess, Delete,
                TypeOK, StoreTypeOK
<1>4. \/ rt'[g] \in {rt[g], Gone}
      \/ \E r \in Reqs : StoreRefresh(r)
  <2>1. \/ UNCHANGED rt
        \/ \E r \in Reqs : StoreRefresh(r) \/ RefreshRevoke(r)
        \/ \E k \in Grants : ExpireOld(k)
    BY Writers DEF redis, SaveUser, SaveCred, SaveSession, StoreAccess,
                   LogoutRevoke, DeleteSession, Sweep, DeleteUser, CreateLink,
                   MarkUsed, SavePassword, SaveVerified, Expire, ExpireAccess,
                   LinkExpires, ExpireLink
  <2> QED
    BY <2>1 DEF RefreshRevoke, RevokeRefreshToken, ExpireOld, ExpireRefresh,
                Delete, TypeOK, StoreTypeOK
<1> QED
  BY <1>1, <1>2, <1>3, <1>4

\* A step of one request leaves the locals of the others alone.
LEMMA OneMoves ==
  ASSUME TypeOK, NEW r \in Reqs, Step(r), NEW q \in Reqs \ {r}
  PROVE  req'[q] = req[q]
<1> USE DEF TypeOK, End
<1>1. CASE Throw(r) \/ RegisterFind(r) \/ SaveUser(r) \/ SaveCred(r)
  BY <1>1 DEF Throw, RegisterFind, SaveUser, SaveCred
<1>2. CASE LoginFind(r) \/ Compare(r) \/ SaveSession(r) \/ StoreAccess(r)
  BY <1>2 DEF LoginFind, Compare, SaveSession, StoreAccess
<1>3. CASE StoreRefresh(r) \/ Emit(r) \/ RefreshResolve(r) \/
           RefreshFindSession(r)
  BY <1>3 DEF StoreRefresh, Emit, RefreshResolve, RefreshFindSession
<1>4. CASE RefreshRevoke(r) \/ AuthGuard(r) \/ LogoutRevoke(r) \/ FindOwn(r)
  BY <1>4 DEF RefreshRevoke, AuthGuard, LogoutRevoke, FindOwn
<1>5. CASE DeleteSession(r) \/ FindAccount(r) \/ Sweep(r) \/ DeleteUser(r)
  BY <1>5 DEF DeleteSession, FindAccount, Sweep, DeleteUser
<1>6. CASE ResetRequest(r) \/ CreateLink(r) \/ ConsumeFind(r) \/ MarkUsed(r)
  BY <1>6 DEF ResetRequest, CreateLink, ConsumeFind, MarkUsed
<1>7. CASE FindCred(r) \/ SavePassword(r) \/ FindUser(r) \/ SaveVerified(r)
  BY <1>7 DEF FindCred, SavePassword, FindUser, SaveVerified
<1> QED
  BY <1>1, <1>2, <1>3, <1>4, <1>5, <1>6, <1>7 DEF Step

\* Expiry leaves the locals of all alone.
LEMMA OthersStay ==
  ASSUME TypeOK, [Next]_vars
  PROVE  \/ UNCHANGED req
         \/ \E r \in Reqs : Step(r) /\ \A q \in Reqs \ {r} : req'[q] = req[q]
<1>1. \/ \E r \in Reqs : Step(r)
      \/ UNCHANGED req
  BY DEF Next, vars, Expire, ExpireOld, LinkExpires
<1> QED
  BY <1>1, OneMoves

\* A request gets past the check of a session by opening it, or by finding it
\* alive in refresh.
LEMMA CarrierStep ==
  ASSUME TypeOK, [Next]_vars, NEW s \in Sessions, NEW r \in Reqs,
         r \in Carriers(s)'
  PROVE  \/ r \in Carriers(s)
         \/ SaveSession(r) /\ req'[r].sess = s
         \/ RefreshFindSession(r) /\ Live(sessions[s])
<1>1. CASE req'[r] = req[r]
  BY <1>1 DEF Carriers
<1>2. CASE Step(r)
  <2> DEFINE Past == {"revokeOld", "storeAccess", "storeRefresh"}
  <2> USE DEF TypeOK, TypedRequest, Request, At, End, Idle
  <2>1. CASE SaveSession(r)
    BY <2>1 DEF SaveSession, Carriers
  <2>2. CASE StoreAccess(r)
    BY <2>2 DEF StoreAccess, Carriers
  <2>3. CASE RefreshFindSession(r)
    BY <2>3 DEF RefreshFindSession, Carriers
  <2>4. CASE RefreshRevoke(r)
    BY <2>4 DEF RefreshRevoke, Carriers
  <2>5. ASSUME Throw(r) PROVE req'[r].pc \notin Past
    BY <2>5 DEF Throw
  <2>6. ASSUME RegisterFind(r) PROVE req'[r].pc \notin Past
    BY <2>6 DEF RegisterFind
  <2>7. ASSUME SaveUser(r) PROVE req'[r].pc \notin Past
    BY <2>7 DEF SaveUser
  <2>8. ASSUME SaveCred(r) PROVE req'[r].pc \notin Past
    BY <2>8 DEF SaveCred
  <2>9. ASSUME LoginFind(r) PROVE req'[r].pc \notin Past
    BY <2>9 DEF LoginFind
  <2>10. ASSUME Compare(r) PROVE req'[r].pc \notin Past
    BY <2>10 DEF Compare
  <2>11. ASSUME StoreRefresh(r) PROVE req'[r].pc \notin Past
    BY <2>11 DEF StoreRefresh
  <2>12. ASSUME Emit(r) PROVE req'[r].pc \notin Past
    BY <2>12 DEF Emit
  <2>13. ASSUME RefreshResolve(r) PROVE req'[r].pc \notin Past
    BY <2>13 DEF RefreshResolve
  <2>14. ASSUME AuthGuard(r) PROVE req'[r].pc \notin Past
    BY <2>14 DEF AuthGuard, First
  <2>15. ASSUME LogoutRevoke(r) PROVE req'[r].pc \notin Past
    BY <2>15 DEF LogoutRevoke
  <2>16. ASSUME FindOwn(r) PROVE req'[r].pc \notin Past
    BY <2>16 DEF FindOwn
  <2>17. ASSUME DeleteSession(r) PROVE req'[r].pc \notin Past
    BY <2>17 DEF DeleteSession
  <2>18. ASSUME FindAccount(r) PROVE req'[r].pc \notin Past
    BY <2>18 DEF FindAccount
  <2>19. ASSUME Sweep(r) PROVE req'[r].pc \notin Past
    BY <2>19 DEF Sweep
  <2>20. ASSUME DeleteUser(r) PROVE req'[r].pc \notin Past
    BY <2>20 DEF DeleteUser
  <2>21. ASSUME ResetRequest(r) PROVE req'[r].pc \notin Past
    BY <2>21 DEF ResetRequest
  <2>22. ASSUME CreateLink(r) PROVE req'[r].pc \notin Past
    BY <2>22 DEF CreateLink
  <2>23. ASSUME ConsumeFind(r) PROVE req'[r].pc \notin Past
    BY <2>23 DEF ConsumeFind
  <2>24. ASSUME MarkUsed(r) PROVE req'[r].pc \notin Past
    BY <2>24 DEF MarkUsed, AfterConsume, Consumes, Locals
  <2>25. ASSUME FindCred(r) PROVE req'[r].pc \notin Past
    BY <2>25 DEF FindCred
  <2>26. ASSUME SavePassword(r) PROVE req'[r].pc \notin Past
    BY <2>26 DEF SavePassword
  <2>27. ASSUME FindUser(r) PROVE req'[r].pc \notin Past
    BY <2>27 DEF FindUser
  <2>28. ASSUME SaveVerified(r) PROVE req'[r].pc \notin Past
    BY <2>28 DEF SaveVerified
  <2> QED
    BY <1>2, <2>1, <2>2, <2>3, <2>4, <2>5, <2>6, <2>7, <2>8, <2>9, <2>10,
           <2>11,
          <2>12, <2>13, <2>14, <2>15, <2>16, <2>17, <2>18, <2>19, <2>20,
          <2>21, <2>22, <2>23, <2>24, <2>25, <2>26, <2>27, <2>28
       DEF Step, Carriers
<1> QED
  BY <1>1, <1>2, OthersStay

\* A session that is closed, with nobody past its check, stays closed and gets
\* no further token (DELETE of the session row in logout, revokeOne, revokeAll,
\* deleteAccount and confirmReset; the session check of refresh).
THEOREM ClosedSessions == Spec => ClosedForGood
<1>1. ASSUME TypeOK, [Next]_vars, NEW s \in Sessions, Closed(s)
      PROVE  Closed(s)' /\ TokensOf(s)' \subseteq TokensOf(s)
  <2>1. sessions[s] = Gone /\ ~Live(sessions[s]) /\ sessions[s] # Free
    BY <1>1, StoreAssumption DEF Closed, Live
  <2>2. sessions'[s] = Gone
    BY <1>1, <2>1, SessionStep
  <2>3. ASSUME NEW r \in Reqs, SaveSession(r) PROVE req'[r].sess # s
    BY <1>1, <2>1, <2>3 DEF SaveSession, Fresh, TypeOK, TypedRequest, Request
  <2>4. Carriers(s)' = {}
    <3>1. ASSUME NEW r \in Reqs, r \in Carriers(s)' PROVE FALSE
      BY <1>1, <2>1, <2>3, <3>1, CarrierStep DEF Closed
    <3> QED
      BY <3>1 DEF Carriers
  <2>5. ASSUME NEW r \in Reqs, StoreAccess(r) \/ StoreRefresh(r)
        PROVE  req[r].sess # s
    BY <1>1, <2>5 DEF Closed, Carriers, StoreAccess, StoreRefresh, At
  <2>6. ASSUME NEW g \in Grants, Live(at'[g]), at'[g].sessionId = s
        PROVE  Live(at[g]) /\ at[g].sessionId = s
    <3>1. CASE at'[g] = at[g]
      BY <2>6, <3>1
    <3>2. CASE \E r \in Reqs : /\ StoreAccess(r)
                               /\ at'[g] = Token(req[r].user, req[r].sess)
      BY <2>5, <2>6, <3>2 DEF Token
    <3> QED
      BY <1>1, <2>6, <3>1, <3>2, TokenStep DEF Live
  <2>7. ASSUME NEW g \in Grants, Live(rt'[g]), rt'[g].sessionId = s
        PROVE  Live(rt[g]) /\ rt[g].sessionId = s
    <3>1. CASE rt'[g] = rt[g]
      BY <2>7, <3>1
    <3>2. CASE \E r \in Reqs : /\ StoreRefresh(r)
                               /\ rt'[g] = Token(req[r].user, req[r].sess)
      BY <2>5, <2>7, <3>2 DEF Token
    <3> QED
      BY <1>1, <2>7, <3>1, <3>2, TokenStep DEF Live
  <2> QED
    BY <2>2, <2>4, <2>6, <2>7 DEF Closed, TokensOf
<1>2. TypeOK /\ [Next]_vars =>
        [\A s \in Sessions :
           Closed(s) => Closed(s)' /\ TokensOf(s)' \subseteq TokensOf(s)]_vars
  BY <1>1
<1> QED
  BY <1>2, TypeCorrect, PTL DEF Spec, ClosedForGood

\* How a step may change the session that a request works on.
LEMMA WorksOn ==
  ASSUME TypeOK, [Next]_vars, NEW r \in Reqs
  PROVE  \/ req'[r].sess = None
         \/ /\ req'[r].sess = req[r].sess /\ req'[r].user = req[r].user
         \/ req'[r].sess = req[r].sess /\ At(r, "saveUser")
         \/ /\ req'[r].sess \in Sessions
            /\ sessions'[req'[r].sess] = req'[r].user
         \/ /\ sessions' = sessions
            /\ \E g \in Grants :
                 \/ /\ Live(rt[g]) /\ req'[r].sess = rt[g].sessionId
                    /\ req'[r].user = rt[g].userId
                 \/ /\ Live(at[g]) /\ req'[r].sess = at[g].sessionId
                    /\ req'[r].user = at[g].userId
<1>1. CASE req'[r] = req[r]
  BY <1>1
<1>2. CASE Step(r)
  <2> USE DEF TypeOK, TypedRequest, Request, At, End, Idle
  <2>1. CASE SaveSession(r)
    <3>1. PICK s \in Fresh(sessions) :
            /\ sessions' = [sessions EXCEPT ![s] = req[r].user]
            /\ req' = [req EXCEPT ![r].pc = "storeAccess", ![r].sess = s]
      BY <2>1 DEF SaveSession, SaveSessionRow
    <3>2. s \in Sessions
      BY DEF Fresh, StoreTypeOK
    <3>3. req'[r].sess = s /\ req'[r].user = req[r].user
      BY <3>1
    <3> QED
      BY <3>1, <3>2, <3>3 DEF StoreTypeOK
  <2>2. CASE FindOwn(r)
    BY <2>2 DEF FindOwn, SessionsOf, db
  <2>3. CASE RefreshResolve(r)
    BY <2>3 DEF RefreshResolve, db
  <2>4. CASE AuthGuard(r)
    BY <2>4 DEF AuthGuard, db
  <2>5. CASE SaveUser(r)
    BY <2>5 DEF SaveUser
  <2>6. CASE Throw(r)
    BY <2>6 DEF Throw
  <2>7. CASE RegisterFind(r)
    BY <2>7 DEF RegisterFind
  <2>8. CASE SaveCred(r)
    BY <2>8 DEF SaveCred
  <2>9. CASE LoginFind(r)
    BY <2>9 DEF LoginFind
  <2>10. CASE Compare(r)
    BY <2>10 DEF Compare
  <2>11. CASE StoreAccess(r)
    BY <2>11 DEF StoreAccess
  <2>12. CASE StoreRefresh(r)
    BY <2>12 DEF StoreRefresh
  <2>13. CASE Emit(r)
    BY <2>13 DEF Emit
  <2>14. CASE RefreshFindSession(r)
    BY <2>14 DEF RefreshFindSession
  <2>15. CASE RefreshRevoke(r)
    BY <2>15 DEF RefreshRevoke
  <2>16. CASE LogoutRevoke(r)
    BY <2>16 DEF LogoutRevoke
  <2>17. CASE DeleteSession(r)
    BY <2>17 DEF DeleteSession
  <2>18. CASE FindAccount(r)
    BY <2>18 DEF FindAccount
  <2>19. CASE Sweep(r)
    BY <2>19 DEF Sweep
  <2>20. CASE DeleteUser(r)
    BY <2>20 DEF DeleteUser
  <2>21. CASE ResetRequest(r)
    BY <2>21 DEF ResetRequest
  <2>22. CASE CreateLink(r)
    BY <2>22 DEF CreateLink
  <2>23. CASE ConsumeFind(r)
    BY <2>23 DEF ConsumeFind
  <2>24. CASE MarkUsed(r)
    BY <2>24 DEF MarkUsed
  <2>25. CASE FindCred(r)
    BY <2>25 DEF FindCred
  <2>26. CASE SavePassword(r)
    BY <2>26 DEF SavePassword
  <2>27. CASE FindUser(r)
    BY <2>27 DEF FindUser
  <2>28. CASE SaveVerified(r)
    BY <2>28 DEF SaveVerified
  <2> QED
    BY <1>2, <2>1, <2>2, <2>3, <2>4, <2>5, <2>6, <2>7, <2>8, <2>9, <2>10,
           <2>11,
          <2>12, <2>13, <2>14, <2>15, <2>16, <2>17, <2>18, <2>19, <2>20,
          <2>21, <2>22, <2>23, <2>24, <2>25, <2>26, <2>27, <2>28
       DEF Step
<1> QED
  BY <1>1, <1>2, OthersStay

\* A registration has no session before it has a user.
LEMMA SaveUserFirst ==
  ASSUME TypeOK, OwnSession, [Next]_vars, NEW r \in Reqs, At(r, "saveUser")'
  PROVE  req'[r].sess = None
<1>1. CASE req'[r] = req[r]
  BY <1>1 DEF OwnSession, At
<1>2. CASE Step(r)
  <2> USE DEF TypeOK, TypedRequest, Request, At, End, Idle
  <2>1. CASE RegisterFind(r)
    BY <2>1 DEF RegisterFind
  <2>2. ASSUME Throw(r) PROVE req'[r].pc # "saveUser"
    BY <2>2 DEF Throw
  <2>3. ASSUME SaveUser(r) PROVE req'[r].pc # "saveUser"
    BY <2>3 DEF SaveUser
  <2>4. ASSUME SaveCred(r) PROVE req'[r].pc # "saveUser"
    BY <2>4 DEF SaveCred
  <2>5. ASSUME LoginFind(r) PROVE req'[r].pc # "saveUser"
    BY <2>5 DEF LoginFind
  <2>6. ASSUME Compare(r) PROVE req'[r].pc # "saveUser"
    BY <2>6 DEF Compare
  <2>7. ASSUME SaveSession(r) PROVE req'[r].pc # "saveUser"
    BY <2>7 DEF SaveSession
  <2>8. ASSUME StoreAccess(r) PROVE req'[r].pc # "saveUser"
    BY <2>8 DEF StoreAccess
  <2>9. ASSUME StoreRefresh(r) PROVE req'[r].pc # "saveUser"
    BY <2>9 DEF StoreRefresh
  <2>10. ASSUME Emit(r) PROVE req'[r].pc # "saveUser"
    BY <2>10 DEF Emit
  <2>11. ASSUME RefreshResolve(r) PROVE req'[r].pc # "saveUser"
    BY <2>11 DEF RefreshResolve
  <2>12. ASSUME RefreshFindSession(r) PROVE req'[r].pc # "saveUser"
    BY <2>12 DEF RefreshFindSession
  <2>13. ASSUME RefreshRevoke(r) PROVE req'[r].pc # "saveUser"
    BY <2>13 DEF RefreshRevoke
  <2>14. ASSUME AuthGuard(r) PROVE req'[r].pc # "saveUser"
    BY <2>14 DEF AuthGuard, First
  <2>15. ASSUME LogoutRevoke(r) PROVE req'[r].pc # "saveUser"
    BY <2>15 DEF LogoutRevoke
  <2>16. ASSUME FindOwn(r) PROVE req'[r].pc # "saveUser"
    BY <2>16 DEF FindOwn
  <2>17. ASSUME DeleteSession(r) PROVE req'[r].pc # "saveUser"
    BY <2>17 DEF DeleteSession
  <2>18. ASSUME FindAccount(r) PROVE req'[r].pc # "saveUser"
    BY <2>18 DEF FindAccount
  <2>19. ASSUME Sweep(r) PROVE req'[r].pc # "saveUser"
    BY <2>19 DEF Sweep
  <2>20. ASSUME DeleteUser(r) PROVE req'[r].pc # "saveUser"
    BY <2>20 DEF DeleteUser
  <2>21. ASSUME ResetRequest(r) PROVE req'[r].pc # "saveUser"
    BY <2>21 DEF ResetRequest
  <2>22. ASSUME CreateLink(r) PROVE req'[r].pc # "saveUser"
    BY <2>22 DEF CreateLink
  <2>23. ASSUME ConsumeFind(r) PROVE req'[r].pc # "saveUser"
    BY <2>23 DEF ConsumeFind
  <2>24. ASSUME MarkUsed(r) PROVE req'[r].pc # "saveUser"
    BY <2>24 DEF MarkUsed, AfterConsume, Consumes, Locals
  <2>25. ASSUME FindCred(r) PROVE req'[r].pc # "saveUser"
    BY <2>25 DEF FindCred
  <2>26. ASSUME SavePassword(r) PROVE req'[r].pc # "saveUser"
    BY <2>26 DEF SavePassword
  <2>27. ASSUME FindUser(r) PROVE req'[r].pc # "saveUser"
    BY <2>27 DEF FindUser
  <2>28. ASSUME SaveVerified(r) PROVE req'[r].pc # "saveUser"
    BY <2>28 DEF SaveVerified
  <2> QED
    BY <1>2, <2>1, <2>2, <2>3, <2>4, <2>5, <2>6, <2>7, <2>8, <2>9, <2>10,
           <2>11,
          <2>12, <2>13, <2>14, <2>15, <2>16, <2>17, <2>18, <2>19, <2>20,
          <2>21, <2>22, <2>23, <2>24, <2>25, <2>26, <2>27, <2>28
       DEF Step
<1> QED
  BY <1>1, <1>2, OthersStay

\* Tokens and handlers only ever pair a session with its own user.
LEMMA OwnStep == TypeOK /\ OwnSession /\ [Next]_vars => OwnSession'
<1> SUFFICES ASSUME TypeOK, OwnSession, [Next]_vars PROVE OwnSession'
  OBVIOUS
<1> USE DEF OwnSession, TokenOwner
<1>1. ASSUME NEW s \in Sessions, NEW u \in Users, sessions[s] \in {u, Gone}
      PROVE  sessions'[s] \in {u, Gone}
  BY <1>1, SessionStep, StoreAssumption
<1>2. ASSUME NEW r \in Reqs, StoreAccess(r) \/ StoreRefresh(r)
      PROVE  /\ req[r].user \in Users /\ req[r].sess \in Sessions
             /\ sessions[req[r].sess] \in {req[r].user, Gone}
  BY <1>2, ServiceAssumption
     DEF StoreAccess, StoreRefresh, At, TypeOK, TypedRequest, Locals
<1>3. ASSUME NEW g \in Grants, Live(at'[g])
      PROVE  sessions'[at'[g].sessionId] \in {at'[g].userId, Gone}
  <2>1. CASE at'[g] = at[g]
    BY <1>1, <1>3, <2>1 DEF TypeOK, StoreTypeOK, TokenRow, Live
  <2>2. CASE \E r \in Reqs : /\ StoreAccess(r)
                             /\ at'[g] = Token(req[r].user, req[r].sess)
    BY <1>1, <1>2, <2>2 DEF Token
  <2> QED
    BY <1>3, <2>1, <2>2, TokenStep DEF Live
<1>4. ASSUME NEW g \in Grants, Live(rt'[g])
      PROVE  sessions'[rt'[g].sessionId] \in {rt'[g].userId, Gone}
  <2>1. CASE rt'[g] = rt[g]
    BY <1>1, <1>4, <2>1 DEF TypeOK, StoreTypeOK, TokenRow, Live
  <2>2. CASE \E r \in Reqs : /\ StoreRefresh(r)
                             /\ rt'[g] = Token(req[r].user, req[r].sess)
    BY <1>1, <1>2, <2>2 DEF Token
  <2> QED
    BY <1>4, <2>1, <2>2, TokenStep DEF Live
<1>5. ASSUME NEW r \in Reqs, req'[r].sess # None
      PROVE  sessions'[req'[r].sess] \in {req'[r].user, Gone}
  <2>1. CASE req'[r].sess = req[r].sess /\ req'[r].user = req[r].user
    <3>1. req[r].sess \in Sessions /\ req[r].user \in Opt(Users)
      BY <1>5, <2>1 DEF TypeOK, TypedRequest, Request, Opt
    <3>2. sessions[req[r].sess] \in {req[r].user, Gone}
      BY <1>5, <2>1
    <3>3. sessions[req[r].sess] # Free
      BY <3>1, <3>2, StoreAssumption, ServiceAssumption DEF Opt
    <3> QED
      BY <2>1, <3>1, <3>2, <3>3, SessionStep
  <2>2. CASE req'[r].sess = req[r].sess /\ At(r, "saveUser")
    BY <1>5, <2>2
  <2>3. CASE sessions'[req'[r].sess] = req'[r].user
    BY <2>3
  <2>4. CASE /\ sessions' = sessions
             /\ \E g \in Grants :
                 \/ /\ Live(rt[g]) /\ req'[r].sess = rt[g].sessionId
                    /\ req'[r].user = rt[g].userId
                 \/ /\ Live(at[g]) /\ req'[r].sess = at[g].sessionId
                    /\ req'[r].user = at[g].userId
    BY <2>4
  <2> QED
    BY <1>5, <2>1, <2>2, <2>3, <2>4, WorksOn
<1> QED
  BY <1>3, <1>4, <1>5, SaveUserFirst

\* No token and no handler ever pairs a user with somebody else's session.
THEOREM OwnSessions == Spec => []OwnSession
<1>1. Init => OwnSession
  BY StoreAssumption DEF Init, StoreInit, OwnSession, TokenOwner, Live, Idle,
         At
<1> QED
  BY <1>1, OwnStep, TypeCorrect, PTL DEF Spec

\* A session is closed only by a request that acts for its owner.
THEOREM OwnerCloses == Spec => OnlyOwnerCloses
<1>1. ASSUME TypeOK, OwnSession, [Next]_vars, NEW s \in Sessions,
             Live(sessions[s]), sessions'[s] = Gone
      PROVE  \E r \in Reqs : req'[r] # req[r] /\ req[r].user = sessions[s]
  <2>1. PICK r \in Reqs :
          /\ DeleteSession(r) \/ Sweep(r) \/ DeleteUser(r)
          /\ req[r].sess = s \/ s \in SessionsOf(req[r].user)
    BY <1>1, SessionStep DEF Live
  <2>2. req[r].user = sessions[s]
    BY <1>1, <2>1, ServiceAssumption DEF OwnSession, SessionsOf, Live
  <2>3. req'[r].pc # req[r].pc
    BY <1>1, <2>1 DEF DeleteSession, Sweep, DeleteUser, At, End, Idle, TypeOK,
                      TypedRequest, Request
  <2> QED
    BY <2>2, <2>3
<1>2. TypeOK /\ OwnSession /\ [Next]_vars =>
        [\A s \in Sessions :
           Live(sessions[s]) /\ sessions'[s] = Gone
             => \E r \in Reqs : req'[r] # req[r] /\ req[r].user = sessions[s]
        ]_vars
  BY <1>1
<1> QED
  BY <1>2, TypeCorrect, OwnSessions, PTL DEF Spec, OnlyOwnerCloses

-----------------------------------------------------------------------------
(* The handlers of AuthService implement SessionLifecycle: the initial      *)
(* states are initial states of the abstract specification, and every step  *)
(* is one of its steps or changes nothing that it sees.                     *)

\* The requests' calls that use a token they were given.
UsesRefresh == {"findSession", "revokeOld", "revokeDead"}
Permitted   == {"revokeOld", "storeAccess", "storeRefresh"}

\* The steps that neither the sessions nor the tokens nor the abstract state of
\* a request is concerned with.
Quiet(r) ==
  \/ Throw(r)
  \/ RegisterFind(r) \/ SaveUser(r) \/ SaveCred(r)
  \/ LoginFind(r) \/ Compare(r) \/ Emit(r)
  \/ FindOwn(r) \/ FindAccount(r)
  \/ ResetRequest(r) \/ CreateLink(r) \/ ConsumeFind(r) \/ MarkUsed(r)
  \/ FindCred(r) \/ SavePassword(r) \/ FindUser(r) \/ SaveVerified(r)

LEMMA QuietStep ==
  ASSUME TypeOK, NEW r \in Reqs, Quiet(r)
  PROVE  /\ UNCHANGED <<sessions, at, rt>>
         /\ req'[r].pc \notin UsesRefresh \cup Permitted \cup {"revokeAccess"}
<1> USE DEF UsesRefresh, Permitted, At, End, Idle, TypeOK, TypedRequest, Request,
            db, redis
<1>1. CASE Throw(r)
  BY <1>1 DEF Throw
<1>2. CASE RegisterFind(r)
  BY <1>2 DEF RegisterFind
<1>3. CASE SaveUser(r)
  BY <1>3 DEF SaveUser
<1>4. CASE SaveCred(r)
  BY <1>4 DEF SaveCred
<1>5. CASE LoginFind(r)
  BY <1>5 DEF LoginFind
<1>6. CASE Compare(r)
  BY <1>6 DEF Compare
<1>7. CASE Emit(r)
  BY <1>7 DEF Emit
<1>8. CASE FindOwn(r)
  BY <1>8 DEF FindOwn
<1>9. CASE FindAccount(r)
  BY <1>9 DEF FindAccount
<1>10. CASE ResetRequest(r)
  BY <1>10 DEF ResetRequest
<1>11. CASE CreateLink(r)
  BY <1>11 DEF CreateLink
<1>12. CASE ConsumeFind(r)
  BY <1>12 DEF ConsumeFind
<1>13. CASE MarkUsed(r)
  BY <1>13 DEF MarkUsed, AfterConsume, Consumes, Locals
<1>14. CASE FindCred(r)
  BY <1>14 DEF FindCred
<1>15. CASE SavePassword(r)
  BY <1>15 DEF SavePassword
<1>16. CASE FindUser(r)
  BY <1>16 DEF FindUser
<1>17. CASE SaveVerified(r)
  BY <1>17 DEF SaveVerified
<1> QED
  BY <1>1, <1>2, <1>3, <1>4, <1>5, <1>6, <1>7, <1>8, <1>9, <1>10, <1>11,
     <1>12, <1>13, <1>14, <1>15, <1>16, <1>17 DEF Quiet

\* The other steps.
LEMMA StepKinds ==
  ASSUME NEW r \in Reqs, Step(r)
  PROVE  \/ Quiet(r)
         \/ SaveSession(r) \/ StoreAccess(r) \/ StoreRefresh(r)
         \/ RefreshResolve(r) \/ RefreshFindSession(r) \/ RefreshRevoke(r)
         \/ AuthGuard(r) \/ LogoutRevoke(r)
         \/ DeleteSession(r) \/ Sweep(r) \/ DeleteUser(r)
BY DEF Step, Quiet

-----------------------------------------------------------------------------
(* The tokens that the handlers hold.  The abstract specification issues a  *)
(* token once, and revokes only a token that was issued: for this a handler *)
(* must be the only one about to store its refresh token, and must have got *)
(* from Redis the token that it revokes.                                    *)

TokensHeld ==
  /\ \A r \in Reqs :
       /\ At(r, "storeRefresh") => /\ at[req[r].grant] # Free
                                   /\ rt[req[r].grant] = Free
       /\ req[r].pc \in UsesRefresh => rt[req[r].src] # Free
       /\ At(r, "revokeAccess") => at[req[r].src] # Free
  /\ \A q, r \in Reqs :
       At(q, "storeRefresh") /\ At(r, "storeRefresh")
         /\ req[q].grant = req[r].grant => q = r

\* A token in the payload of a request is a row.
LEMMA TokenIsRow ==
  ASSUME TypeOK, NEW r \in Reqs, At(r, "storeAccess") \/ At(r, "storeRefresh")
  PROVE  /\ req[r].user \in Users /\ req[r].sess \in Sessions
         /\ Token(req[r].user, req[r].sess) \in TokenRow
         /\ Token(req[r].user, req[r].sess) \notin {Free, Gone}
<1>1. req[r].user \in Users /\ req[r].sess \in Sessions
  BY DEF At, TypeOK, TypedRequest, Locals
<1>2. Token(req[r].user, req[r].sess) \in TokenRow
  BY <1>1 DEF Token, TokenRow
<1> QED
  BY <1>1, <1>2, StoreAssumption

\* How a request gets to a call that uses a token.
LEMMA UsesStep ==
  ASSUME TypeOK, [Next]_vars, NEW r \in Reqs
  PROVE  /\ At(r, "storeRefresh")' => req'[r] = req[r] \/ StoreAccess(r)
         /\ req'[r].pc \in UsesRefresh =>
              \/ req[r].pc \in UsesRefresh /\ req'[r].src = req[r].src
              \/ RefreshResolve(r)
         /\ At(r, "revokeAccess")' => req'[r] = req[r] \/ AuthGuard(r)
<1>1. CASE req'[r] = req[r]
  BY <1>1 DEF At
<1>2. CASE Step(r)
  <2> USE DEF UsesRefresh, At, End, Idle, TypeOK, TypedRequest, Request
  <2>1. CASE Quiet(r)
    BY <2>1, QuietStep DEF Permitted
  <2>2. CASE SaveSession(r)
    BY <2>2 DEF SaveSession
  <2>3. CASE StoreAccess(r)
    <3>1. PICK g :
            req'[r] = [req[r] EXCEPT !.pc = "storeRefresh", !.grant = g]
      BY <2>3 DEF StoreAccess
    <3>2. req'[r].pc = "storeRefresh" /\ req'[r].src = req[r].src
      BY <3>1
    <3> QED
      BY <2>3, <3>2
  <2>4. CASE StoreRefresh(r)
    BY <2>4 DEF StoreRefresh
  <2>5. CASE RefreshResolve(r)
    BY <2>5 DEF RefreshResolve
  <2>6. CASE RefreshFindSession(r)
    BY <2>6 DEF RefreshFindSession
  <2>7. CASE RefreshRevoke(r)
    BY <2>7 DEF RefreshRevoke
  <2>8. CASE AuthGuard(r)
    <3>1. req'[r].pc \notin UsesRefresh \cup {"storeRefresh"}
      BY <2>8 DEF AuthGuard, First
    <3> QED
      BY <2>8, <3>1
  <2>9. CASE LogoutRevoke(r)
    BY <2>9 DEF LogoutRevoke
  <2>10. CASE DeleteSession(r)
    BY <2>10 DEF DeleteSession
  <2>11. CASE Sweep(r)
    BY <2>11 DEF Sweep
  <2>12. CASE DeleteUser(r)
    BY <2>12 DEF DeleteUser
  <2> QED
    BY <1>2, <2>1, <2>2, <2>3, <2>4, <2>5, <2>6, <2>7, <2>8, <2>9, <2>10,
       <2>11, <2>12, StepKinds
<1> QED
  BY <1>1, <1>2, OthersStay

\* A token that was stored is never free again, and a free refresh token is
\* taken by the request that holds it.
LEMMA TokenKept ==
  ASSUME TypeOK, TokensHeld, [Next]_vars, NEW g \in Grants
  PROVE  /\ at[g] # Free => at'[g] # Free
         /\ rt[g] # Free => rt'[g] # Free
         /\ rt[g] = Free => \/ rt'[g] = Free
                            \/ \E r \in Reqs : /\ StoreRefresh(r)
                                               /\ req[r].grant = g
<1>1. \A r \in Reqs : StoreAccess(r) \/ StoreRefresh(r) =>
        Token(req[r].user, req[r].sess) \notin {Free, Gone}
  BY TokenIsRow DEF StoreAccess, StoreRefresh
<1>2. (at[g] # Free => at'[g] # Free) /\ (rt[g] # Free => rt'[g] # Free)
  BY <1>1, TokenStep, StoreAssumption
<1>3. ASSUME rt[g] = Free, NEW r \in Reqs, StoreRefresh(r)
      PROVE  rt'[g] = Free \/ req[r].grant = g
  BY <1>3 DEF StoreRefresh, StoreRefreshToken, TypeOK, StoreTypeOK
<1>4. ASSUME rt[g] = Free, NEW r \in Reqs, RefreshRevoke(r)
      PROVE  rt'[g] = Free
  <2>1. rt[req[r].src] # Free
    BY <1>4 DEF RefreshRevoke, TokensHeld, UsesRefresh
  <2> QED
    BY <1>4, <2>1 DEF RefreshRevoke, RevokeRefreshToken, Delete, TypeOK,
                      StoreTypeOK
<1>5. ASSUME rt[g] = Free, NEW h \in Grants, ExpireOld(h)
      PROVE  rt'[g] = Free
  BY <1>5 DEF ExpireOld, ExpireRefresh, Live, RevokeRefreshToken, Delete,
              TypeOK, StoreTypeOK
<1>6. ASSUME NEW r \in Reqs, Step(r)
      PROVE  UNCHANGED rt \/ StoreRefresh(r) \/ RefreshRevoke(r)
  BY <1>6, StepKinds, QuietStep
     DEF redis, SaveSession, StoreAccess, RefreshResolve, RefreshFindSession,
         AuthGuard, LogoutRevoke, DeleteSession, Sweep, DeleteUser
<1>7. ASSUME NEW h \in Grants, Expire(h) PROVE UNCHANGED rt
  BY <1>7 DEF Expire, ExpireAccess
<1>8. ASSUME NEW l \in Links, LinkExpires(l) PROVE UNCHANGED rt
  BY <1>8 DEF LinkExpires, ExpireLink, redis
<1>9. UNCHANGED vars => UNCHANGED rt
  BY DEF vars, redis
<1> QED
  BY <1>2, <1>3, <1>4, <1>5, <1>6, <1>7, <1>8, <1>9 DEF Next

LEMMA TokensHeldStep == TypeOK /\ TokensHeld /\ [Next]_vars => TokensHeld'
<1> SUFFICES ASSUME TypeOK, TokensHeld, [Next]_vars PROVE TokensHeld'
  OBVIOUS
<1>1. ASSUME NEW r \in Reqs, StoreAccess(r)
      PROVE  /\ req'[r].grant \in Grants
             /\ at[req'[r].grant] = Free /\ at'[req'[r].grant] # Free
             /\ rt'[req'[r].grant] = Free
             /\ At(r, "storeAccess")
  <2>1. PICK g \in FreshGrants :
          /\ StoreAccessToken(g, req[r].user, req[r].sess)
          /\ req' = [req EXCEPT ![r].pc = "storeRefresh", ![r].grant = g]
          /\ UNCHANGED rt /\ At(r, "storeAccess")
    BY <1>1 DEF StoreAccess
  <2>2. g \in Grants /\ at[g] = Free /\ rt[g] = Free
    BY DEF FreshGrants, Fresh, TypeOK, StoreTypeOK
  <2>3. req'[r].grant = g
    BY <2>1 DEF TypeOK, TypedRequest, Request
  <2> QED
    BY <2>1, <2>2, <2>3, TokenIsRow DEF StoreAccessToken, TypeOK, StoreTypeOK
<1>2. ASSUME NEW r \in Reqs, At(r, "storeRefresh")'
      PROVE  at'[req'[r].grant] # Free /\ rt'[req'[r].grant] = Free
  <2>1. CASE StoreAccess(r)
    BY <1>1, <2>1
  <2>2. CASE req'[r] = req[r]
    <3>1. /\ At(r, "storeRefresh") /\ req[r].grant \in Grants
          /\ at[req[r].grant] # Free /\ rt[req[r].grant] = Free
      BY <1>2, <2>2 DEF At, TokensHeld, TypeOK, TypedRequest, Locals
    <3>2. ~StoreRefresh(r)
      BY <1>2 DEF StoreRefresh, At, End, Idle, TypeOK, TypedRequest, Request
    <3>3. ASSUME NEW q \in Reqs, StoreRefresh(q)
          PROVE  req[q].grant # req[r].grant
      BY <3>1, <3>2, <3>3 DEF TokensHeld, StoreRefresh
    <3> QED
      BY <2>2, <3>1, <3>3, TokenKept
  <2> QED
    BY <1>2, <2>1, <2>2, UsesStep
<1>3. ASSUME NEW r \in Reqs, req'[r].pc \in UsesRefresh
      PROVE  rt'[req'[r].src] # Free
  <2>1. CASE req[r].pc \in UsesRefresh /\ req'[r].src = req[r].src
    <3>1. req[r].src \in Grants
      BY <2>1 DEF UsesRefresh, TypeOK, TypedRequest, Locals
    <3> QED
      BY <2>1, <3>1, TokenKept DEF TokensHeld
  <2>2. CASE RefreshResolve(r)
    BY <2>2 DEF RefreshResolve, redis, Live, TypeOK, TypedRequest, Request, Idle
  <2> QED
    BY <1>3, <2>1, <2>2, UsesStep
<1>4. ASSUME NEW r \in Reqs, At(r, "revokeAccess")'
      PROVE  at'[req'[r].src] # Free
  <2>1. CASE req'[r] = req[r]
    <3>1. At(r, "revokeAccess") /\ req[r].src \in Grants
      BY <1>4, <2>1 DEF At, TypeOK, TypedRequest, Locals
    <3> QED
      BY <2>1, <3>1, TokenKept DEF TokensHeld
  <2>2. CASE AuthGuard(r)
    BY <2>2 DEF AuthGuard, redis, Live, TypeOK, TypedRequest, Request, Idle
  <2> QED
    BY <1>4, <2>1, <2>2, UsesStep
<1>5. ASSUME NEW q \in Reqs, NEW r \in Reqs, q # r, At(q, "storeRefresh")',
             At(r, "storeRefresh")'
      PROVE  req'[q].grant # req'[r].grant
  <2>1. CASE req'[q] = req[q] /\ req'[r] = req[r]
    BY <1>5, <2>1 DEF TokensHeld, At
  <2>2. CASE StoreAccess(r)
    <3>1. req'[q] = req[q]
      BY <1>5, <2>2, OneMoves DEF Step
    <3>2. at[req[q].grant] # Free
      BY <1>5, <3>1 DEF TokensHeld, At
    <3> QED
      BY <1>1, <2>2, <3>1, <3>2
  <2>3. CASE StoreAccess(q)
    <3>1. req'[r] = req[r]
      BY <1>5, <2>3, OneMoves DEF Step
    <3>2. at[req[r].grant] # Free
      BY <1>5, <3>1 DEF TokensHeld, At
    <3> QED
      BY <1>1, <2>3, <3>1, <3>2
  <2> QED
    BY <1>5, <2>1, <2>2, <2>3, UsesStep
<1> QED
  BY <1>2, <1>3, <1>4, <1>5 DEF TokensHeld, At

-----------------------------------------------------------------------------
(* The refinement mapping. *)

\* A quiet step is at most the end of a request.
LEMMA QuietMaps ==
  ASSUME TypeOK, NEW r \in Reqs, Quiet(r)
  PROVE  Lifecycle!GiveUp(r)
<1>1. \A q \in Reqs \ {r} : req'[q] = req[q]
  BY OneMoves DEF Quiet, Step
<1>2. UNCHANGED <<sessions, Issued>>
  BY QuietStep DEF Issued
<1>3. Permit' = [Permit EXCEPT ![r] = None]
  BY <1>1, QuietStep DEF Permit, Permitted
<1> QED
  BY <1>2, <1>3 DEF Lifecycle!GiveUp

\* One token is stored or revoked, and the others stay.
LEMMA AccessIssued ==
  ASSUME NEW g \in Grants, NEW x, at'[g] = x, UNCHANGED rt,
         \A h \in Grants \ {g} : at'[h] = at[h]
  PROVE  Issued' = [Issued EXCEPT ![<<"at", g>>] = x]
<1>1. ASSUME NEW t \in AllTokens
      PROVE  Issued'[t] = [Issued EXCEPT ![<<"at", g>>] = x][t]
  <2>1. PICK w \in {"at", "rt"}, h \in Grants : t = <<w, h>>
    BY DEF AllTokens
  <2>2. /\ Issued'[t] = IF w = "at" THEN at'[h] ELSE rt'[h]
        /\ Issued[t] = IF w = "at" THEN at[h] ELSE rt[h]
    BY <2>1 DEF Issued
  <2>3. CASE w = "at" /\ h = g
    BY <2>1, <2>2, <2>3 DEF Issued
  <2>4. CASE w = "at" /\ h # g
    BY <2>1, <2>2, <2>4 DEF Issued
  <2>5. CASE w # "at"
    BY <2>1, <2>2, <2>5 DEF Issued
  <2> QED
    BY <2>1, <2>3, <2>4, <2>5
<1> QED
  BY <1>1 DEF Issued

LEMMA RefreshIssued ==
  ASSUME NEW g \in Grants, NEW x, rt'[g] = x, UNCHANGED at,
         \A h \in Grants \ {g} : rt'[h] = rt[h]
  PROVE  Issued' = [Issued EXCEPT ![<<"rt", g>>] = x]
<1>1. ASSUME NEW t \in AllTokens
      PROVE  Issued'[t] = [Issued EXCEPT ![<<"rt", g>>] = x][t]
  <2>1. PICK w \in {"at", "rt"}, h \in Grants : t = <<w, h>>
    BY DEF AllTokens
  <2>2. /\ Issued'[t] = IF w = "at" THEN at'[h] ELSE rt'[h]
        /\ Issued[t] = IF w = "at" THEN at[h] ELSE rt[h]
    BY <2>1 DEF Issued
  <2>3. CASE w = "rt" /\ h = g
    BY <2>1, <2>2, <2>3 DEF Issued
  <2>4. CASE w = "rt" /\ h # g
    BY <2>1, <2>2, <2>4 DEF Issued
  <2>5. CASE w # "rt"
    BY <2>1, <2>2, <2>5 DEF Issued
  <2> QED
    BY <2>1, <2>3, <2>4, <2>5
<1> QED
  BY <1>1 DEF Issued

\* What the abstract state is at a request whose pc is known.
LEMMA PermitAt ==
  ASSUME TypeOK, NEW r \in Reqs
  PROVE  /\ req[r].pc \in Permitted =>
              /\ req[r].user \in Users /\ req[r].sess \in Sessions
              /\ Permit[r] = Token(req[r].user, req[r].sess)
              /\ Permit[r] # None
         /\ req[r].pc \notin Permitted => Permit[r] = None
<1>1. ASSUME req[r].pc \in Permitted
      PROVE  req[r].user \in Users /\ req[r].sess \in Sessions
  BY <1>1 DEF Permitted, TypeOK, TypedRequest, Locals
<1>2. Permit[r] = IF req[r].pc \in Permitted
                    THEN Token(req[r].user, req[r].sess) ELSE None
  BY DEF Permit, Permitted
<1>3. ASSUME req[r].pc \in Permitted
      PROVE  Token(req[r].user, req[r].sess) # None
  BY <1>1, <1>3, ServiceAssumption DEF Token, TokenRow
<1> QED
  BY <1>1, <1>2, <1>3

\* Every step of a request is a step of the abstract specification.
LEMMA StepMaps ==
  ASSUME TypeOK, OwnSession, TokensHeld, NEW r \in Reqs, Step(r)
  PROVE  [Lifecycle!Next]_Lifecycle!vars
<1> USE DEF Lifecycle!Next
<1>1. \A q \in Reqs \ {r} : req'[q] = req[q]
  BY OneMoves
<1>2. ASSUME NEW x, req'[r].pc \in Permitted => x = Token(req'[r].user, req'[r].sess),
             req'[r].pc \notin Permitted => x = None
      PROVE  Permit' = [Permit EXCEPT ![r] = x]
  BY <1>1, <1>2 DEF Permit, Permitted
<1>3. CASE Quiet(r)
  BY <1>3, QuietMaps
<1>4. CASE SaveSession(r)
  <2>1. PICK s \in Fresh(sessions) :
          /\ sessions' = [sessions EXCEPT ![s] = req[r].user]
          /\ req' = [req EXCEPT ![r].pc = "storeAccess", ![r].sess = s]
    BY <1>4 DEF SaveSession, SaveSessionRow
  <2>2. s \in Sessions /\ sessions[s] = Free
    BY DEF Fresh, TypeOK, StoreTypeOK
  <2>3. req[r].user \in Users /\ Permit[r] = None
    BY <1>4, PermitAt
       DEF SaveSession, At, Permitted, TypeOK, TypedRequest, Locals
  <2>4. /\ req'[r].pc = "storeAccess" /\ req'[r].sess = s
        /\ req'[r].user = req[r].user
    BY <2>1 DEF TypeOK, TypedRequest, Request
  <2>5. Permit' = [Permit EXCEPT ![r] = Token(req[r].user, s)]
    BY <1>2, <2>4 DEF Permitted
  <2>6. UNCHANGED Issued
    BY <1>4 DEF SaveSession, redis, Issued
  <2>7. Lifecycle!Open(r)
    BY <2>1, <2>2, <2>3, <2>5, <2>6
       DEF Lifecycle!Open, Lifecycle!Payload, Token
  <2> QED
    BY <2>7
<1>5. CASE StoreAccess(r)
  <2>1. PICK g \in FreshGrants :
          /\ at' = [at EXCEPT ![g] = Token(req[r].user, req[r].sess)]
          /\ req' = [req EXCEPT ![r].pc = "storeRefresh", ![r].grant = g]
    BY <1>5 DEF StoreAccess, StoreAccessToken
  <2>2. g \in Grants /\ at[g] = Free
    BY DEF FreshGrants, Fresh, TypeOK, StoreTypeOK
  <2>3. /\ req[r].pc = "storeAccess" /\ UNCHANGED <<sessions, rt>>
    BY <1>5 DEF StoreAccess, At, db
  <2>4. /\ Permit[r] = Token(req[r].user, req[r].sess)
        /\ Permit[r] # None
    BY <2>3, PermitAt DEF Permitted
  <2>5. Permit' = Permit
    <3>1. /\ req'[r].pc = "storeRefresh" /\ req'[r].user = req[r].user
          /\ req'[r].sess = req[r].sess
      BY <2>1 DEF TypeOK, TypedRequest, Request
    <3> QED
      BY <1>1, <2>3, <3>1 DEF Permit
  <2>6. <<"at", g>> \in AllTokens /\ Issued[<<"at", g>>] = Free
    BY <2>2 DEF AllTokens, Issued
  <2>7. Issued' = [Issued EXCEPT ![<<"at", g>>] = Permit[r]]
    BY <2>1, <2>2, <2>3, <2>4, AccessIssued DEF TypeOK, StoreTypeOK
  <2>8. Lifecycle!Issue(r)
    BY <2>3, <2>4, <2>5, <2>6, <2>7 DEF Lifecycle!Issue
  <2> QED
    BY <2>8
<1>6. CASE StoreRefresh(r)
  <2> DEFINE g == req[r].grant
  <2>1. /\ rt' = [rt EXCEPT ![g] = Token(req[r].user, req[r].sess)]
        /\ req[r].pc = "storeRefresh" /\ UNCHANGED <<sessions, at>>
    BY <1>6 DEF StoreRefresh, StoreRefreshToken, At, db
  <2>2. g \in Grants /\ rt[g] = Free
    BY <2>1 DEF TokensHeld, At, TypeOK, TypedRequest, Locals
  <2>3. /\ Permit[r] = Token(req[r].user, req[r].sess)
        /\ Permit[r] # None
    BY <2>1, PermitAt DEF Permitted
  <2>4. Permit' = [Permit EXCEPT ![r] = None]
    <3>1. req'[r].pc \in {"idle", "createLink", "emit"}
      BY <1>6 DEF StoreRefresh, End, Idle, TypeOK, TypedRequest, Request
    <3> QED
      BY <1>2, <3>1 DEF Permitted
  <2>5. <<"rt", g>> \in AllTokens /\ Issued[<<"rt", g>>] = Free
    BY <2>2 DEF AllTokens, Issued
  <2>6. Issued' = [Issued EXCEPT ![<<"rt", g>>] = Permit[r]]
    BY <2>1, <2>2, <2>3, RefreshIssued DEF TypeOK, StoreTypeOK
  <2>7. Lifecycle!Issue(r)
    BY <2>1, <2>3, <2>4, <2>5, <2>6 DEF Lifecycle!Issue
  <2> QED
    BY <2>7
<1>7. CASE RefreshResolve(r) \/ AuthGuard(r)
  <2>1. UNCHANGED <<sessions, Issued>>
    BY <1>7 DEF RefreshResolve, AuthGuard, db, redis, Issued
  <2>2. req'[r].pc \notin Permitted
    <3>1. CASE RefreshResolve(r)
      BY <3>1 DEF RefreshResolve, Permitted, Idle, TypeOK
    <3>2. CASE AuthGuard(r)
      BY <3>2 DEF AuthGuard, First, Permitted, Idle, TypeOK
    <3> QED
      BY <1>7, <3>1, <3>2
  <2>3. Permit' = [Permit EXCEPT ![r] = None]
    BY <1>2, <2>2
  <2>4. Lifecycle!GiveUp(r)
    BY <2>1, <2>3 DEF Lifecycle!GiveUp
  <2> QED
    BY <2>4
<1>8. CASE RefreshFindSession(r)
  <2> DEFINE s == req[r].sess
             u == req[r].user
  <2>1. UNCHANGED <<sessions, Issued>>
    BY <1>8 DEF RefreshFindSession, db, redis, Issued
  <2>2. req[r].pc = "findSession" /\ u \in Users /\ s \in Sessions
    BY <1>8 DEF RefreshFindSession, At, TypeOK, TypedRequest, Locals
  <2>3. req'[r].user = u /\ req'[r].sess = s
    BY <1>8 DEF RefreshFindSession, TypeOK, TypedRequest, Request
  <2>4. CASE Live(sessions[s])
    <3>1. sessions[s] = u
      BY <2>2, <2>4, ServiceAssumption DEF OwnSession, Live
    <3>2. req'[r].pc = "revokeOld"
      BY <1>8, <2>4 DEF RefreshFindSession, TypeOK, TypedRequest, Request
    <3>3. Permit' = [Permit EXCEPT ![r] = Token(u, s)]
      BY <1>2, <2>3, <3>2 DEF Permitted
    <3>4. Permit[r] = None
      BY <2>2, PermitAt DEF Permitted
    <3>5. Lifecycle!Renew(r)
      BY <2>1, <2>2, <3>1, <3>3, <3>4
         DEF Lifecycle!Renew, Lifecycle!Payload, Token
    <3> QED
      BY <3>5
  <2>5. CASE ~Live(sessions[s])
    <3>1. req'[r].pc = "revokeDead"
      BY <1>8, <2>5 DEF RefreshFindSession, TypeOK, TypedRequest, Request
    <3>2. Permit' = [Permit EXCEPT ![r] = None]
      BY <1>2, <3>1 DEF Permitted
    <3>3. Lifecycle!GiveUp(r)
      BY <2>1, <3>2 DEF Lifecycle!GiveUp
    <3> QED
      BY <3>3
  <2> QED
    BY <2>4, <2>5
<1>9. CASE RefreshRevoke(r)
  <2> DEFINE g == req[r].src
  <2>1. /\ rt' = Delete(rt, {g}) /\ UNCHANGED <<sessions, at>>
        /\ req[r].pc \in {"revokeOld", "revokeDead"}
    BY <1>9 DEF RefreshRevoke, RevokeRefreshToken, db
  <2>2. g \in Grants /\ rt[g] # Free
    BY <2>1 DEF TokensHeld, UsesRefresh, TypeOK, TypedRequest, Locals
  <2>3. Permit' = Permit
    <3>1. CASE req[r].pc = "revokeOld"
      <4>1. /\ req'[r].pc = "storeAccess" /\ req'[r].user = req[r].user
            /\ req'[r].sess = req[r].sess
        BY <1>9, <3>1 DEF RefreshRevoke, At, TypeOK, TypedRequest, Request
      <4> QED
        BY <1>1, <3>1, <4>1 DEF Permit
    <3>2. CASE req[r].pc = "revokeDead"
      <4>1. req'[r].pc = "idle"
        BY <1>9, <3>2 DEF RefreshRevoke, At, End, Idle, TypeOK
      <4> QED
        BY <1>1, <3>2, <4>1 DEF Permit
    <3> QED
      BY <2>1, <3>1, <3>2
  <2>4. <<"rt", g>> \in AllTokens /\ Issued[<<"rt", g>>] # Free
    BY <2>2 DEF AllTokens, Issued
  <2>5. Issued' = [Issued EXCEPT ![<<"rt", g>>] = Gone]
    BY <2>1, <2>2, RefreshIssued DEF Delete, TypeOK, StoreTypeOK
  <2>6. Lifecycle!Lapse
    BY <2>1, <2>3, <2>4, <2>5 DEF Lifecycle!Lapse
  <2> QED
    BY <2>6
<1>10. CASE LogoutRevoke(r)
  <2> DEFINE g == req[r].src
  <2>1. /\ at' = Delete(at, {g}) /\ UNCHANGED <<sessions, rt>>
        /\ req[r].pc = "revokeAccess" /\ req'[r].pc = "deleteSession"
    BY <1>10 DEF LogoutRevoke, RevokeAccessToken, db, At, TypeOK, TypedRequest,
                 Request
  <2>2. g \in Grants /\ at[g] # Free
    BY <2>1 DEF TokensHeld, At, TypeOK, TypedRequest, Locals
  <2>3. Permit' = Permit
    BY <1>1, <2>1 DEF Permit
  <2>4. <<"at", g>> \in AllTokens /\ Issued[<<"at", g>>] # Free
    BY <2>2 DEF AllTokens, Issued
  <2>5. Issued' = [Issued EXCEPT ![<<"at", g>>] = Gone]
    BY <2>1, <2>2, AccessIssued DEF Delete, TypeOK, StoreTypeOK
  <2>6. Lifecycle!Lapse
    BY <2>1, <2>3, <2>4, <2>5 DEF Lifecycle!Lapse
  <2> QED
    BY <2>6
<1>11. CASE DeleteSession(r) \/ Sweep(r) \/ DeleteUser(r)
  <2> DEFINE u == req[r].user
             Own == SessionsOf(u) \cup
                      (IF At(r, "deleteSession") THEN {req[r].sess} ELSE {})
  <2>1. req[r].pc \in {"deleteSession", "sweep", "deleteUser"}
    BY <1>11 DEF DeleteSession, Sweep, DeleteUser, At
  <2>2. u \in Users
    BY <2>1 DEF TypeOK, TypedRequest, Locals
  <2>3. UNCHANGED Issued
    BY <1>11 DEF DeleteSession, Sweep, DeleteUser, redis, Issued
  <2>4. Permit' = Permit
    <3>1. req'[r].pc \in {"idle", "deleteUser"}
      BY <1>11 DEF DeleteSession, Sweep, DeleteUser, End, Idle, TypeOK,
                   TypedRequest, Request
    <3> QED
      BY <1>1, <2>1, <3>1 DEF Permit
  <2>5. PICK S \in SUBSET Sessions :
          /\ \/ S = {req[r].sess} /\ At(r, "deleteSession")
             \/ S = SessionsOf(u)
          /\ sessions' = Delete(sessions, S)
    <3>1. CASE DeleteSession(r)
      <4>1. req[r].sess \in Sessions
        BY <3>1 DEF DeleteSession, At, TypeOK, TypedRequest, Locals
      <4> QED
        BY <3>1, <4>1 DEF DeleteSession, DeleteSessions
    <3>2. CASE Sweep(r) \/ DeleteUser(r)
      BY <3>2 DEF Sweep, DeleteUser, DeleteSessions, DeleteUserRow, SessionsOf
    <3> QED
      BY <1>11, <3>1, <3>2
  <2>6. \A s \in S : sessions[s] \in {u, Gone}
    BY <2>5, ServiceAssumption DEF SessionsOf, OwnSession, At
  <2>7. sessions' = [s \in Sessions |-> IF s \in S THEN Gone ELSE sessions[s]]
    BY <2>5 DEF Delete, TypeOK, StoreTypeOK
  <2>8. Lifecycle!Close
    BY <2>2, <2>3, <2>4, <2>6, <2>7 DEF Lifecycle!Close
  <2> QED
    BY <2>8
<1> QED
  BY <1>3, <1>4, <1>5, <1>6, <1>7, <1>8, <1>9, <1>10, <1>11, StepKinds

\* So is the end of a token's lifetime; that of a link is not seen.
LEMMA ExpiryMaps ==
  ASSUME TypeOK,
         \/ \E g \in Grants : Expire(g) \/ ExpireOld(g)
         \/ \E l \in Links : LinkExpires(l)
  PROVE  [Lifecycle!Next]_Lifecycle!vars
<1> USE DEF Lifecycle!Next
<1>1. UNCHANGED Permit
  BY DEF Expire, ExpireOld, LinkExpires, Permit
<1>2. ASSUME NEW g \in Grants, Expire(g) PROVE Lifecycle!Lapse
  <2>1. Live(at[g]) /\ at' = Delete(at, {g}) /\ UNCHANGED <<sessions, rt>>
    BY <1>2 DEF Expire, ExpireAccess, RevokeAccessToken, db
  <2>2. <<"at", g>> \in AllTokens /\ Issued[<<"at", g>>] # Free
    BY <2>1 DEF AllTokens, Issued, Live
  <2>3. Issued' = [Issued EXCEPT ![<<"at", g>>] = Gone]
    BY <2>1, AccessIssued DEF Delete, TypeOK, StoreTypeOK
  <2> QED
    BY <1>1, <2>1, <2>2, <2>3 DEF Lifecycle!Lapse
<1>3. ASSUME NEW g \in Grants, ExpireOld(g) PROVE Lifecycle!Lapse
  <2>1. Live(rt[g]) /\ rt' = Delete(rt, {g}) /\ UNCHANGED <<sessions, at>>
    BY <1>3 DEF ExpireOld, ExpireRefresh, RevokeRefreshToken, db
  <2>2. <<"rt", g>> \in AllTokens /\ Issued[<<"rt", g>>] # Free
    BY <2>1 DEF AllTokens, Issued, Live
  <2>3. Issued' = [Issued EXCEPT ![<<"rt", g>>] = Gone]
    BY <2>1, RefreshIssued DEF Delete, TypeOK, StoreTypeOK
  <2> QED
    BY <1>1, <2>1, <2>2, <2>3 DEF Lifecycle!Lapse
<1>4. ASSUME NEW l \in Links, LinkExpires(l) PROVE UNCHANGED Lifecycle!vars
  BY <1>1, <1>4
     DEF LinkExpires, ExpireLink, db, redis, Issued, Lifecycle!vars
<1> QED
  BY <1>2, <1>3, <1>4

LEMMA NextMaps ==
  TypeOK /\ OwnSession /\ TokensHeld /\ [Next]_vars
    => [Lifecycle!Next]_Lifecycle!vars
<1> SUFFICES ASSUME TypeOK, OwnSession, TokensHeld, [Next]_vars
             PROVE  [Lifecycle!Next]_Lifecycle!vars
  OBVIOUS
<1>1. CASE UNCHANGED vars
  BY <1>1 DEF vars, db, redis, Lifecycle!vars, Issued, Permit
<1> QED
  BY <1>1, StepMaps, ExpiryMaps DEF Next

LEMMA InitMaps == Init => TokensHeld /\ Lifecycle!Init
<1> SUFFICES ASSUME Init PROVE TokensHeld /\ Lifecycle!Init
  OBVIOUS
<1>1. \A r \in Reqs : req[r].pc = "idle"
  BY DEF Init, Idle
<1>2. TokensHeld
  BY <1>1 DEF TokensHeld, At, UsesRefresh
<1>3. Permit = [r \in Reqs |-> None]
  BY <1>1 DEF Permit
<1>4. Issued = [t \in AllTokens |-> Free]
  BY DEF Init, StoreInit, Issued, AllTokens
<1> QED
  BY <1>2, <1>3, <1>4 DEF Init, StoreInit, Lifecycle!Init

\* Whatever handlers are served and however their calls interleave and fail, a
\* session is opened once and closed once, and a token is issued once, by a
\* request that opened its session or found it open, for the session's owner.
THEOREM Implements == Spec => KeepsLifecycle
<1>1. TypeOK /\ OwnSession /\ TokensHeld /\ [Next]_vars => TokensHeld'
  BY TokensHeldStep
<1> QED
  BY <1>1, InitMaps, NextMaps, TypeCorrect, OwnSessions, PTL
     DEF Spec, KeepsLifecycle, Lifecycle!Spec
=============================================================================

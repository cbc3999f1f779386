---------------------------- MODULE AuthService ----------------------------
(***************************************************************************)
(* The request handlers of auth.service.ts and sessions.service.ts behind  *)
(* the bearer guard of auth.guard.ts.  Node runs a handler without         *)
(* interruption from one await to the next, and several requests (of one   *)
(* process or of several) are interleaved at the awaits.  A step of the    *)
(* model is therefore one awaited call together with the local computation *)
(* that follows it; req[r] holds the handler's local variables and the     *)
(* call it will make next.                                                 *)
(*                                                                         *)
(* Audit rows are log lines and are left out, and so are the read-only     *)
(* endpoints.  A mailed link is usable as soon as its row exists: mail     *)
(* that is lost is a link nobody consumes.                                 *)
(***************************************************************************)
EXTENDS AuthStore

CONSTANTS Reqs,    \* requests in flight at one time
          Ops,     \* the handlers this instance serves
          None

VARIABLES req,     \* the handler's state, per request
          known,   \* the token pairs that a response has carried to a client
          events   \* the domain events published by eventsService.emit

vars == <<db, links, redis, req, known, events>>

\* The handlers behind the bearer guard, with their first call.
First == [logout |-> "revokeAccess", revokeOne |-> "findOwn",
          revokeAll |-> "sweep", deleteAccount |-> "findAccount"]
\* The handlers that consume a one-time link: the kind, and the next call.
Consumes == [confirmReset |-> "password_reset",
             verifyEmail  |-> "email_verification"]
AfterConsume == [confirmReset |-> "findCred", verifyEmail |-> "findUser"]

AllOps == DOMAIN First \cup DOMAIN Consumes
            \cup {"register", "login", "refresh", "requestReset"}
Pcs == {"idle", "saveUser", "saveCred", "saveSession", "storeAccess",
        "storeRefresh", "createLink", "emit", "compare", "findSession",
        "revokeOld", "revokeDead", "revokeAccess", "deleteSession", "findOwn",
        "sweep", "findAccount", "deleteUser", "markUsed", "findCred",
        "savePassword", "findUser", "saveVerified"}

Opt(S) == S \cup {None}
Request == [op: Opt(AllOps), pc: Pcs, email: Opt(Emails), pw: Opt(Passwords),
            user: Opt(Users), sess: Opt(Sessions), src: Opt(Grants),
            grant: Opt(Grants), link: Opt(Links), cred: Opt(Creds)]
Idle == [op |-> None, pc |-> "idle", email |-> None, pw |-> None,
         user |-> None, sess |-> None, src |-> None, grant |-> None,
         link |-> None, cred |-> None]

\* The locals that a handler has set by the time it makes the call q.pc.
Locals(q) ==
  /\ q.pc \notin {"idle", "saveUser"}        => q.user \in Users
  /\ q.pc \in {"saveUser", "saveVerified"}   => q.email \in Emails
  /\ q.pc \in {"saveUser", "saveCred", "compare", "findCred", "savePassword"}
                                             => q.pw \in Passwords
  /\ q.pc \in {"storeAccess", "storeRefresh", "emit", "findSession",
               "revokeOld", "revokeDead", "revokeAccess", "deleteSession"}
                                             => q.sess \in Sessions
  /\ q.pc \in {"findSession", "revokeOld", "revokeDead", "revokeAccess"}
                                             => q.src \in Grants
  /\ q.pc \in {"storeRefresh", "emit"}       => q.grant \in Grants
  /\ q.pc = "createLink" /\ q.op = "register" => q.sess \in Sessions
                                               /\ q.grant \in Grants
  /\ q.pc = "markUsed" => /\ q.op \in DOMAIN Consumes
                          /\ q.link \in Links
                          /\ q.op = "confirmReset" => q.pw \in Passwords
TypedRequest == {q \in Request : Locals(q)}
Event == {"UserRegistered"} \X Users \cup {"LoginSucceeded"} \X Sessions

ASSUME ServiceAssumption ==
  /\ Ops \subseteq AllOps
  /\ None \notin {Free, Gone} \cup Users \cup Sessions \cup Grants
                \cup Links \cup Creds \cup TokenRow

\* No table holds a value of the wrong kind, and no handler makes a call with a
\* local that it has not set.
TypeOK ==
  /\ StoreTypeOK
  /\ req    \in [Reqs -> TypedRequest]
  /\ \A r \in Reqs : req[r].link \in Links => Live(links[req[r].link])
  /\ known  \subseteq Grants
  /\ events \subseteq Event

Init ==
  /\ StoreInit
  /\ req    = [r \in Reqs |-> Idle]
  /\ known  = {}
  /\ events = {}

-----------------------------------------------------------------------------
Accepts(r, op) == op \in Ops /\ req[r] = Idle
At(r, pc)      == req[r].pc = pc
End(r)         == req' = [req EXCEPT ![r] = Idle]

\* The handler throws at the call it is about to make, or its process dies: a
\* row is missing, the password is wrong, a unique index or a foreign key
\* refuses a row, Postgres or Redis cannot be reached.  What was written stays.
Throw(r) ==
  /\ req[r] # Idle
  /\ End(r)
  /\ UNCHANGED <<db, links, redis, known, events>>

-----------------------------------------------------------------------------
(* register, login *)

RegisterFind(r) ==
  /\ Accepts(r, "register")
  /\ \E e \in Emails, p \in Passwords :
       /\ FindByEmail(e) = {}
       /\ req' = [req EXCEPT ![r] = [Idle EXCEPT
                    !.op = "register", !.pc = "saveUser",
                    !.email = e, !.pw = p]]
  /\ UNCHANGED <<db, links, redis, known, events>>

SaveUser(r) ==
  /\ At(r, "saveUser")
  /\ \E u \in Fresh(users) :
       /\ ~EmailTaken(u, req[r].email)
       /\ SaveUserRow(u, req[r].email, FALSE)
       /\ req' = [req EXCEPT ![r].pc = "saveCred", ![r].user = u]
  /\ UNCHANGED <<creds, sessions, links, redis, known, events>>

SaveCred(r) ==
  /\ At(r, "saveCred")
  /\ UserExists(req[r].user)
  /\ \E c \in Fresh(creds) : SaveCredRow(c, req[r].user, req[r].pw)
  /\ req' = [req EXCEPT ![r].pc = "saveSession"]
  /\ UNCHANGED <<users, sessions, links, redis, known, events>>

LoginFind(r) ==
  /\ Accepts(r, "login")
  /\ \E e \in Emails, p \in Passwords : \E u \in FindByEmail(e) :
       req' = [req EXCEPT ![r] = [Idle EXCEPT
                 !.op = "login", !.pc = "compare", !.user = u, !.pw = p]]
  /\ UNCHANGED <<db, links, redis, known, events>>

Compare(r) ==
  /\ At(r, "compare")
  /\ \E c \in CredsOf(req[r].user) : creds[c].passwordHash = req[r].pw
  /\ req' = [req EXCEPT ![r].pc = "saveSession"]
  /\ UNCHANGED <<db, links, redis, known, events>>

\* Mutant: the sessions table has no foreign key.
SaveSessionUnchecked(r) ==
  /\ At(r, "saveSession")
  /\ \E s \in Fresh(sessions) :
       /\ SaveSessionRow(s, req[r].user)
       /\ req' = [req EXCEPT ![r].pc = "storeAccess", ![r].sess = s]
  /\ UNCHANGED <<users, creds, links, redis, known, events>>

\* register, loginWithUser
SaveSession(r) ==
  /\ At(r, "saveSession")
  /\ UserExists(req[r].user)
  /\ \E s \in Fresh(sessions) :
       /\ SaveSessionRow(s, req[r].user)
       /\ req' = [req EXCEPT ![r].pc = "storeAccess", ![r].sess = s]
  /\ UNCHANGED <<users, creds, links, redis, known, events>>

\* register, loginWithUser, refresh
StoreAccess(r) ==
  /\ At(r, "storeAccess")
  /\ \E g \in FreshGrants :
       /\ StoreAccessToken(g, req[r].user, req[r].sess)
       /\ req' = [req EXCEPT ![r].pc = "storeRefresh", ![r].grant = g]
  /\ UNCHANGED <<db, links, rt, known, events>>

\* refresh() then returns the tokens.
StoreRefresh(r) ==
  /\ At(r, "storeRefresh")
  /\ StoreRefreshToken(req[r].grant, req[r].user, req[r].sess)
  /\ IF req[r].op = "refresh"
       THEN End(r) /\ known' = known \cup {req[r].grant}
       ELSE /\ req' = [req EXCEPT ![r].pc =
                 IF req[r].op = "register" THEN "createLink" ELSE "emit"]
            /\ UNCHANGED known
  /\ UNCHANGED <<db, links, at, events>>

\* Mutant: the event is lost, and the tokens are returned all the same.
EmitLost(r) ==
  /\ At(r, "emit")
  /\ known' = known \cup {req[r].grant}
  /\ End(r)
  /\ UNCHANGED <<db, links, redis, events>>

\* Publishes the event; the tokens are then returned.
Emit(r) ==
  /\ At(r, "emit")
  /\ events' = events \cup
       {IF req[r].op = "register" THEN <<"UserRegistered", req[r].user>>
                                  ELSE <<"LoginSucceeded", req[r].sess>>}
  /\ known' = known \cup {req[r].grant}
  /\ End(r)
  /\ UNCHANGED <<db, links, redis>>

-----------------------------------------------------------------------------
(* refresh *)

RefreshResolve(r) ==
  /\ Accepts(r, "refresh")
  /\ \E g \in known :
       /\ Live(rt[g])
       /\ req' = [req EXCEPT ![r] = [Idle EXCEPT
                    !.op = "refresh", !.pc = "findSession", !.src = g,
                    !.user = rt[g].userId, !.sess = rt[g].sessionId]]
  /\ UNCHANGED <<db, links, redis, known, events>>

\* Mutant: the session is not looked up.
RefreshUnchecked(r) ==
  /\ At(r, "findSession")
  /\ req' = [req EXCEPT ![r].pc = "revokeOld"]
  /\ UNCHANGED <<db, links, redis, known, events>>

RefreshFindSession(r) ==
  /\ At(r, "findSession")
  /\ req' = [req EXCEPT ![r].pc = IF Live(sessions[req[r].sess])
                                   THEN "revokeOld" ELSE "revokeDead"]
  /\ UNCHANGED <<db, links, redis, known, events>>

\* The old refresh token goes first; the access token it came with stays.
RefreshRevoke(r) ==
  /\ req[r].pc \in {"revokeOld", "revokeDead"}
  /\ RevokeRefreshToken(req[r].src)
  /\ IF At(r, "revokeOld")
       THEN req' = [req EXCEPT ![r].pc = "storeAccess"]
       ELSE End(r)
  /\ UNCHANGED <<db, links, at, known, events>>

-----------------------------------------------------------------------------
(* Behind the bearer guard: logout, revokeOne, revokeAll, deleteAccount *)

AuthGuard(r) ==
  /\ \E op \in DOMAIN First, g \in known :
       /\ Accepts(r, op)
       /\ Live(at[g])
       /\ req' = [req EXCEPT ![r] = [Idle EXCEPT
                    !.op = op, !.pc = First[op], !.src = g,
                    !.user = at[g].userId, !.sess = at[g].sessionId]]
  /\ UNCHANGED <<db, links, redis, known, events>>

LogoutRevoke(r) ==
  /\ At(r, "revokeAccess")
  /\ RevokeAccessToken(req[r].src)
  /\ req' = [req EXCEPT ![r].pc = "deleteSession"]
  /\ UNCHANGED <<db, links, rt, known, events>>

\* Mutant: the owner of the session is not compared.
FindAny(r) ==
  /\ At(r, "findOwn")
  /\ \E s \in Sessions :
       /\ Live(sessions[s])
       /\ req' = [req EXCEPT ![r].pc = "deleteSession", ![r].sess = s]
  /\ UNCHANGED <<db, links, redis, known, events>>

\* revokeOne looks up the session that the path names.
FindOwn(r) ==
  /\ At(r, "findOwn")
  /\ \E s \in SessionsOf(req[r].user) :
       req' = [req EXCEPT ![r].pc = "deleteSession", ![r].sess = s]
  /\ UNCHANGED <<db, links, redis, known, events>>

\* logout, revokeOne
DeleteSession(r) ==
  /\ At(r, "deleteSession")
  /\ DeleteSessions({req[r].sess})
  /\ End(r)
  /\ UNCHANGED <<users, creds, links, redis, known, events>>

FindAccount(r) ==
  /\ At(r, "findAccount")
  /\ UserExists(req[r].user)
  /\ req' = [req EXCEPT ![r].pc = "sweep"]
  /\ UNCHANGED <<db, links, redis, known, events>>

\* deleteByUserId, in revokeAll, deleteAccount and confirmReset
Sweep(r) ==
  /\ At(r, "sweep")
  /\ DeleteSessions(SessionsOf(req[r].user))
  /\ IF req[r].op = "deleteAccount"
       THEN req' = [req EXCEPT ![r].pc = "deleteUser"]
       ELSE End(r)
  /\ UNCHANGED <<users, creds, links, redis, known, events>>

DeleteUser(r) ==
  /\ At(r, "deleteUser")
  /\ DeleteUserRow(req[r].user)
  /\ End(r)
  /\ UNCHANGED <<links, redis, known, events>>

-----------------------------------------------------------------------------
(* One-time links: requestReset, confirmReset, verifyEmail *)

ResetRequest(r) ==
  /\ Accepts(r, "requestReset")
  /\ \E e \in Emails : \E u \in FindByEmail(e) :
       req' = [req EXCEPT ![r] = [Idle EXCEPT
                 !.op = "requestReset", !.pc = "createLink", !.user = u]]
  /\ UNCHANGED <<db, links, redis, known, events>>

\* requestReset, and sendEmailVerification of register
CreateLink(r) ==
  /\ At(r, "createLink")
  /\ \E l \in Fresh(links) :
       IF req[r].op = "register"
         THEN /\ CreateLinkRow(l, "email_verification", req[r].user)
              /\ req' = [req EXCEPT ![r].pc = "emit"]
         ELSE /\ CreateLinkRow(l, "password_reset", req[r].user)
              /\ End(r)
  /\ UNCHANGED <<db, redis, known, events>>

ConsumeFind(r) ==
  /\ \E op \in DOMAIN Consumes, l \in Links, p \in Passwords :
       /\ Accepts(r, op)
       /\ Usable(l, Consumes[op])
       /\ req' = [req EXCEPT ![r] = [Idle EXCEPT
                    !.op = op, !.pc = "markUsed", !.link = l,
                    !.user = links[l].userId,
                    !.pw = IF op = "confirmReset" THEN p ELSE None]]
  /\ UNCHANGED <<db, links, redis, known, events>>

MarkUsed(r) ==
  /\ At(r, "markUsed")
  /\ MarkUsedRow(req[r].link)
  /\ req' = [req EXCEPT ![r].pc = AfterConsume[req[r].op]]
  /\ UNCHANGED <<db, redis, known, events>>

\* findOne: any one of the user's credentials, or null.
FindCred(r) ==
  /\ At(r, "findCred")
  /\ LET found == CredsOf(req[r].user)
     IN  \E c \in IF found = {} THEN {None} ELSE found :
           req' = [req EXCEPT ![r].pc = "savePassword", ![r].cred = c]
  /\ UNCHANGED <<db, links, redis, known, events>>

SavePassword(r) ==
  /\ At(r, "savePassword")
  /\ UserExists(req[r].user)
  /\ \E c \in IF req[r].cred = None THEN Fresh(creds) ELSE {req[r].cred} :
       SaveCredRow(c, req[r].user, req[r].pw)
  /\ req' = [req EXCEPT ![r].pc = "sweep"]
  /\ UNCHANGED <<users, sessions, links, redis, known, events>>

\* Mutant: no check that the user was found.
FindUserUnchecked(r) ==
  /\ At(r, "findUser")
  /\ \E e \in Emails :
       req' = [req EXCEPT ![r].pc = "saveVerified", ![r].email = e]
  /\ UNCHANGED <<db, links, redis, known, events>>

\* Mutant: the email is not part of what is read.
FindUserPartial(r) ==
  /\ At(r, "findUser")
  /\ UserExists(req[r].user)
  /\ req' = [req EXCEPT ![r].pc = "saveVerified"]
  /\ UNCHANGED <<db, links, redis, known, events>>

\* The whole row is read here and written back by the next step.
FindUser(r) ==
  /\ At(r, "findUser")
  /\ UserExists(req[r].user)
  /\ req' = [req EXCEPT ![r].pc = "saveVerified",
                        ![r].email = users[req[r].user].email]
  /\ UNCHANGED <<db, links, redis, known, events>>

\* save() inserts the row again when it was deleted in the meantime.
SaveVerified(r) ==
  /\ At(r, "saveVerified")
  /\ ~EmailTaken(req[r].user, req[r].email)
  /\ SaveUserRow(req[r].user, req[r].email, TRUE)
  /\ End(r)
  /\ UNCHANGED <<creds, sessions, links, redis, known, events>>

-----------------------------------------------------------------------------
Step(r) ==
  \/ Throw(r)
  \/ RegisterFind(r) \/ SaveUser(r) \/ SaveCred(r)
  \/ LoginFind(r) \/ Compare(r) \/ SaveSession(r)
  \/ StoreAccess(r) \/ StoreRefresh(r) \/ Emit(r)
  \/ RefreshResolve(r) \/ RefreshFindSession(r) \/ RefreshRevoke(r)
  \/ AuthGuard(r) \/ LogoutRevoke(r) \/ FindOwn(r) \/ DeleteSession(r)
  \/ FindAccount(r) \/ Sweep(r) \/ DeleteUser(r)
  \/ ResetRequest(r) \/ CreateLink(r) \/ ConsumeFind(r) \/ MarkUsed(r)
  \/ FindCred(r) \/ SavePassword(r) \/ FindUser(r) \/ SaveVerified(r)

Expire(g)     == ExpireAccess(g)  /\ UNCHANGED <<req, known, events>>
ExpireOld(g)  == ExpireRefresh(g) /\ UNCHANGED <<req, known, events>>
LinkExpires(l) == ExpireLink(l)   /\ UNCHANGED <<req, known, events>>

Next ==
  \/ \E r \in Reqs   : Step(r)
  \/ \E g \in Grants : Expire(g) \/ ExpireOld(g)
  \/ \E l \in Links  : LinkExpires(l)

Spec == Init /\ [][Next]_vars

-----------------------------------------------------------------------------
(* Properties *)

\* The access and refresh tokens that Redis holds for a session.
TokensOf(s) ==
  {<<"at", g>> : g \in {h \in Grants : Live(at[h]) /\ at[h].sessionId = s}}
    \cup
  {<<"rt", g>> : g \in {h \in Grants : Live(rt[h]) /\ rt[h].sessionId = s}}

\* The requests that are past every check of session s and will store tokens.
Carriers(s) ==
  {r \in Reqs : /\ req[r].sess = s
                /\ req[r].pc \in {"revokeOld", "storeAccess", "storeRefresh"}}

\* A token names a session of the account that it opens, or a session that was
\* deleted: refresh() and the guard copy both ids from Redis and never compare
\* them with the row.
TokenOwner ==
  \A g \in Grants :
    /\ Live(at[g]) => sessions[at[g].sessionId] \in {at[g].userId, Gone}
    /\ Live(rt[g]) => sessions[rt[g].sessionId] \in {rt[g].userId, Gone}

\* Together with the tokens, every handler works on a session of the user it
\* acts for: register and login on the one they opened, the others on the one
\* of their token, revokeOne on the one that the path named.
OwnSession ==
  /\ TokenOwner
  /\ \A r \in Reqs :
       /\ req[r].sess # None => sessions[req[r].sess] \in {req[r].user, Gone}
       /\ At(r, "saveUser") => req[r].sess = None

\* Every access token in a client's hands belongs to a login or a registration
\* that was published to the event feed, through any number of refreshes.
LoginAnnounced ==
  \A g \in known : Live(at[g]) =>
    \/ <<"LoginSucceeded", at[g].sessionId>> \in events
    \/ <<"UserRegistered", at[g].userId>> \in events

\* Credentials and sessions never outlive their user, also when a login or a
\* reset is under way while the account is deleted.
RowsHaveUsers ==
  /\ \A c \in Creds    : Live(creds[c])    => UserExists(creds[c].userId)
  /\ \A s \in Sessions : Live(sessions[s]) => UserExists(sessions[s])

\* Only a request that acts for the owner of a session closes it: by a token of
\* the account, by a link mailed to it, or by deleting it.
OnlyOwnerCloses ==
  [][\A s \in Sessions :
       Live(sessions[s]) /\ sessions'[s] = Gone
         => \E r \in Reqs : req'[r] # req[r] /\ req[r].user = sessions[s]]_vars

\* Once a session is deleted and no request is past its check of it, the
\* session stays deleted and nothing can obtain a further token for it.
Closed(s) == sessions[s] = Gone /\ Carriers(s) = {}
ClosedForGood ==
  [][\A s \in Sessions :
       Closed(s) => Closed(s)' /\ TokensOf(s)' \subseteq TokensOf(s)]_vars

\* A deleted account comes back only through a verification that had already
\* read its row.
Restorers(u) == {r \in Reqs : At(r, "saveVerified") /\ req[r].user = u}
DeletedForGood ==
  [][\A u \in Users : users[u] = Gone /\ Restorers(u) = {}
       => users'[u] = Gone /\ Restorers(u)' = {}]_vars

\* A used link that no request is about to mark is spent: no request consumes
\* it again.
SpentLink(l) == /\ Live(links[l]) /\ links[l].usedAt
                /\ \A r \in Reqs : ~(At(r, "markUsed") /\ req[r].link = l)
UsedOnceDone == [][\A l \in Links : SpentLink(l) => SpentLink(l)']_vars

\* When requests do not overlap, even if they fail half way: a session has at
\* most one refresh token, so a client that refreshes never forks it.
OneRefreshPerSession ==
  \A g, h \in Grants :
    Live(rt[g]) /\ Live(rt[h]) /\ rt[g].sessionId = rt[h].sessionId => g = h

\* When requests do not overlap, a user has at most one password.
OneCredential ==
  \A c, d \in Creds :
    Live(creds[c]) /\ Live(creds[d]) /\ creds[c].userId = creds[d].userId
      => c = d

\* What a token opens, and what the tokens that a request is about to store will
\* open: the state of SessionLifecycle.
AllTokens == {"at", "rt"} \X Grants
Issued == [t \in AllTokens |-> IF t[1] = "at" THEN at[t[2]] ELSE rt[t[2]]]
Permit == [r \in Reqs |->
  IF req[r].pc \in {"revokeOld", "storeAccess", "storeRefresh"}
    THEN Token(req[r].user, req[r].sess) ELSE None]

\* The handlers keep what SessionLifecycle promises: each of their steps opens,
\* renews or closes a session, issues or revokes a token, or does none of this.
Lifecycle == INSTANCE SessionLifecycle WITH
  Tokens <- AllTokens, owner <- sessions, issued <- Issued, permit <- Permit
KeepsLifecycle == Lifecycle!Spec

\* What a link is for and what has become of it, and which link a handler has
\* found usable or has marked, with what it does by it: the state of OneTimeLink.
LinkStatus(row) == IF row.usedAt THEN "spent"
                   ELSE IF row.expired THEN "expired" ELSE "open"
LinkPurposes == [kind: Kinds, userId: Users]
LinkState == [l \in Links |->
  IF links[l] = Free
    THEN [status |-> "free", purpose |-> None]
    ELSE [status  |-> LinkStatus(links[l]),
          purpose |-> [kind |-> links[l].kind, userId |-> links[l].userId]]]
Claim == [r \in Reqs |->
  IF req[r].link = None
    THEN [stage |-> "none", link |-> None, purpose |-> None]
    ELSE [stage   |-> IF At(r, "markUsed") THEN "taken" ELSE "spent",
          link    |-> req[r].link,
          purpose |-> [kind   |-> Consumes[req[r].op],
                       userId |-> req[r].user]]]

\* A link that was marked is consumed by nobody who had not already looked it
\* up, and a handler resets the password or verifies the address of exactly the
\* user for whom a link of that kind was issued, and only once it has marked it
\* (consume()).
OneTime == INSTANCE OneTimeLink WITH
  Purposes <- LinkPurposes, link <- LinkState, claim <- Claim
KeepsLinks == OneTime!Spec

\* one-time-link.service.ts:56 says that consume() marks the link "atomically
\* on success": two requests never both get past it with the same link.
ConsumedOnce ==
  \A q, r \in Reqs :
    /\ req[q].link # None
    /\ req[q].link = req[r].link
    /\ ~At(q, "markUsed") /\ ~At(r, "markUsed")
    => q = r
=============================================================================

------------------------ MODULE AdministrationProofs ------------------------
(***************************************************************************)
(* Proofs about Administration: the tables around the users, for any       *)
(* number of users, keys, profiles and overlapping requests.               *)
(***************************************************************************)
EXTENDS Administration, TLAPS

-----------------------------------------------------------------------------
(* What a handler knows at each await *)

HumanRow   == {x \in UserRow : x.type = "human" /\ x.email \in Emails}
ServiceRow == {x \in UserRow : x.type = "service" /\ x.email = None}

Saving == {"saveVerified", "saveUpdate"}

\* Only a caller with a limited scope has organisations, and a service account
\* that it creates is of one of them.
Locals(q) ==
  /\ q.pc = "idle" => q = Idle
  /\ q.pc \in {"findByEmail", "saveGoogle"} =>
       q.profile \in Profiles /\ q.email \in Emails
  /\ q.pc = "saveOauth" => q.profile \in Profiles
  /\ q.pc \in Saving => q.row \in HumanRow
  /\ q.pc \in Saving \cup {"saveOauth", "delete", "saveTotp", "saveKey",
                           "revoke"}
       => q.user \in Users
  /\ q.pc = "saveService" =>
       /\ q.row \in ServiceRow
       /\ q.allowed # {} => q.row.org \in q.allowed
  /\ q.pc = "revoke" => q.key \in Keys
  /\ q.pc \notin {"delete", "saveService", "saveKey", "revoke"}
       => q.allowed = {}

Typed ==
  /\ TypeOK
  /\ \A r \in Reqs : Locals(req[r])
  /\ \A u \in Users : Live(users[u]) => users[u] \in HumanRow \cup ServiceRow

-----------------------------------------------------------------------------
(* What the requests in flight say of their users *)

\* A handler that works for a human, or for a service account, was told so by
\* the row that it read.
ForHuman(q) == q.pc \in Saving \cup {"saveOauth"}
ForService(q) ==
  q.pc \in {"saveKey", "revoke"} \/ (q.pc = "delete" /\ q.allowed # {})

\* The row may be gone by now, and may come back for a human; it is of the same
\* kind, and of the same organisation, as long as it is there.
HumanOrGone(q) ==
  /\ users[q.user] # Free
  /\ Live(users[q.user]) => users[q.user].type = "human"
ServiceOrGone(q) ==
  /\ users[q.user] # Free
  /\ Live(users[q.user]) =>
       /\ users[q.user].type = "service"
       /\ q.allowed # {} => users[q.user].org \in q.allowed

Kinds ==
  /\ \A r \in Reqs : ForHuman(req[r]) => HumanOrGone(req[r])
  /\ \A r \in Reqs : ForService(req[r]) => ServiceOrGone(req[r])
  /\ \A r, s \in Reqs :
       ForHuman(req[r]) /\ ForService(req[s]) => req[r].user # req[s].user

\* The key that is about to be revoked is the account's.
KeysKnown ==
  \A r \in Reqs : At(r, "revoke") =>
    /\ keys[req[r].key] # Free
    /\ Live(keys[req[r].key]) => keys[req[r].key].user = req[r].user

\* A profile that has signed a user in is linked to that user.
SignedLinked == \A p \in Profiles : signed[p] \in {None, oauth[p]}

\* Addresses are unique as they are spelt, and in lower case unless Google
\* reported them otherwise: in the table and in the rows about to be saved.
AddressesKept ==
  /\ \A u, v \in Users :
       u # v /\ Is(u, "human") /\ Is(v, "human")
         => users[u].email # users[v].email
  /\ \A u \in Users : Is(u, "human") /\ u \notin capital
       => users[u].email = Address[users[u].email]
  /\ \A r \in Reqs : req[r].pc \in Saving /\ req[r].user \notin capital
       => req[r].row.email = Address[req[r].row.email]

\* An enrolment that nobody races finds none in the table.
Enrolments ==
  /\ EnrolledOnce
  /\ \A r \in Reqs : At(r, "saveTotp") /\ req[r].user \notin raced
       => /\ totp[req[r].user] = 0
          /\ \A s \in Reqs : At(s, "saveTotp") /\ req[s].user = req[r].user
               => s = r

-----------------------------------------------------------------------------
(* Types *)

\* The steps of a request, and those that belong to none.
Step(r) ==
  \/ Throw(r) /\ UNCHANGED history
  \/ FindByProvider(r) \/ FindAccount(r) \/ SaveGoogle(r) \/ SaveOauth(r)
  \/ FindVerified(r) \/ UpdateUser(r) \/ SaveRow(r)
  \/ FindDeleted(r) \/ Delete(r)
  \/ FindTotp(r) \/ SaveTotp(r)
  \/ CreateServiceAccount(r) \/ SaveService(r)
  \/ CreateApiKey(r) \/ SaveKey(r)
  \/ RevokeApiKey(r) \/ Revoke(r) \/ DeleteServiceAccount(r)

Background ==
  \/ Register \/ RemoveTotp \/ UseKey
  \/ \E k \in Keys : UpdateLastUsed(k) \/ TouchLost(k) \/ Expire(k)

LEMMA NextSteps == Next <=> Background \/ \E r \in Reqs : Step(r)
BY DEF Next, Background, Step

\* A row is neither a mark of the tables nor None.
LEMMA RowFacts ==
  /\ Free # Gone
  /\ \A x \in UserRow \cup KeyRow : Live(x)
  /\ \A x \in UserRow : x # None
  /\ None \notin Users \cup Keys \cup Profiles \cup Orgs \cup Emails
  /\ HumanRow \subseteq UserRow /\ ServiceRow \subseteq UserRow
  /\ \A x \in HumanRow : x.type = "human" /\ x.email # None
  /\ \A x \in ServiceRow : x.type = "service"
BY DirectoryAssumption DEF Live, HumanRow, ServiceRow

LEMMA RowsMade ==
  /\ \A e \in Emails, b \in BOOLEAN : Human(e, b) \in HumanRow
  /\ \A o \in Opt(Orgs) : Service(o) \in ServiceRow
  /\ \A e \in Emails, b \in BOOLEAN : Human(e, b).email = e
  /\ \A o \in Opt(Orgs) : Service(o).org = o
BY DEF Human, Service, HumanRow, ServiceRow, UserRow, Opt

LEMMA IdleTyped == Idle \in Request /\ Locals(Idle)
BY DEF Idle, Request, Locals, Opt, Pcs, Saving

\* Who has a limited scope has organisations, and a key that signs a caller in
\* is a row.
LEMMA CallersTyped ==
  ASSUME Typed, NEW c \in Callers
  PROVE  /\ c.platform \in BOOLEAN /\ c.allowed \subseteq Orgs
         /\ c.platform <=> c.allowed = {}
         /\ c.key = None \/ (c.key \in Keys /\ keys[c.key] # Free)
<1>1. CASE \E k \in ServiceKeys :
             c = [platform |-> FALSE, allowed |-> {users[keys[k].user].org},
                  key |-> k]
  <2>1. PICK k \in ServiceKeys :
          c = [platform |-> FALSE, allowed |-> {users[keys[k].user].org},
               key |-> k]
    BY <1>1
  <2>2. k \in Keys /\ Live(keys[k]) /\ Is(keys[k].user, "service")
        /\ users[keys[k].user].org # None
    BY DEF ServiceKeys, Valid
  <2>3. keys[k] \in KeyRow
    BY <2>2 DEF Typed, TypeOK, Live
  <2>4. keys[k].user \in Users
    BY <2>3 DEF KeyRow
  <2>5. users[keys[k].user] \in UserRow
    BY <2>2, <2>4 DEF Is, Live, Typed, TypeOK
  <2>6. users[keys[k].user].org \in Orgs
    BY <2>2, <2>5 DEF UserRow, Opt
  <2> QED BY <2>1, <2>2, <2>6 DEF Live
<1>2. CASE ~ \E k \in ServiceKeys :
             c = [platform |-> FALSE, allowed |-> {users[keys[k].user].org},
                  key |-> k]
  <2>1. \/ c = [platform |-> TRUE, allowed |-> {}, key |-> None]
        \/ \E S \in (SUBSET Orgs) \ {{}} :
             c = [platform |-> FALSE, allowed |-> S, key |-> None]
    BY <1>2 DEF Callers
  <2>2. CASE c = [platform |-> TRUE, allowed |-> {}, key |-> None]
    BY <2>2
  <2>3. ASSUME NEW S \in (SUBSET Orgs) \ {{}},
               c = [platform |-> FALSE, allowed |-> S, key |-> None]
        PROVE  /\ c.platform \in BOOLEAN /\ c.allowed \subseteq Orgs
               /\ c.platform <=> c.allowed = {}
               /\ c.key = None
    <3>1. c.platform = FALSE /\ c.allowed = S /\ c.key = None
      BY <2>3
    <3> QED BY <3>1
  <2> QED BY <2>1, <2>2, <2>3
<1> QED BY <1>1, <1>2

\* Whoever an address is found for is a human.
LEMMA FoundHuman ==
  ASSUME Typed, NEW e \in Emails, NEW u \in FindByEmail(e)
  PROVE  u \in Users /\ Is(u, "human") /\ users[u] \in HumanRow
<1>1. u \in Users /\ Live(users[u]) /\ users[u].email = Address[e]
  BY DEF FindByEmail
<1>2. users[u].email \in Emails
  BY <1>1, DirectoryAssumption
<1>3. users[u] \in HumanRow
  BY <1>1, <1>2, RowFacts DEF Typed, ServiceRow
<1> QED BY <1>1, <1>3, RowFacts DEF Is

LEMMA IsHumanRow ==
  ASSUME Typed, NEW u \in Users, Is(u, "human")
  PROVE  users[u] \in HumanRow
BY RowFacts DEF Typed, Is

\* Every await leaves the handler with what the next one needs.
LEMMA StepLocals ==
  ASSUME Typed, NEW r \in Reqs, Step(r)
  PROVE  UNCHANGED req \/ \E q \in Request : Locals(q) /\ Becomes(r, q)
<1> DEFINE p == req[r]
<1>0. p \in Request /\ Locals(p) /\ TypeOK
  BY DEF Typed, TypeOK
<1> USE <1>0, RowFacts DEF At, Becomes, End
<1>i. Idle \in Request /\ Locals(Idle)
  BY IdleTyped
<1>1. CASE \/ Throw(r) \/ SaveOauth(r) \/ SaveRow(r) \/ Delete(r)
           \/ SaveTotp(r) \/ SaveKey(r) \/ Revoke(r)
  BY <1>1, <1>i
  DEF Throw, SaveOauth, SaveRow, Delete, SaveTotp, SaveKey, Revoke
<1>2. CASE FindByProvider(r)
  <2>1. CASE UNCHANGED req
    BY <2>1
  <2>2. ASSUME NEW x \in Profiles, NEW e \in Emails,
               Becomes(r, [Idle EXCEPT !.pc = "findByEmail", !.profile = x,
                                       !.email = e])
        PROVE  \E q \in Request : Locals(q) /\ Becomes(r, q)
    <3> DEFINE q == [Idle EXCEPT !.pc = "findByEmail", !.profile = x,
                                 !.email = e]
    <3>1. "findByEmail" \in Pcs /\ x \in Opt(Profiles) /\ e \in Opt(Emails)
      BY DEF Pcs, Opt
    <3>2. q \in Request
      BY <1>i, <3>1 DEF Request
    <3>3. Locals(q)
      BY DEF Locals, Idle, Saving
    <3> QED BY <2>2, <3>2, <3>3
  <2> QED BY <1>2, <2>1, <2>2 DEF FindByProvider
<1>3. CASE FindAccount(r)
  <2>1. CASE Becomes(r, [p EXCEPT !.pc = "saveGoogle"])
    <3> DEFINE q == [p EXCEPT !.pc = "saveGoogle"]
    <3>1. q \in Request
      BY DEF Request, Pcs
    <3>2. Locals(q)
      BY <1>3 DEF Locals, FindAccount, Request, Saving
    <3> QED BY <2>1, <3>1, <3>2
  <2>2. ASSUME NEW u \in FindByEmail(p.email),
               Becomes(r, [p EXCEPT !.pc = "saveOauth", !.user = u])
        PROVE  \E q \in Request : Locals(q) /\ Becomes(r, q)
    <3> DEFINE q == [p EXCEPT !.pc = "saveOauth", !.user = u]
    <3>1. u \in Users
      BY DEF FindByEmail
    <3>2. "saveOauth" \in Pcs /\ u \in Opt(Users)
      BY <3>1 DEF Pcs, Opt
    <3>3. q \in Request
      BY <3>2 DEF Request
    <3>4. Locals(q)
      BY <1>3, <3>1 DEF Locals, FindAccount, Request, Saving
    <3> QED BY <2>2, <3>3, <3>4
  <2> QED BY <1>3, <2>1, <2>2 DEF FindAccount
<1>4. CASE SaveGoogle(r)
  <2>1. PICK u \in Users :
          Becomes(r, [p EXCEPT !.pc = "saveOauth", !.user = u])
    BY <1>4 DEF SaveGoogle, Fresh, TypeOK
  <2> DEFINE q == [p EXCEPT !.pc = "saveOauth", !.user = u]
  <2>2. "saveOauth" \in Pcs /\ u \in Opt(Users)
    BY DEF Pcs, Opt
  <2>3. q \in Request
    BY <2>2 DEF Request
  <2>4. Locals(q)
    BY <1>4 DEF Locals, SaveGoogle, Request, Saving
  <2> QED BY <2>1, <2>3, <2>4
<1>5. CASE FindVerified(r)
  <2>1. PICK u \in Users :
          /\ Is(u, "human")
          /\ Becomes(r, [Idle EXCEPT !.pc = "saveVerified", !.user = u,
                           !.row = [users[u] EXCEPT !.verified = TRUE]])
    BY <1>5 DEF FindVerified
  <2> DEFINE x == [users[u] EXCEPT !.verified = TRUE]
             q == [Idle EXCEPT !.pc = "saveVerified", !.user = u, !.row = x]
  <2>2. users[u] \in HumanRow
    BY <2>1, IsHumanRow
  <2>3. x \in HumanRow
    BY <2>2 DEF HumanRow, UserRow
  <2> HIDE DEF x
  <2>4. "saveVerified" \in Pcs /\ u \in Opt(Users) /\ x \in Opt(UserRow)
    BY <2>3 DEF Pcs, Opt
  <2>5. q \in Request
    BY <1>i, <2>4 DEF Request
  <2>6. Locals(q)
    BY <2>3 DEF Locals, Idle, Saving
  <2> QED BY <2>1, <2>5, <2>6 DEF x
<1>6. CASE UpdateUser(r)
  <2>1. PICK u \in Users :
          /\ Is(u, "human")
          /\ \E e \in {users[u].email} \cup Emails :
               Becomes(r, [Idle EXCEPT !.pc = "saveUpdate", !.user = u,
                             !.row = [users[u] EXCEPT !.email = e]])
    BY <1>6 DEF UpdateUser
  <2>e. PICK e \in {users[u].email} \cup Emails :
          Becomes(r, [Idle EXCEPT !.pc = "saveUpdate", !.user = u,
                        !.row = [users[u] EXCEPT !.email = e]])
    BY <2>1
  <2> DEFINE x == [users[u] EXCEPT !.email = e]
             q == [Idle EXCEPT !.pc = "saveUpdate", !.user = u, !.row = x]
  <2>2. users[u] \in HumanRow
    BY <2>1, IsHumanRow
  <2>3. x \in HumanRow
    BY <2>2 DEF HumanRow, UserRow, Opt
  <2> HIDE DEF x
  <2>4. "saveUpdate" \in Pcs /\ u \in Opt(Users) /\ x \in Opt(UserRow)
    BY <2>3 DEF Pcs, Opt
  <2>5. q \in Request
    BY <1>i, <2>4 DEF Request
  <2>6. Locals(q)
    BY <2>3 DEF Locals, Idle, Saving
  <2> QED BY <2>e, <2>5, <2>6 DEF x
<1>7. CASE FindDeleted(r)
  <2>1. PICK u \in Users :
          Becomes(r, [Idle EXCEPT !.pc = "delete", !.user = u])
    BY <1>7 DEF FindDeleted
  <2> DEFINE q == [Idle EXCEPT !.pc = "delete", !.user = u]
  <2>2. "delete" \in Pcs /\ u \in Opt(Users)
    BY DEF Pcs, Opt
  <2>3. q \in Request
    BY <1>i, <2>2 DEF Request
  <2>4. Locals(q)
    BY DEF Locals, Idle, Saving
  <2> QED BY <2>1, <2>3, <2>4
<1>8. CASE FindTotp(r)
  <2>1. PICK u \in Users :
          Becomes(r, [Idle EXCEPT !.pc = "saveTotp", !.user = u])
    BY <1>8 DEF FindTotp
  <2> DEFINE q == [Idle EXCEPT !.pc = "saveTotp", !.user = u]
  <2>2. "saveTotp" \in Pcs /\ u \in Opt(Users)
    BY DEF Pcs, Opt
  <2>3. q \in Request
    BY <1>i, <2>2 DEF Request
  <2>4. Locals(q)
    BY DEF Locals, Idle, Saving
  <2> QED BY <2>1, <2>3, <2>4
<1>9. CASE CreateServiceAccount(r)
  <2>1. PICK c \in Callers, o \in Opt(Orgs) :
          /\ c.platform \/ o \in c.allowed
          /\ Becomes(r, [Idle EXCEPT !.pc = "saveService", !.row = Service(o),
                                     !.allowed = c.allowed])
    BY <1>9 DEF CreateServiceAccount
  <2> DEFINE q == [Idle EXCEPT !.pc = "saveService", !.row = Service(o),
                               !.allowed = c.allowed]
  <2>2. c.allowed \subseteq Orgs /\ (c.platform => c.allowed = {})
    BY CallersTyped
  <2>3. Service(o) \in ServiceRow /\ Service(o).org = o
    BY RowsMade
  <2>4. "saveService" \in Pcs /\ Service(o) \in Opt(UserRow)
    BY <2>3 DEF Pcs, Opt
  <2>5. q \in Request
    BY <1>i, <2>2, <2>4 DEF Request
  <2>6. Locals(q)
    BY <2>1, <2>2, <2>3 DEF Locals, Idle, Saving
  <2> QED BY <2>1, <2>5, <2>6
<1>10. CASE SaveService(r)
  <2>1. PICK u \in Users :
          Becomes(r, [p EXCEPT !.pc = "saveKey", !.user = u])
    BY <1>10 DEF SaveService, Fresh, TypeOK
  <2> DEFINE q == [p EXCEPT !.pc = "saveKey", !.user = u]
  <2>2. "saveKey" \in Pcs /\ u \in Opt(Users)
    BY DEF Pcs, Opt
  <2>3. q \in Request
    BY <2>2 DEF Request
  <2>4. Locals(q)
    BY DEF Locals, Request, Saving
  <2> QED BY <2>1, <2>3, <2>4
<1>11. CASE CreateApiKey(r)
  <2>1. PICK c \in Callers, u \in Users :
          Becomes(r, [Idle EXCEPT !.pc = "saveKey", !.user = u,
                                  !.allowed = c.allowed])
    BY <1>11 DEF CreateApiKey
  <2> DEFINE q == [Idle EXCEPT !.pc = "saveKey", !.user = u,
                               !.allowed = c.allowed]
  <2>2. "saveKey" \in Pcs /\ u \in Opt(Users) /\ c.allowed \subseteq Orgs
    BY CallersTyped DEF Pcs, Opt
  <2>3. q \in Request
    BY <1>i, <2>2 DEF Request
  <2>4. Locals(q)
    BY DEF Locals, Idle, Saving
  <2> QED BY <2>1, <2>3, <2>4
<1>12. CASE RevokeApiKey(r)
  <2>1. PICK c \in Callers, u \in Users, k \in Keys :
          Becomes(r, [Idle EXCEPT !.pc = "revoke", !.user = u, !.key = k,
                                  !.allowed = c.allowed])
    BY <1>12 DEF RevokeApiKey, FindKey
  <2> DEFINE q == [Idle EXCEPT !.pc = "revoke", !.user = u, !.key = k,
                               !.allowed = c.allowed]
  <2>2. /\ "revoke" \in Pcs /\ u \in Opt(Users) /\ k \in Opt(Keys)
        /\ c.allowed \subseteq Orgs
    BY CallersTyped DEF Pcs, Opt
  <2>3. q \in Request
    BY <1>i, <2>2 DEF Request
  <2>4. Locals(q)
    BY DEF Locals, Idle, Saving
  <2> QED BY <2>1, <2>3, <2>4
<1>13. CASE DeleteServiceAccount(r)
  <2>1. PICK c \in Callers, u \in Users :
          Becomes(r, [Idle EXCEPT !.pc = "delete", !.user = u,
                                  !.allowed = c.allowed])
    BY <1>13 DEF DeleteServiceAccount
  <2> DEFINE q == [Idle EXCEPT !.pc = "delete", !.user = u,
                               !.allowed = c.allowed]
  <2>2. "delete" \in Pcs /\ u \in Opt(Users) /\ c.allowed \subseteq Orgs
    BY CallersTyped DEF Pcs, Opt
  <2>3. q \in Request
    BY <1>i, <2>2 DEF Request
  <2>4. Locals(q)
    BY DEF Locals, Idle, Saving
  <2> QED BY <2>1, <2>3, <2>4
<1> QED BY <1>1, <1>2, <1>3, <1>4, <1>5, <1>6, <1>7, <1>8, <1>9, <1>10, <1>11,
           <1>12, <1>13 DEF Step

\* What can become of a user: it is created, saved by a handler that holds its
\* row, or deleted.
Moved(u) ==
  \/ users'[u] = users[u]
  \/ users[u] = Free /\ users'[u] \in HumanRow \cup ServiceRow
  \/ users'[u] = Gone /\ \E r \in Reqs : Delete(r) /\ req[r].user = u
  \/ \E r \in Reqs :
       /\ req[r].pc \in Saving /\ req[r].user = u
       /\ users'[u] = req[r].row /\ req[r].row \in HumanRow

LEMMA UsersMove ==
  ASSUME Typed, Next
  PROVE  /\ users' \in [Users -> {Free, Gone} \cup UserRow]
         /\ \A u \in Users : Moved(u)
<1>0. TypeOK /\ users \in [Users -> {Free, Gone} \cup UserRow]
  BY DEF Typed, TypeOK
<1> USE RowFacts DEF Moved
<1>1. CASE UNCHANGED users
  BY <1>0, <1>1
<1>2. ASSUME NEW u \in Users, NEW x \in HumanRow \cup ServiceRow,
             users[u] = Free, users' = [users EXCEPT ![u] = x]
      PROVE  /\ users' \in [Users -> {Free, Gone} \cup UserRow]
             /\ \A v \in Users : Moved(v)
  BY <1>0, <1>2
<1>3. CASE Register
  <2>1. PICK e \in Emails, u \in Users :
          /\ users[u] = Free
          /\ users' = [users EXCEPT ![u] = Human(Address[e], FALSE)]
    BY <1>0, <1>3 DEF Register, SaveUser, Fresh
  <2>2. Human(Address[e], FALSE) \in HumanRow
    BY RowsMade, DirectoryAssumption
  <2> QED BY <1>2, <2>1, <2>2
<1>4. ASSUME NEW r \in Reqs, SaveGoogle(r)
      PROVE  /\ users' \in [Users -> {Free, Gone} \cup UserRow]
             /\ \A v \in Users : Moved(v)
  <2>1. Human(req[r].email, TRUE) \in HumanRow
    BY <1>4, RowsMade DEF Typed, Locals, SaveGoogle, At
  <2> QED BY <1>0, <1>2, <1>4, <2>1 DEF SaveGoogle, SaveUser, Fresh
<1>5. ASSUME NEW r \in Reqs, SaveService(r)
      PROVE  /\ users' \in [Users -> {Free, Gone} \cup UserRow]
             /\ \A v \in Users : Moved(v)
  <2>1. req[r].row \in ServiceRow
    BY <1>5 DEF Typed, Locals, SaveService, At
  <2> QED BY <1>0, <1>2, <1>5, <2>1 DEF SaveService, SaveUser, Fresh
<1>6. ASSUME NEW r \in Reqs, SaveRow(r)
      PROVE  /\ users' \in [Users -> {Free, Gone} \cup UserRow]
             /\ \A v \in Users : Moved(v)
  <2>1. /\ req[r].pc \in Saving /\ req[r].user \in Users
        /\ req[r].row \in HumanRow
        /\ users' = [users EXCEPT ![req[r].user] = req[r].row]
    BY <1>6 DEF Typed, Locals, SaveRow, SaveUser, At, Saving
  <2> QED BY <1>0, <2>1
<1>7. ASSUME NEW r \in Reqs, Delete(r)
      PROVE  /\ users' \in [Users -> {Free, Gone} \cup UserRow]
             /\ \A v \in Users : Moved(v)
  <2>1. users' = [users EXCEPT ![req[r].user] = Gone]
    BY <1>7 DEF Delete, DeleteUser
  <2> QED BY <1>0, <1>7, <2>1
<1>8. ASSUME NEW r \in Reqs, Step(r), ~SaveGoogle(r), ~SaveService(r),
             ~SaveRow(r), ~Delete(r)
      PROVE  UNCHANGED users
  BY <1>8
  DEF Step, Throw, FindByProvider, FindAccount, SaveOauth, FindVerified,
      UpdateUser, FindDeleted, FindTotp, SaveTotp, CreateServiceAccount,
      CreateApiKey, SaveKey, RevokeApiKey, Revoke, DeleteServiceAccount, tables
<1>9. CASE Background /\ ~Register
  BY <1>1, <1>9
  DEF Background, RemoveTotp, UseKey, UpdateLastUsed, TouchLost, Expire
<1> QED BY <1>1, <1>3, <1>4, <1>5, <1>6, <1>7, <1>8, <1>9, NextSteps

\* What can become of a key: it is created for a service account, it loses its
\* power, or it goes with its account.
KeyMoved(k) ==
  \/ keys'[k] = keys[k]
  \/ /\ keys[k] = Free /\ keys'[k] \in KeyRow
     /\ \E r \in Reqs : SaveKey(r) /\ keys'[k].user = req[r].user
  \/ /\ Live(keys[k]) /\ keys'[k] \in KeyRow
     /\ keys'[k].user = keys[k].user
     /\ keys'[k].active => keys[k].active
     /\ keys[k].expired => keys'[k].expired
  \/ /\ Live(keys[k]) /\ keys'[k] = Gone
     /\ users'[keys[k].user] = Gone

LEMMA KeysMove ==
  ASSUME Typed, Next
  PROVE  /\ keys' \in [Keys -> {Free, Gone} \cup KeyRow]
         /\ \A k \in Keys : KeyMoved(k)
<1>0. /\ keys \in [Keys -> {Free, Gone} \cup KeyRow]
      /\ users \in [Users -> {Free, Gone} \cup UserRow]
      /\ \A k \in Keys : Live(keys[k]) => keys[k] \in KeyRow
  BY DEF Typed, TypeOK, Live
<1> USE RowFacts DEF KeyMoved
<1>1. CASE UNCHANGED keys
  BY <1>0, <1>1
<1>2. ASSUME NEW k \in Keys, UpdateLastUsed(k)
      PROVE  UNCHANGED keys
  BY <1>0, <1>2 DEF UpdateLastUsed, LastUsed
<1>3. ASSUME NEW k \in Keys, Expire(k)
      PROVE  /\ keys' \in [Keys -> {Free, Gone} \cup KeyRow]
             /\ \A j \in Keys : KeyMoved(j)
  <2> DEFINE x == [keys[k] EXCEPT !.expired = TRUE]
  <2>1. Live(keys[k]) /\ keys' = [keys EXCEPT ![k] = x]
    BY <1>3 DEF Expire
  <2>2. /\ x \in KeyRow /\ x.user = keys[k].user /\ x.expired = TRUE
        /\ x.active = keys[k].active
    BY <1>0, <2>1 DEF KeyRow
  <2> HIDE DEF x
  <2> QED BY <1>0, <2>1, <2>2
<1>4. ASSUME NEW r \in Reqs, SaveKey(r)
      PROVE  /\ keys' \in [Keys -> {Free, Gone} \cup KeyRow]
             /\ \A j \in Keys : KeyMoved(j)
  <2> DEFINE x == [user |-> req[r].user, active |-> TRUE, expired |-> FALSE]
  <2>1. PICK k \in Keys : keys[k] = Free /\ keys' = [keys EXCEPT ![k] = x]
    BY <1>0, <1>4 DEF SaveKey, Fresh
  <2>2. x \in KeyRow /\ x.user = req[r].user
    BY <1>4 DEF KeyRow, Typed, Locals, SaveKey, At
  <2> HIDE DEF x
  <2> QED BY <1>0, <1>4, <2>1, <2>2
<1>5. ASSUME NEW r \in Reqs, Revoke(r)
      PROVE  /\ keys' \in [Keys -> {Free, Gone} \cup KeyRow]
             /\ \A j \in Keys : KeyMoved(j)
  <2>1. keys' = [k \in Keys |-> IF k = req[r].key /\ Live(keys[k])
                                  THEN [keys[k] EXCEPT !.active = FALSE]
                                  ELSE keys[k]]
    BY <1>5 DEF Revoke
  <2>2. ASSUME NEW k \in Keys, Live(keys[k])
        PROVE  LET x == [keys[k] EXCEPT !.active = FALSE]
               IN  /\ x \in KeyRow /\ x.user = keys[k].user
                   /\ x.active = FALSE /\ x.expired = keys[k].expired
    BY <1>0, <2>2 DEF KeyRow
  <2> QED BY <1>0, <2>1, <2>2
<1>6. ASSUME NEW r \in Reqs, Delete(r)
      PROVE  /\ keys' \in [Keys -> {Free, Gone} \cup KeyRow]
             /\ \A j \in Keys : KeyMoved(j)
  <2>1. /\ users' = [users EXCEPT ![req[r].user] = Gone]
        /\ keys' = [k \in Keys |->
             IF Live(keys[k]) /\ keys[k].user = req[r].user THEN Gone
                                                            ELSE keys[k]]
        /\ req[r].user \in Users
    BY <1>6 DEF Delete, DeleteUser, Typed, Locals, At
  <2> QED BY <1>0, <2>1
<1>7. ASSUME NEW r \in Reqs, Step(r), ~SaveKey(r), ~Revoke(r), ~Delete(r)
      PROVE  UNCHANGED keys
  BY <1>7
  DEF Step, Throw, FindByProvider, FindAccount, SaveGoogle, SaveOauth,
      FindVerified, UpdateUser, SaveRow, FindDeleted, FindTotp, SaveTotp,
      CreateServiceAccount, SaveService, CreateApiKey, RevokeApiKey,
      DeleteServiceAccount, tables
<1>8. CASE Background /\ ~ \E k \in Keys : UpdateLastUsed(k) \/ Expire(k)
  BY <1>1, <1>8 DEF Background, Register, RemoveTotp, UseKey, TouchLost
<1> QED BY <1>1, <1>2, <1>3, <1>4, <1>5, <1>6, <1>7, <1>8, NextSteps
        DEF Background

\* The other tables, and what is told of them.
LEMMA TablesTyped ==
  ASSUME Typed, Next
  PROVE  /\ oauth' \in [Profiles -> Opt(Users)]
         /\ totp' \in [Users -> 0 .. MaxTotp]
         /\ touching' \subseteq {k \in Keys : keys'[k] # Free}
         /\ signed' \in [Profiles -> Opt(Users)]
         /\ capital' \subseteq Users /\ raced' \subseteq Users
<1>0. /\ TypeOK
      /\ \A k \in Keys : keys[k] # Free => keys'[k] # Free
  BY KeysMove, RowFacts DEF Typed, KeyMoved, Live
<1>1. ASSUME NEW r \in Reqs, SaveOauth(r)
      PROVE  /\ oauth' \in [Profiles -> Opt(Users)]
             /\ signed' \in [Profiles -> Opt(Users)]
  <2>1. req[r].user \in Opt(Users)
    BY <1>1 DEF Typed, Locals, SaveOauth, At, Opt
  <2> QED BY <1>0, <1>1, <2>1 DEF SaveOauth, TypeOK
<1>2. oauth' \in [Profiles -> Opt(Users)]
  <2>1. ASSUME NEW r \in Reqs, Delete(r)
        PROVE  oauth' \in [Profiles -> Opt(Users)]
    BY <1>0, <2>1 DEF Delete, DeleteUser, TypeOK, Opt
  <2>2. ASSUME NEW r \in Reqs, Step(r), ~SaveOauth(r), ~Delete(r)
        PROVE  UNCHANGED oauth
    BY <2>2
    DEF Step, Throw, FindByProvider, FindAccount, SaveGoogle, FindVerified,
        UpdateUser, SaveRow, FindDeleted, FindTotp, SaveTotp,
        CreateServiceAccount, SaveService, CreateApiKey, SaveKey, RevokeApiKey,
        Revoke, DeleteServiceAccount, tables
  <2>3. Background => UNCHANGED oauth
    BY DEF Background, Register, RemoveTotp, UseKey, UpdateLastUsed, TouchLost,
           Expire
  <2> QED BY <1>0, <1>1, <2>1, <2>2, <2>3, NextSteps DEF TypeOK
<1>3. totp' \in [Users -> 0 .. MaxTotp]
  <2>1. CASE RemoveTotp
    BY <1>0, <2>1, DirectoryAssumption DEF RemoveTotp, TypeOK
  <2>2. ASSUME NEW r \in Reqs, SaveTotp(r)
        PROVE  totp' \in [Users -> 0 .. MaxTotp]
    <3> DEFINE u == req[r].user
    <3>1. /\ u \in Users /\ totp[u] < MaxTotp
          /\ totp' = [totp EXCEPT ![u] = totp[u] + 1]
      BY <2>2 DEF Typed, Locals, SaveTotp, At
    <3>2. totp \in [Users -> 0 .. MaxTotp]
      BY <1>0 DEF TypeOK
    <3>3. totp[u] + 1 \in 0 .. MaxTotp
      <4> HIDE DEF u
      <4> QED BY <3>1, <3>2, DirectoryAssumption
    <3> HIDE DEF u
    <3> QED BY <3>1, <3>2, <3>3
  <2>3. ASSUME NEW r \in Reqs, Delete(r)
        PROVE  totp' \in [Users -> 0 .. MaxTotp]
    <3>1. totp' = [totp EXCEPT ![req[r].user] = 0]
      BY <2>3 DEF Delete, DeleteUser
    <3>2. 0 \in 0 .. MaxTotp
      BY DirectoryAssumption
    <3> QED BY <1>0, <3>1, <3>2 DEF TypeOK
  <2>4. ASSUME NEW r \in Reqs, Step(r), ~SaveTotp(r), ~Delete(r)
        PROVE  UNCHANGED totp
    BY <2>4
    DEF Step, Throw, FindByProvider, FindAccount, SaveGoogle, SaveOauth,
        FindVerified, UpdateUser, SaveRow, FindDeleted, FindTotp,
        CreateServiceAccount, SaveService, CreateApiKey, SaveKey, RevokeApiKey,
        Revoke, DeleteServiceAccount, tables
  <2>5. Background /\ ~RemoveTotp => UNCHANGED totp
    BY DEF Background, Register, UseKey, UpdateLastUsed, TouchLost, Expire
  <2> QED BY <1>0, <2>1, <2>2, <2>3, <2>4, <2>5, NextSteps DEF TypeOK
<1>4. touching' \subseteq {k \in Keys : keys'[k] # Free}
  <2> DEFINE Rows == {k \in Keys : keys[k] # Free}
  <2>1. touching' \subseteq touching \cup Rows
    <3>1. ASSUME NEW c \in Callers, Touch(c.key)
          PROVE  touching' \subseteq touching \cup Rows
      BY <3>1, CallersTyped DEF Touch
    <3>2. CASE UseKey
      BY <3>2 DEF UseKey, Touch, Valid, Live
    <3>3. Background /\ ~UseKey => touching' \subseteq touching
      BY DEF Background, Register, RemoveTotp, UpdateLastUsed, TouchLost, Expire
    <3>4. ASSUME NEW r \in Reqs, Step(r)
          PROVE  touching' \subseteq touching \cup Rows
      <4>1. CASE \/ CreateServiceAccount(r) \/ CreateApiKey(r)
                 \/ RevokeApiKey(r) \/ DeleteServiceAccount(r)
        BY <3>1, <4>1
        DEF CreateServiceAccount, CreateApiKey, RevokeApiKey,
            DeleteServiceAccount
      <4>2. CASE ~ \/ CreateServiceAccount(r) \/ CreateApiKey(r)
                   \/ RevokeApiKey(r) \/ DeleteServiceAccount(r)
        BY <3>4, <4>2
        DEF Step, Throw, FindByProvider, FindAccount, SaveGoogle, SaveOauth,
            FindVerified, UpdateUser, SaveRow, FindDeleted, Delete, DeleteUser,
            FindTotp, SaveTotp, SaveService, SaveKey, Revoke, tables
      <4> QED BY <4>1, <4>2
    <3> QED BY <3>2, <3>3, <3>4, NextSteps
  <2> QED BY <1>0, <2>1 DEF TypeOK
<1>5. signed' \in [Profiles -> Opt(Users)]
  <2>1. ASSUME NEW r \in Reqs, FindByProvider(r)
        PROVE  signed' \in [Profiles -> Opt(Users)]
    BY <1>0, <2>1 DEF FindByProvider, TypeOK
  <2>2. ASSUME NEW r \in Reqs, Delete(r)
        PROVE  signed' \in [Profiles -> Opt(Users)]
    BY <1>0, <2>2 DEF Delete, TypeOK, Opt
  <2>3. ASSUME NEW r \in Reqs, Step(r),
               ~FindByProvider(r), ~SaveOauth(r), ~Delete(r)
        PROVE  UNCHANGED signed
    BY <2>3
    DEF Step, FindAccount, SaveGoogle, FindVerified, UpdateUser, SaveRow,
        FindDeleted, FindTotp, SaveTotp, CreateServiceAccount, SaveService,
        CreateApiKey, SaveKey, RevokeApiKey, Revoke, DeleteServiceAccount,
        history
  <2>4. Background => UNCHANGED signed
    BY DEF Background, Register, RemoveTotp, UseKey, UpdateLastUsed, TouchLost,
           Expire, history
  <2> QED BY <1>0, <1>1, <2>1, <2>2, <2>3, <2>4, NextSteps DEF TypeOK
<1>6. capital' \subseteq Users /\ raced' \subseteq Users
  <2>1. ASSUME NEW r \in Reqs, Step(r)
        PROVE  capital' \subseteq Users /\ raced' \subseteq Users
    <3>1. CASE SaveGoogle(r)
      BY <1>0, <3>1 DEF SaveGoogle, Fresh, TypeOK
    <3>2. CASE FindTotp(r)
      BY <1>0, <3>2 DEF FindTotp, TypeOK
    <3>3. CASE ~SaveGoogle(r) /\ ~FindTotp(r)
      BY <1>0, <2>1, <3>3
      DEF TypeOK, Step, FindByProvider, FindAccount, SaveOauth, FindVerified,
          UpdateUser, SaveRow, FindDeleted, Delete, SaveTotp,
          CreateServiceAccount, SaveService, CreateApiKey, SaveKey,
          RevokeApiKey, Revoke, DeleteServiceAccount, history
    <3> QED BY <3>1, <3>2, <3>3
  <2>2. Background => UNCHANGED <<capital, raced>>
    BY DEF Background, Register, RemoveTotp, UseKey, UpdateLastUsed, TouchLost,
           Expire, history
  <2> QED BY <1>0, <2>1, <2>2, NextSteps DEF TypeOK
<1> QED BY <1>2, <1>3, <1>4, <1>5, <1>6

\* What no request does leaves every request where it is.
LEMMA BackgroundAlone == Background => UNCHANGED req
BY DEF Background, Register, RemoveTotp, UseKey, UpdateLastUsed, TouchLost,
       Expire

LEMMA TypedInit == Init => Typed
<1> SUFFICES ASSUME Init PROVE Typed
  OBVIOUS
<1>1. TypeOK
  BY IdleTyped, DirectoryAssumption DEF Init, TypeOK, Opt
<1>2. \A r \in Reqs : Locals(req[r])
  BY IdleTyped DEF Init
<1>3. \A u \in Users : ~Live(users[u])
  BY DEF Init, Live
<1> QED BY <1>1, <1>2, <1>3 DEF Typed

LEMMA TypedStep == Typed /\ [Next]_vars => Typed'
<1> SUFFICES ASSUME Typed, [Next]_vars PROVE Typed'
  OBVIOUS
<1>1. CASE UNCHANGED vars
  BY <1>1 DEF Typed, TypeOK, vars, tables, history, Live, Valid, Is
<1>2. CASE Next
  <2>0. TypeOK /\ \A r \in Reqs : Locals(req[r])
    BY DEF Typed
  <2>1. req' \in [Reqs -> Request] /\ \A r \in Reqs : Locals(req'[r])
    <3>1. CASE UNCHANGED req
      BY <2>0, <3>1 DEF TypeOK
    <3>2. ASSUME NEW r \in Reqs, NEW q \in Request, Locals(q), Becomes(r, q)
          PROVE  req' \in [Reqs -> Request] /\ \A s \in Reqs : Locals(req'[s])
      BY <2>0, <3>2 DEF TypeOK, Becomes
    <3> QED BY <1>2, <3>1, <3>2, StepLocals, BackgroundAlone, NextSteps
  <2>2. TypeOK'
    BY <1>2, <2>1, UsersMove, KeysMove, TablesTyped DEF TypeOK
  <2>3. \A u \in Users : users'[u] \notin {Free, Gone}
                           => users'[u] \in HumanRow \cup ServiceRow
    BY <1>2, UsersMove DEF Moved, Typed, Live
  <2> QED BY <2>1, <2>2, <2>3 DEF Typed, Live
<1> QED BY <1>1, <1>2

\* Every column and every local of a handler holds a value of its type.
THEOREM AlwaysTyped == Spec => []TypeOK
<1>1. Typed => TypeOK
  BY DEF Typed
<1> QED BY <1>1, TypedInit, TypedStep, PTL DEF Spec

-----------------------------------------------------------------------------
(* What a step may never do to a row *)

\* Only a handler that holds a whole row writes it again.
THEOREM StaysUndone == Spec => NothingUndone
<1> DEFINE Held(u) == \E r \in Reqs : req[r].row # None /\ req[r].user = u
           Kept(u) == /\ users[u] = Gone => users'[u] = Gone
                      /\ Live(users[u]) /\ users[u].verified =>
                           users'[u] = Gone \/ users'[u].verified
<1>1. Typed /\ [Next]_vars =>
        [\A u \in Users :
           (\A r \in Reqs : req[r].row = None \/ req[r].user # u) =>
             /\ users[u] = Gone => users'[u] = Gone
             /\ Live(users[u]) /\ users[u].verified =>
                  users'[u] = Gone \/ users'[u].verified]_vars
  <2> SUFFICES ASSUME Typed, Next, NEW u \in Users, ~Held(u)
               PROVE  Kept(u)
    OBVIOUS
  <2>1. Moved(u)
    BY UsersMove
  <2>2. ~ \E r \in Reqs : /\ req[r].user = u /\ req[r].row \in HumanRow
    BY RowFacts
  <2> QED BY <2>1, <2>2, RowFacts DEF Moved, Live
<1> QED BY <1>1, TypedInit, TypedStep, PTL DEF Spec, NothingUndone

\* Nothing writes active or expired back: revoke() clears the one, time sets the
\* other, and the update of lastUsedAt touches neither.
THEOREM StaysRevoked == Spec => RevokedForGood
<1>1. Typed /\ [Next]_vars =>
        [\A k \in Keys : keys[k] # Free /\ ~Valid(k) => ~Valid(k)']_vars
  <2> SUFFICES ASSUME Typed, Next, NEW k \in Keys, keys[k] # Free, ~Valid(k)
               PROVE  ~Valid(k)'
    OBVIOUS
  <2>1. KeyMoved(k)
    BY KeysMove
  <2>2. Live(keys[k]) => keys[k] \in KeyRow
    BY DEF Typed, TypeOK, Live
  <2> QED BY <2>1, <2>2, RowFacts DEF KeyMoved, Valid, Live, KeyRow
<1> QED BY <1>1, TypedInit, TypedStep, PTL DEF Spec, RevokedForGood

-----------------------------------------------------------------------------
(* Children have users *)

Linked == Typed /\ Kinds /\ KeysKnown /\ ChildrenHaveUsers

\* A handler knows its user as soon as it has one.
LEMMA KindLearnt ==
  ASSUME Typed, Kinds, NEW r \in Reqs, Step(r),
         NEW q, q = req'[r], q # req[r]
  PROVE  /\ ForHuman(q) =>
              /\ HumanOrGone(q)'
              /\ \A s \in Reqs : ForService(req[s]) => req[s].user # q.user
         /\ ForService(q) =>
              /\ ServiceOrGone(q)'
              /\ \A s \in Reqs : ForHuman(req[s]) => req[s].user # q.user
<1> DEFINE p == req[r]
           TellsHuman == /\ HumanOrGone(q)'
                     /\ \A s \in Reqs :
                          ForService(req[s]) => req[s].user # q.user
           TellsService == /\ ServiceOrGone(q)'
                       /\ \A s \in Reqs :
                            ForHuman(req[s]) => req[s].user # q.user
<1>0. p \in Request /\ Locals(p) /\ TypeOK /\ Idle \in Request
  BY IdleTyped DEF Typed, TypeOK
<1> USE <1>0, RowFacts DEF At, Becomes, End
<1>1. ASSUME NEW u \in Users, Is(u, "human"), users' = users, q.user = u
      PROVE  TellsHuman
  BY <1>1 DEF Kinds, HumanOrGone, ServiceOrGone, Is, Live
<1>2. ASSUME NEW u \in Users, NEW x \in HumanRow, users[u] = Free,
             users' = [users EXCEPT ![u] = x], q.user = u
      PROVE  TellsHuman
  <2>1. users'[u] = x /\ x # Free /\ x.type = "human"
    BY <1>2 DEF TypeOK, Live
  <2> QED BY <1>2, <2>1 DEF Kinds, HumanOrGone, ServiceOrGone
<1>3. ASSUME NEW u \in Users, Is(u, "service"), users' = users, q.user = u,
             q.allowed # {} => users[u].org \in q.allowed
      PROVE  TellsService
  BY <1>3 DEF Kinds, HumanOrGone, ServiceOrGone, Is, Live
<1>4. ASSUME NEW u \in Users, NEW x \in ServiceRow, users[u] = Free,
             users' = [users EXCEPT ![u] = x], q.user = u,
             q.allowed # {} => x.org \in q.allowed
      PROVE  TellsService
  <2>1. users'[u] = x /\ x # Free /\ x.type = "service"
    BY <1>4 DEF TypeOK, Live
  <2> QED BY <1>4, <2>1 DEF Kinds, HumanOrGone, ServiceOrGone
<1>5. ASSUME NEW c \in Callers, NEW u \in Users, AccessTo(c, u),
             users' = users, q.user = u, q.allowed = c.allowed
      PROVE  TellsService
  BY <1>3, <1>5, CallersTyped DEF AccessTo
<1> DEFINE Goal == /\ ForHuman(q) => TellsHuman
                   /\ ForService(q) => TellsService
<1>6. CASE \/ Throw(r) \/ SaveOauth(r) \/ SaveRow(r) \/ Delete(r)
           \/ SaveTotp(r) \/ SaveKey(r) \/ Revoke(r)
  <2>1. q = Idle
    BY <1>6 DEF Throw, SaveOauth, SaveRow, Delete, SaveTotp, SaveKey, Revoke,
                TypeOK
  <2> QED BY <2>1 DEF Idle, ForHuman, ForService, Saving
<1>7. CASE FindByProvider(r) \/ FindDeleted(r) \/ FindTotp(r)
            \/ CreateServiceAccount(r)
  <2>1. /\ q.pc \in {"findByEmail", "delete", "saveTotp", "saveService"}
        /\ q.pc = "delete" => q.allowed = {}
    <3>1. CASE FindByProvider(r)
      <4>1. PICK x \in Profiles, e \in Emails :
              q = [Idle EXCEPT !.pc = "findByEmail", !.profile = x, !.email = e]
        BY <3>1 DEF FindByProvider, TypeOK
      <4> QED BY <4>1 DEF Idle
    <3>2. CASE FindDeleted(r)
      BY <3>2 DEF FindDeleted, TypeOK, Idle
    <3>3. CASE FindTotp(r)
      BY <3>3 DEF FindTotp, TypeOK, Idle
    <3>4. CASE CreateServiceAccount(r)
      BY <3>4 DEF CreateServiceAccount, TypeOK, Idle
    <3> QED BY <1>7, <3>1, <3>2, <3>3, <3>4
  <2> QED BY <2>1 DEF ForHuman, ForService, Saving
<1>8. CASE FindAccount(r)
  <2>1. CASE q = [p EXCEPT !.pc = "saveGoogle"]
    BY <2>1 DEF ForHuman, ForService, Saving, Request
  <2>2. ASSUME NEW u \in FindByEmail(p.email),
               q = [p EXCEPT !.pc = "saveOauth", !.user = u]
        PROVE  Goal
    <3>1. q.pc = "saveOauth" /\ q.user = u
      BY <2>2 DEF Request
    <3>2. p.email \in Emails
      BY <1>8 DEF FindAccount, Locals
    <3>3. u \in Users /\ Is(u, "human")
      BY <3>2, FoundHuman
    <3>4. users' = users
      BY <1>8 DEF FindAccount, tables
    <3> QED BY <1>1, <3>1, <3>3, <3>4 DEF ForService
  <2> QED BY <1>8, <2>1, <2>2 DEF FindAccount, TypeOK
<1>9. CASE SaveGoogle(r)
  <2>0. PICK u \in Fresh(users) :
          /\ SaveUser(u, Human(p.email, TRUE))
          /\ Becomes(r, [p EXCEPT !.pc = "saveOauth", !.user = u])
    BY <1>9 DEF SaveGoogle
  <2>1. /\ u \in Users /\ users[u] = Free
        /\ users' = [users EXCEPT ![u] = Human(p.email, TRUE)]
        /\ q = [p EXCEPT !.pc = "saveOauth", !.user = u]
    BY <2>0 DEF SaveUser, Fresh, TypeOK
  <2>2. q.pc = "saveOauth" /\ q.user = u
    BY <2>1 DEF Request
  <2>3. Human(p.email, TRUE) \in HumanRow
    BY <1>9, RowsMade DEF SaveGoogle, Locals
  <2> QED BY <1>2, <2>1, <2>2, <2>3 DEF ForService
<1>10. CASE FindVerified(r) \/ UpdateUser(r)
  <2>1. PICK u \in Users :
          /\ Is(u, "human") /\ q.user = u /\ q.pc \in Saving
    <3>1. CASE FindVerified(r)
      BY <3>1 DEF FindVerified, TypeOK, Idle, Saving
    <3>2. CASE UpdateUser(r)
      BY <3>2 DEF UpdateUser, TypeOK, Idle, Saving
    <3> QED BY <1>10, <3>1, <3>2
  <2>2. users' = users
    BY <1>10 DEF FindVerified, UpdateUser, tables
  <2> QED BY <1>1, <2>1, <2>2 DEF ForService, Saving
<1>11. CASE SaveService(r)
  <2>1. PICK u \in Users :
          /\ users[u] = Free
          /\ users' = [users EXCEPT ![u] = p.row]
          /\ q = [p EXCEPT !.pc = "saveKey", !.user = u]
    BY <1>11 DEF SaveService, SaveUser, Fresh, TypeOK
  <2>2. q.pc = "saveKey" /\ q.user = u /\ q.allowed = p.allowed
    BY <2>1 DEF Request
  <2>3. p.row \in ServiceRow /\ (p.allowed # {} => p.row.org \in p.allowed)
    BY <1>11 DEF SaveService, Locals
  <2> QED BY <1>4, <2>1, <2>2, <2>3 DEF ForHuman, Saving
<1>12. CASE CreateApiKey(r) \/ RevokeApiKey(r) \/ DeleteServiceAccount(r)
  <2>1. PICK c \in Callers, u \in Users :
          /\ AccessTo(c, u) /\ q.user = u /\ q.allowed = c.allowed
          /\ q.pc \in {"saveKey", "revoke", "delete"}
    <3>1. CASE CreateApiKey(r)
      BY <3>1 DEF CreateApiKey, TypeOK, Idle
    <3>2. CASE RevokeApiKey(r)
      BY <3>2 DEF RevokeApiKey, TypeOK, Idle
    <3>3. CASE DeleteServiceAccount(r)
      BY <3>3 DEF DeleteServiceAccount, TypeOK, Idle
    <3> QED BY <1>12, <3>1, <3>2, <3>3
  <2>2. users' = users
    BY <1>12 DEF CreateApiKey, RevokeApiKey, DeleteServiceAccount
  <2> QED BY <1>5, <2>1, <2>2 DEF ForHuman, Saving
<1> QED BY <1>6, <1>7, <1>8, <1>9, <1>10, <1>11, <1>12 DEF Step

\* It stays true while others work on the same user.
LEMMA KindKept ==
  ASSUME Typed, Kinds, Next, NEW s \in Reqs, NEW q, q = req[s]
  PROVE  /\ ForHuman(q) => HumanOrGone(q)'
         /\ ForService(q) => ServiceOrGone(q)'
<1> SUFFICES ASSUME ForHuman(q) \/ ForService(q)
             PROVE  /\ ForHuman(q) => HumanOrGone(q)'
                    /\ ForService(q) => ServiceOrGone(q)'
  OBVIOUS
<1>1. q.user \in Users
  BY DEF Typed, Locals, ForHuman, ForService, Saving
<1>2. Moved(q.user) /\ users[q.user] # Free
  BY <1>1, UsersMove DEF Kinds, HumanOrGone, ServiceOrGone
<1>3. CASE users'[q.user] = users[q.user] \/ users'[q.user] = Gone
  BY <1>3, RowFacts DEF Kinds, HumanOrGone, ServiceOrGone, Live
<1>4. ASSUME NEW r \in Reqs, req[r].pc \in Saving, req[r].user = q.user,
             users'[q.user] = req[r].row, req[r].row \in HumanRow
      PROVE  /\ ForHuman(q) => HumanOrGone(q)'
             /\ ~ForService(q)
  <2>1. ~ForService(q)
    BY <1>4 DEF Kinds, ForHuman
  <2>2. users'[q.user] # Free /\ users'[q.user].type = "human"
    BY <1>4, RowFacts DEF Live
  <2> QED BY <2>1, <2>2 DEF HumanOrGone
<1> QED BY <1>2, <1>3, <1>4 DEF Moved

\* A request's step is nobody else's.
LEMMA StepAlone ==
  ASSUME Typed, NEW r \in Reqs, Step(r)
  PROVE  \A s \in Reqs : s # r => req'[s] = req[s]
BY StepLocals DEF Typed, TypeOK, Becomes

LEMMA KindsStep ==
  ASSUME Typed, Kinds, Next
  PROVE  Kinds'
<1>1. \A s \in Reqs : req'[s] = req[s] =>
        /\ ForHuman(req[s])' => HumanOrGone(req[s])'
        /\ ForService(req[s])' => ServiceOrGone(req[s])'
  <2> SUFFICES ASSUME NEW s \in Reqs, NEW q, q = req[s], q = req'[s]
               PROVE  /\ ForHuman(q) => HumanOrGone(q)'
                      /\ ForService(q) => ServiceOrGone(q)'
    BY DEF ForHuman, ForService, HumanOrGone, ServiceOrGone, Live
  <2> QED BY KindKept
<1>2. CASE Background
  BY <1>1, <1>2, BackgroundAlone DEF Kinds, ForHuman, ForService
<1>3. ASSUME NEW r \in Reqs, Step(r) PROVE Kinds'
  <2>1. CASE req'[r] = req[r]
    <3>1. \A s \in Reqs : req'[s] = req[s]
      BY <1>3, <2>1, StepAlone
    <3> QED BY <1>1, <3>1 DEF Kinds, ForHuman, ForService
  <2>2. CASE req'[r] # req[r]
    <3>1. PICK q : q = req'[r]
      OBVIOUS
    <3>2. /\ ForHuman(q) =>
               /\ HumanOrGone(q)'
               /\ \A s \in Reqs : ForService(req[s]) => req[s].user # q.user
          /\ ForService(q) =>
               /\ ServiceOrGone(q)'
               /\ \A s \in Reqs : ForHuman(req[s]) => req[s].user # q.user
      BY <1>3, <2>2, <3>1, KindLearnt
    <3>3. /\ ForHuman(req[r])' => HumanOrGone(req[r])'
          /\ ForService(req[r])' => ServiceOrGone(req[r])'
      BY <3>1, <3>2 DEF ForHuman, ForService, HumanOrGone, ServiceOrGone, Live
    <3>4. \A s \in Reqs : s # r => req'[s] = req[s]
      BY <1>3, StepAlone
    <3>5. \A a, b \in Reqs : ForHuman(req[a])' /\ ForService(req[b])'
                               => req'[a].user # req'[b].user
      BY <3>1, <3>2, <3>4 DEF Kinds, ForHuman, ForService, Saving
    <3>6. \A s \in Reqs : /\ ForHuman(req[s])' => HumanOrGone(req[s])'
                          /\ ForService(req[s])' => ServiceOrGone(req[s])'
      BY <1>1, <3>3, <3>4
    <3> QED BY <3>5, <3>6 DEF Kinds
  <2> QED BY <2>1, <2>2
<1> QED BY <1>2, <1>3, NextSteps

\* Only revokeApiKey() goes on to revoke.
LEMMA NeverRevoking ==
  ASSUME TypeOK, NEW r \in Reqs, Step(r), ~RevokeApiKey(r), req'[r] # req[r]
  PROVE  req'[r].pc # "revoke"
<1> USE DEF TypeOK, Becomes, End
<1>i. Idle \in Request
  BY IdleTyped
<1>1. CASE \/ Throw(r) \/ SaveOauth(r) \/ SaveRow(r) \/ Delete(r)
           \/ SaveTotp(r) \/ SaveKey(r) \/ Revoke(r)
  BY <1>1 DEF Throw, SaveOauth, SaveRow, Delete, SaveTotp, SaveKey, Revoke, Idle
<1>2. CASE FindByProvider(r)
  <2>1. PICK x \in Profiles, e \in Emails :
          req'[r] = [Idle EXCEPT !.pc = "findByEmail", !.profile = x,
                                 !.email = e]
    BY <1>2 DEF FindByProvider
  <2> QED BY <2>1 DEF Idle
<1>3. CASE FindAccount(r)
  BY <1>3 DEF FindAccount, Request
<1>4. CASE SaveGoogle(r)
  BY <1>4 DEF SaveGoogle, Request
<1>5. CASE FindVerified(r)
  BY <1>5 DEF FindVerified, Idle
<1>6. CASE UpdateUser(r)
  BY <1>6 DEF UpdateUser, Idle
<1>7. CASE FindDeleted(r)
  BY <1>7 DEF FindDeleted, Idle
<1>8. CASE FindTotp(r)
  BY <1>8 DEF FindTotp, Idle
<1>9. CASE CreateServiceAccount(r)
  BY <1>9 DEF CreateServiceAccount, Idle
<1>10. CASE SaveService(r)
  BY <1>10 DEF SaveService, Request
<1>11. CASE CreateApiKey(r)
  BY <1>11 DEF CreateApiKey, Idle
<1>12. CASE DeleteServiceAccount(r)
  BY <1>12 DEF DeleteServiceAccount, Idle
<1> QED BY <1>1, <1>2, <1>3, <1>4, <1>5, <1>6, <1>7, <1>8, <1>9, <1>10, <1>11,
           <1>12 DEF Step

LEMMA KeysKnownStep ==
  ASSUME Typed, KeysKnown, Next
  PROVE  KeysKnown'
<1>0. TypeOK
  BY DEF Typed
<1> DEFINE Known(k, u) == /\ keys[k] # Free
                          /\ Live(keys[k]) => keys[k].user = u
<1>1. ASSUME NEW k \in Keys, NEW u, Known(k, u)
      PROVE  /\ keys'[k] # Free
             /\ keys'[k] # Gone => keys'[k].user = u
  BY <1>1, KeysMove, RowFacts DEF KeyMoved, Live
<1>2. ASSUME NEW s \in Reqs, req'[s].pc = "revoke"
      PROVE  Known(req'[s].key, req'[s].user) /\ req'[s].key \in Keys
  <2>1. CASE req'[s] = req[s]
    BY <1>2, <2>1 DEF KeysKnown, At, Typed, Locals
  <2>2. CASE req'[s] # req[s]
    <3>1. Step(s)
      BY <2>2, StepAlone, NextSteps, BackgroundAlone
    <3>2. CASE RevokeApiKey(s)
      <4>1. PICK c \in Callers, u \in Users :
              \E k \in FindKey(u) :
                Becomes(s, [Idle EXCEPT !.pc = "revoke", !.user = u, !.key = k,
                                        !.allowed = c.allowed])
        BY <3>2 DEF RevokeApiKey
      <4>2. PICK k \in FindKey(u) :
              Becomes(s, [Idle EXCEPT !.pc = "revoke", !.user = u, !.key = k,
                                      !.allowed = c.allowed])
        BY <4>1
      <4>3. req'[s].key = k /\ req'[s].user = u
        BY <1>0, <4>2 DEF Becomes, TypeOK, Idle
      <4> QED BY <4>3 DEF FindKey, Live
    <3>3. CASE ~RevokeApiKey(s)
      BY <1>0, <1>2, <2>2, <3>1, <3>3, NeverRevoking
    <3> QED BY <3>2, <3>3
  <2> QED BY <2>1, <2>2
<1> QED BY <1>1, <1>2 DEF KeysKnown, At, Live

\* A user stays of one kind until it is deleted.
LEMMA KindFixed ==
  ASSUME Typed, Kinds, Next, NEW u \in Users, Live(users[u])
  PROVE  \/ Live(users[u])' /\ users'[u].type = users[u].type
         \/ users'[u] = Gone /\ \E r \in Reqs : Delete(r) /\ req[r].user = u
<1>1. Moved(u)
  BY UsersMove
<1>2. ASSUME NEW r \in Reqs, req[r].pc \in Saving, req[r].user = u,
             users'[u] = req[r].row, req[r].row \in HumanRow
      PROVE  Live(users[u])' /\ users'[u].type = users[u].type
  <2>1. users[u].type = "human"
    BY <1>2 DEF Kinds, ForHuman, HumanOrGone
  <2> QED BY <1>2, <2>1, RowFacts DEF Live
<1> QED BY <1>1, <1>2 DEF Moved, Live

LEMMA ChildrenStep ==
  ASSUME Typed, Kinds, ChildrenHaveUsers, Next
  PROVE  ChildrenHaveUsers'
<1>0. TypeOK /\ \A r \in Reqs : Locals(req[r])
  BY DEF Typed
<1> USE RowFacts DEF Is
<1>1. ASSUME NEW x \in Profiles, oauth'[x] # None
      PROVE  Is(oauth[x], "human")'
  <2>1. CASE oauth'[x] = oauth[x]
    <3>1. /\ oauth[x] \in Users /\ Live(users[oauth[x]])
          /\ users[oauth[x]].type = "human"
      BY <1>0, <1>1, <2>1 DEF TypeOK, Opt, ChildrenHaveUsers
    <3>2. ASSUME NEW r \in Reqs, Delete(r), req[r].user = oauth[x]
          PROVE  FALSE
      BY <1>1, <2>1, <3>2 DEF Delete, DeleteUser
    <3> QED BY <2>1, <3>1, <3>2, KindFixed DEF Live
  <2>2. CASE oauth'[x] # oauth[x]
    <3>1. PICK r \in Reqs : SaveOauth(r)
      <4>1. ASSUME NEW r \in Reqs, Step(r), ~SaveOauth(r) PROVE FALSE
        <5>1. CASE Delete(r)
          BY <1>1, <2>2, <5>1 DEF Delete, DeleteUser
        <5>2. CASE ~Delete(r)
          BY <2>2, <4>1, <5>2
          DEF Step, Throw, FindByProvider, FindAccount, SaveGoogle,
              FindVerified, UpdateUser, SaveRow, FindDeleted, FindTotp,
              SaveTotp, CreateServiceAccount, SaveService, CreateApiKey,
              SaveKey, RevokeApiKey, Revoke, DeleteServiceAccount, tables
        <5> QED BY <5>1, <5>2
      <4>2. ~Background
        BY <2>2
        DEF Background, Register, RemoveTotp, UseKey, UpdateLastUsed, TouchLost,
            Expire
      <4> QED BY <4>1, <4>2, NextSteps
    <3>2. /\ oauth'[x] = req[r].user /\ Live(users[req[r].user])
          /\ users' = users /\ req[r].pc = "saveOauth"
      BY <1>0, <2>2, <3>1 DEF SaveOauth, At, TypeOK
    <3> QED BY <3>2 DEF Kinds, ForHuman, HumanOrGone, Live
  <2> QED BY <2>1, <2>2
<1>2. ASSUME NEW u \in Users, totp'[u] > 0
      PROVE  Live(users[u])'
  <2>1. CASE totp[u] > 0
    <3>1. ASSUME NEW r \in Reqs, Delete(r), req[r].user = u
          PROVE  FALSE
      <4>1. totp'[u] = 0
        BY <1>0, <3>1 DEF Delete, DeleteUser, TypeOK
      <4> QED BY <1>2, <4>1
    <3> QED BY <2>1, <3>1, KindFixed DEF ChildrenHaveUsers
  <2>2. CASE ~(totp[u] > 0)
    <3>1. totp[u] = 0
      BY <1>0, <2>2, DirectoryAssumption DEF TypeOK
    <3>2. PICK r \in Reqs : SaveTotp(r)
      <4>1. ASSUME NEW r \in Reqs, Step(r), ~SaveTotp(r) PROVE FALSE
        <5>1. CASE Delete(r)
          <6>1. totp'[u] = 0
            BY <1>0, <3>1, <5>1 DEF Delete, DeleteUser, TypeOK
          <6> QED BY <1>2, <6>1
        <5>2. CASE ~Delete(r)
          BY <1>2, <2>2, <4>1, <5>2
          DEF Step, Throw, FindByProvider, FindAccount, SaveGoogle, SaveOauth,
              FindVerified, UpdateUser, SaveRow, FindDeleted, FindTotp,
              CreateServiceAccount, SaveService, CreateApiKey, SaveKey,
              RevokeApiKey, Revoke, DeleteServiceAccount, tables
        <5> QED BY <5>1, <5>2
      <4>2. ASSUME RemoveTotp PROVE FALSE
        <5>1. PICK v \in Users : totp' = [totp EXCEPT ![v] = 0]
          BY <4>2 DEF RemoveTotp
        <5>2. totp'[u] = 0
          BY <1>0, <3>1, <5>1 DEF TypeOK
        <5> QED BY <1>2, <5>2
      <4>3. ~Background
        BY <1>2, <2>2, <4>2
        DEF Background, Register, UseKey, UpdateLastUsed, TouchLost, Expire
      <4> QED BY <4>1, <4>3, NextSteps
    <3>3. totp'[u] # totp[u]
      BY <1>2, <2>2
    <3>4. u = req[r].user /\ Live(users[u]) /\ users' = users
      BY <1>0, <3>2, <3>3 DEF SaveTotp, TypeOK
    <3> QED BY <3>4 DEF Live
  <2> QED BY <2>1, <2>2
<1>3. ASSUME NEW k \in Keys, Live(keys[k])'
      PROVE  Is(keys[k].user, "service")'
  <2>1. KeyMoved(k)
    BY KeysMove
  <2>2. CASE /\ Live(keys[k]) /\ keys'[k] \in KeyRow
             /\ keys'[k].user = keys[k].user
    <3>1. /\ keys[k].user \in Users /\ Live(users[keys[k].user])
          /\ users[keys[k].user].type = "service"
      BY <2>2 DEF KeyRow, ChildrenHaveUsers
    <3>2. ASSUME NEW r \in Reqs, Delete(r), req[r].user = keys[k].user
          PROVE  FALSE
      BY <1>3, <2>2, <3>2 DEF Delete, DeleteUser, Live
    <3> QED BY <2>2, <3>1, <3>2, KindFixed DEF Live
  <2>3. ASSUME NEW r \in Reqs, SaveKey(r), keys'[k].user = req[r].user
        PROVE  Is(keys[k].user, "service")'
    <3>1. Live(users[req[r].user]) /\ users' = users /\ req[r].pc = "saveKey"
      BY <2>3 DEF SaveKey, At
    <3> QED BY <2>3, <3>1 DEF Kinds, ForService, ServiceOrGone, Live
  <2>4. Live(keys[k]) => keys[k] \in KeyRow
    BY <1>0 DEF TypeOK, Live
  <2> QED BY <1>3, <2>1, <2>2, <2>3, <2>4 DEF KeyMoved, Live
<1> QED BY <1>1, <1>2, <1>3 DEF ChildrenHaveUsers

LEMMA LinkedInit == Init => Linked
<1> SUFFICES ASSUME Init PROVE Linked
  OBVIOUS
<1>1. \A r \in Reqs : req[r].pc = "idle"
  BY DEF Init, Idle
<1>2. ChildrenHaveUsers
  BY DEF Init, ChildrenHaveUsers, Live
<1> QED BY <1>1, <1>2, TypedInit
        DEF Linked, Kinds, ForHuman, ForService, KeysKnown, At, Saving

LEMMA LinkedStep == Linked /\ [Next]_vars => Linked'
<1> SUFFICES ASSUME Linked, [Next]_vars PROVE Linked'
  OBVIOUS
<1>1. CASE Next
  BY <1>1, TypedStep, KindsStep, KeysKnownStep, ChildrenStep DEF Linked
<1>2. CASE UNCHANGED vars
  BY <1>2, TypedStep
  DEF Linked, Kinds, KeysKnown, ChildrenHaveUsers, ForHuman, ForService,
      HumanOrGone, ServiceOrGone, At, Is, Live, vars, tables
<1> QED BY <1>1, <1>2

\* The foreign keys refuse a profile, an enrolment or a key whose user is gone,
\* and cascade; that its user is of the right kind, and stays so, is what the
\* handlers found awaits before they insert it.
THEOREM ChildrenKeptWithUsers == Spec => []ChildrenHaveUsers
<1>1. Linked => ChildrenHaveUsers
  BY DEF Linked
<1> QED BY <1>1, LinkedInit, LinkedStep, PTL DEF Spec

\* A caller with a limited scope writes through a request that the guard tied
\* to its organisations, whatever became of the account in between.
THEOREM ScopeKept == Spec => ScopedToOrg
<1> DEFINE UserOf(k) == IF Live(keys[k]) THEN keys[k].user ELSE keys'[k].user
           Goal(r) ==
             /\ \A u \in Users : users'[u] # users[u] =>
                  \/ Is(u, "service") /\ users[u].org \in req[r].allowed
                  \/ Is(u, "service")' /\ users'[u].org \in req[r].allowed
             /\ \A k \in Keys : keys'[k] # keys[k] =>
                  users[UserOf(k)].org \in req[r].allowed
<1>1. Linked /\ [Next]_vars =>
        [\A r \in Reqs : req'[r] # req[r] /\ req[r].allowed # {} =>
           /\ \A u \in Users : users'[u] # users[u] =>
                \/ Is(u, "service") /\ users[u].org \in req[r].allowed
                \/ Is(u, "service")' /\ users'[u].org \in req[r].allowed
           /\ \A k \in Keys : keys'[k] # keys[k] =>
                users[IF Live(keys[k]) THEN keys[k].user
                                       ELSE keys'[k].user].org
                  \in req[r].allowed]_vars
  <2> SUFFICES ASSUME Linked, Next, NEW r \in Reqs, req'[r] # req[r],
                      req[r].allowed # {}
               PROVE  Goal(r)
    OBVIOUS
  <2>1. /\ Typed /\ TypeOK /\ Kinds /\ KeysKnown /\ ChildrenHaveUsers
        /\ Locals(req[r])
    BY DEF Linked, Typed
  <2>2. Step(r)
    BY <2>1, StepAlone, NextSteps, BackgroundAlone
  <2>3. req[r].pc \in {"delete", "saveService", "saveKey", "revoke"}
    BY <2>1 DEF Locals
  <2>4. CASE Delete(r)
    <3>1. /\ users' = [users EXCEPT ![req[r].user] = Gone]
          /\ keys' = [k \in Keys |->
               IF Live(keys[k]) /\ keys[k].user = req[r].user THEN Gone
                                                              ELSE keys[k]]
          /\ ForService(req[r])
      BY <2>4 DEF Delete, DeleteUser, ForService, At
    <3>2. ServiceOrGone(req[r])
      BY <2>1, <3>1 DEF Kinds
    <3>3. ASSUME NEW u \in Users, users'[u] # users[u]
          PROVE  Is(u, "service") /\ users[u].org \in req[r].allowed
      <4>1. u = req[r].user /\ users[u] # Gone
        BY <2>1, <3>1, <3>3 DEF TypeOK
      <4> QED BY <3>2, <4>1 DEF ServiceOrGone, Is, Live
    <3>4. ASSUME NEW k \in Keys, keys'[k] # keys[k]
          PROVE  users[UserOf(k)].org \in req[r].allowed
      <4>1. Live(keys[k]) /\ keys[k].user = req[r].user
        BY <3>1, <3>4
      <4>2. Live(users[req[r].user])
        BY <2>1, <4>1 DEF ChildrenHaveUsers, Is
      <4> QED BY <3>2, <4>1, <4>2 DEF ServiceOrGone
    <3> QED BY <3>3, <3>4
  <2>5. CASE SaveService(r)
    <3>1. PICK u \in Users :
            users[u] = Free /\ users' = [users EXCEPT ![u] = req[r].row]
      BY <2>1, <2>5 DEF SaveService, SaveUser, Fresh, TypeOK
    <3>2. req[r].row \in ServiceRow /\ req[r].row.org \in req[r].allowed
      BY <2>1, <2>5 DEF SaveService, At, Locals
    <3>3. keys' = keys
      BY <2>5 DEF SaveService
    <3>4. ASSUME NEW v \in Users, users'[v] # users[v]
          PROVE  Is(v, "service")' /\ users'[v].org \in req[r].allowed
      <4>1. users'[v] = req[r].row
        BY <2>1, <3>1, <3>4 DEF TypeOK
      <4> QED BY <3>2, <4>1, RowFacts DEF Is, Live
    <3> QED BY <3>3, <3>4
  <2>6. CASE SaveKey(r)
    <3>1. users' = users /\ Live(users[req[r].user]) /\ ForService(req[r])
      BY <2>6 DEF SaveKey, At, ForService
    <3>2. users[req[r].user].org \in req[r].allowed
      BY <2>1, <3>1 DEF Kinds, ServiceOrGone
    <3>3. PICK j \in Keys :
            /\ keys[j] = Free
            /\ keys' = [keys EXCEPT ![j] = [user |-> req[r].user,
                                            active |-> TRUE,
                                            expired |-> FALSE]]
      BY <2>1, <2>6 DEF SaveKey, Fresh, TypeOK
    <3>4. ASSUME NEW k \in Keys, keys'[k] # keys[k]
          PROVE  users[UserOf(k)].org \in req[r].allowed
      <4>1. ~Live(keys[k]) /\ keys'[k].user = req[r].user
        BY <2>1, <3>3, <3>4 DEF TypeOK, Live
      <4> QED BY <3>2, <4>1
    <3> QED BY <3>1, <3>4
  <2>7. CASE Revoke(r)
    <3>1. users' = users /\ ForService(req[r]) /\ At(r, "revoke")
      BY <2>7 DEF Revoke, At, ForService
    <3>2. ASSUME NEW k \in Keys, keys'[k] # keys[k]
          PROVE  users[UserOf(k)].org \in req[r].allowed
      <4>1. Live(keys[k]) /\ k = req[r].key
        BY <2>7, <3>2 DEF Revoke
      <4>2. keys[k].user = req[r].user /\ Live(users[req[r].user])
        BY <2>1, <3>1, <4>1 DEF KeysKnown, ChildrenHaveUsers, Is
      <4>3. users[req[r].user].org \in req[r].allowed
        BY <2>1, <3>1, <4>2 DEF Kinds, ServiceOrGone
      <4> QED BY <4>1, <4>2, <4>3
    <3> QED BY <3>1, <3>2
  <2>8. CASE Throw(r)
    BY <2>8 DEF Throw, tables
  <2>9. ~ \/ FindByProvider(r) \/ FindAccount(r) \/ SaveGoogle(r)
          \/ SaveOauth(r) \/ FindVerified(r) \/ UpdateUser(r) \/ SaveRow(r)
          \/ FindDeleted(r) \/ FindTotp(r) \/ SaveTotp(r)
          \/ CreateServiceAccount(r) \/ CreateApiKey(r) \/ RevokeApiKey(r)
          \/ DeleteServiceAccount(r)
    BY <2>3
    DEF At, FindByProvider, FindAccount, SaveGoogle, SaveOauth, FindVerified,
        UpdateUser, SaveRow, FindDeleted, FindTotp, SaveTotp,
        CreateServiceAccount, CreateApiKey, RevokeApiKey, DeleteServiceAccount
  <2> QED BY <2>2, <2>4, <2>5, <2>6, <2>7, <2>8, <2>9 DEF Step
<1> QED BY <1>1, LinkedInit, LinkedStep, PTL DEF Spec, ScopedToOrg

-----------------------------------------------------------------------------
(* A profile and its user *)

LEMMA SignedStep ==
  ASSUME Typed, SignedLinked, Next
  PROVE  /\ SignedLinked'
         /\ \A x \in Profiles :
              signed[x] # None => signed'[x] \in {signed[x], None}
<1> DEFINE Goal == /\ SignedLinked'
                   /\ \A x \in Profiles :
                        signed[x] # None => signed'[x] \in {signed[x], None}
<1>0. TypeOK
  BY DEF Typed
<1>1. CASE UNCHANGED <<oauth, signed>>
  BY <1>1 DEF SignedLinked
<1>2. ASSUME NEW r \in Reqs, FindByProvider(r) PROVE Goal
  <2>1. UNCHANGED oauth
    BY <1>2 DEF FindByProvider, tables
  <2>2. CASE UNCHANGED signed
    BY <1>1, <2>1, <2>2
  <2>3. ASSUME NEW x \in Profiles, oauth[x] # None,
               signed' = [signed EXCEPT ![x] = oauth[x]]
        PROVE  Goal
    BY <1>0, <2>1, <2>3 DEF SignedLinked, TypeOK
  <2> QED BY <1>2, <2>2, <2>3 DEF FindByProvider
<1>3. ASSUME NEW r \in Reqs, SaveOauth(r) PROVE Goal
  <2>1. PICK x \in Profiles, u \in Users :
          /\ oauth[x] = None
          /\ oauth' = [oauth EXCEPT ![x] = u]
          /\ signed' = [signed EXCEPT ![x] = u]
    BY <1>3 DEF SaveOauth, At, Typed, Locals
  <2> QED BY <1>0, <2>1 DEF SignedLinked, TypeOK
<1>4. ASSUME NEW r \in Reqs, Delete(r) PROVE Goal
  <2>1. PICK u \in Users :
          /\ oauth' = [x \in Profiles |->
                         IF oauth[x] = u THEN None ELSE oauth[x]]
          /\ signed' = [x \in Profiles |->
                          IF signed[x] = u THEN None ELSE signed[x]]
    BY <1>4 DEF Delete, DeleteUser, At, Typed, Locals
  <2> QED BY <2>1 DEF SignedLinked
<1>5. ASSUME NEW r \in Reqs, Step(r), ~FindByProvider(r), ~SaveOauth(r),
             ~Delete(r)
      PROVE  UNCHANGED <<oauth, signed>>
  BY <1>5
  DEF Step, Throw, FindAccount, SaveGoogle, FindVerified, UpdateUser, SaveRow,
      FindDeleted, FindTotp, SaveTotp, CreateServiceAccount, SaveService,
      CreateApiKey, SaveKey, RevokeApiKey, Revoke, DeleteServiceAccount, tables,
      history
<1>6. Background => UNCHANGED <<oauth, signed>>
  BY DEF Background, Register, RemoveTotp, UseKey, UpdateLastUsed, TouchLost,
         Expire, history
<1> QED BY <1>1, <1>2, <1>3, <1>4, <1>5, <1>6, NextSteps

\* The provider's id is looked for before the address, and unique: of two
\* sign-ins that overlap, the second fails to link the user that it made.
THEOREM ProfileKeepsUser == Spec => SameProfileSameUser
<1> DEFINE I == Typed /\ SignedLinked
<1>1. Init => I
  BY TypedInit DEF Init, SignedLinked
<1>2. I /\ [Next]_vars => I'
  <2>1. CASE UNCHANGED vars
    BY <2>1, TypedStep DEF SignedLinked, vars, tables, history
  <2>2. CASE Next
    BY <2>2, TypedStep, SignedStep
  <2> QED BY <2>1, <2>2
<1>3. I /\ [Next]_vars =>
        [\A p \in Profiles :
           signed[p] # None => signed'[p] \in {signed[p], None}]_vars
  BY SignedStep
<1> HIDE DEF I
<1> QED BY <1>1, <1>2, <1>3, PTL DEF Spec, SameProfileSameUser

-----------------------------------------------------------------------------
(* Enrolments *)

\* Only enrollTotp() goes on to save an enrolment.
LEMMA OnlyFindTotp ==
  ASSUME TypeOK, NEW r \in Reqs, Step(r), ~FindTotp(r), req'[r] # req[r]
  PROVE  req'[r].pc # "saveTotp"
<1> USE DEF TypeOK, Becomes, End
<1>i. Idle \in Request
  BY IdleTyped
<1>1. CASE \/ Throw(r) \/ SaveOauth(r) \/ SaveRow(r) \/ Delete(r)
           \/ SaveTotp(r) \/ SaveKey(r) \/ Revoke(r)
  BY <1>1 DEF Throw, SaveOauth, SaveRow, Delete, SaveTotp, SaveKey, Revoke, Idle
<1>2. CASE FindByProvider(r)
  <2>1. PICK x \in Profiles, e \in Emails :
          req'[r] = [Idle EXCEPT !.pc = "findByEmail", !.profile = x,
                                 !.email = e]
    BY <1>2 DEF FindByProvider
  <2> QED BY <2>1 DEF Idle
<1>3. CASE FindAccount(r)
  BY <1>3 DEF FindAccount, Request
<1>4. CASE SaveGoogle(r)
  BY <1>4 DEF SaveGoogle, Request
<1>5. CASE FindVerified(r)
  BY <1>5 DEF FindVerified, Idle
<1>6. CASE UpdateUser(r)
  BY <1>6 DEF UpdateUser, Idle
<1>7. CASE FindDeleted(r)
  BY <1>7 DEF FindDeleted, Idle
<1>8. CASE RevokeApiKey(r)
  BY <1>8 DEF RevokeApiKey, Idle
<1>9. CASE CreateServiceAccount(r)
  BY <1>9 DEF CreateServiceAccount, Idle
<1>10. CASE SaveService(r)
  BY <1>10 DEF SaveService, Request
<1>11. CASE CreateApiKey(r)
  BY <1>11 DEF CreateApiKey, Idle
<1>12. CASE DeleteServiceAccount(r)
  BY <1>12 DEF DeleteServiceAccount, Idle
<1> QED BY <1>1, <1>2, <1>3, <1>4, <1>5, <1>6, <1>7, <1>8, <1>9, <1>10, <1>11,
           <1>12 DEF Step

LEMMA EnrolmentsStep ==
  ASSUME Typed, Enrolments, Next
  PROVE  Enrolments'
<1>0. TypeOK /\ totp \in [Users -> 0 .. MaxTotp] /\ MaxTotp \in Nat
  BY DirectoryAssumption DEF Typed, TypeOK
<1> DEFINE Waits(s, u) == At(s, "saveTotp") /\ req[s].user = u
\* What a step may do to the enrolments of a user.
<1>1. ASSUME \A u \in Users : totp'[u] \in {0, totp[u]}, raced' = raced,
             \A s \in Reqs : At(s, "saveTotp")' => req'[s] = req[s]
      PROVE  Enrolments'
  <2>1. EnrolledOnce'
    BY <1>0, <1>1 DEF Enrolments, EnrolledOnce
  <2>2. ASSUME NEW s \in Reqs, At(s, "saveTotp")', req'[s].user \notin raced'
        PROVE  /\ totp'[req'[s].user] = 0
               /\ \A r \in Reqs :
                    At(r, "saveTotp")' /\ req'[r].user = req'[s].user => r = s
    <3>1. At(s, "saveTotp") /\ req[s].user \in Users /\ req'[s] = req[s]
      BY <1>1, <2>2 DEF At, Typed, Locals
    <3>2. /\ totp[req[s].user] = 0
          /\ \A r \in Reqs :
               At(r, "saveTotp") /\ req[r].user = req[s].user => r = s
      BY <1>1, <2>2, <3>1 DEF Enrolments
    <3> QED BY <1>1, <3>1, <3>2 DEF At
  <2> QED BY <2>1, <2>2 DEF Enrolments
<1>2. CASE Background
  <2>1. CASE RemoveTotp
    <3>1. PICK u \in Users : totp' = [totp EXCEPT ![u] = 0]
      BY <2>1 DEF RemoveTotp
    <3>2. raced' = raced /\ req' = req
      BY <2>1 DEF RemoveTotp, history
    <3> QED BY <1>0, <1>1, <3>1, <3>2
  <2>2. CASE ~RemoveTotp
    BY <1>1, <1>2, <2>2
    DEF Background, Register, UseKey, UpdateLastUsed, TouchLost, Expire, history
  <2> QED BY <2>1, <2>2
<1>3. ASSUME NEW r \in Reqs, Delete(r) PROVE Enrolments'
  <2>1. /\ totp' = [totp EXCEPT ![req[r].user] = 0]
        /\ raced' = raced /\ req' = [req EXCEPT ![r] = Idle]
    BY <1>3 DEF Delete, DeleteUser, End, Becomes
  <2>2. \A s \in Reqs : At(s, "saveTotp")' => req'[s] = req[s]
    BY <1>0, <2>1 DEF At, TypeOK, Idle
  <2> QED BY <1>0, <1>1, <2>1, <2>2
<1>4. ASSUME NEW r \in Reqs, SaveTotp(r) PROVE Enrolments'
  <2>1. PICK u \in Users :
          /\ u = req[r].user /\ At(r, "saveTotp")
          /\ totp' = [totp EXCEPT ![u] = totp[u] + 1]
          /\ raced' = raced /\ req' = [req EXCEPT ![r] = Idle]
    BY <1>4 DEF SaveTotp, End, Becomes, At, Typed, Locals, history
  <2>2. ASSUME NEW s \in Reqs, At(s, "saveTotp")'
        PROVE  s # r /\ req'[s] = req[s] /\ req[s].user \in Users
               /\ At(s, "saveTotp")
    BY <1>0, <2>1, <2>2 DEF At, TypeOK, Idle, Typed, Locals
  <2>3. \A v \in Users : v # u => totp'[v] = totp[v]
    BY <1>0, <2>1
  <2>4. totp'[u] = totp[u] + 1
    BY <1>0, <2>1
  <2>5. u \notin raced => totp'[u] = 1
    BY <2>1, <2>4 DEF Enrolments
  <2>6. EnrolledOnce'
    BY <1>0, <2>1, <2>3, <2>5 DEF Enrolments, EnrolledOnce
  <2>7. ASSUME NEW s \in Reqs, At(s, "saveTotp")', req'[s].user \notin raced'
        PROVE  /\ totp'[req'[s].user] = 0
               /\ \A q \in Reqs :
                    At(q, "saveTotp")' /\ req'[q].user = req'[s].user => q = s
    <3>1. /\ totp[req[s].user] = 0
          /\ \A q \in Reqs :
               At(q, "saveTotp") /\ req[q].user = req[s].user => q = s
      BY <2>1, <2>2, <2>7 DEF Enrolments
    <3>2. req[s].user # u
      BY <2>1, <2>2, <2>7, <3>1
    <3> QED BY <2>2, <2>3, <2>7, <3>1, <3>2
  <2> QED BY <2>6, <2>7 DEF Enrolments
<1>5. ASSUME NEW r \in Reqs, FindTotp(r) PROVE Enrolments'
  <2>1. PICK u \in Users :
          /\ totp[u] = 0
          /\ req' = [req EXCEPT ![r] = [Idle EXCEPT !.pc = "saveTotp",
                                                    !.user = u]]
          /\ raced' = raced \cup {v \in {u} : \E q \in Reqs \ {r} :
                                    At(q, "saveTotp") /\ req[q].user = v}
    BY <1>5 DEF FindTotp, Becomes
  <2>2. /\ req'[r].user = u
        /\ \A s \in Reqs \ {r} : req'[s] = req[s]
        /\ totp' = totp
    BY <1>0, <1>5, <2>1 DEF TypeOK, Idle, FindTotp, tables
  <2>3. EnrolledOnce'
    BY <2>1, <2>2 DEF Enrolments, EnrolledOnce
  <2>4. ASSUME NEW s \in Reqs, At(s, "saveTotp")', req'[s].user \notin raced'
        PROVE  /\ totp'[req'[s].user] = 0
               /\ \A q \in Reqs :
                    At(q, "saveTotp")' /\ req'[q].user = req'[s].user => q = s
    <3>1. CASE s = r
      BY <2>1, <2>2, <2>4, <3>1 DEF At
    <3>2. CASE s # r
      <4>1. At(s, "saveTotp") /\ req'[s] = req[s] /\ req[s].user \notin raced
        BY <2>1, <2>2, <2>4, <3>2 DEF At
      <4>2. /\ totp[req[s].user] = 0
            /\ \A q \in Reqs :
                 At(q, "saveTotp") /\ req[q].user = req[s].user => q = s
        BY <4>1 DEF Enrolments
      <4>3. req[s].user # u
        BY <2>1, <2>4, <3>2, <4>1
      <4> QED BY <2>2, <4>1, <4>2, <4>3 DEF At
    <3> QED BY <3>1, <3>2
  <2> QED BY <2>3, <2>4 DEF Enrolments
<1>6. ASSUME NEW r \in Reqs, Step(r), ~Delete(r), ~SaveTotp(r), ~FindTotp(r)
      PROVE  Enrolments'
  <2>1. UNCHANGED <<totp, raced>>
    BY <1>6
    DEF Step, Throw, FindByProvider, FindAccount, SaveGoogle, SaveOauth,
        FindVerified, UpdateUser, SaveRow, FindDeleted, CreateServiceAccount,
        SaveService, CreateApiKey, SaveKey, RevokeApiKey, Revoke,
        DeleteServiceAccount, tables, history
  <2>2. \A s \in Reqs : At(s, "saveTotp")' => req'[s] = req[s]
    <3> SUFFICES ASSUME req'[r].pc = "saveTotp", req'[r] # req[r] PROVE FALSE
      BY <1>6, StepAlone DEF At
    <3> QED BY <1>0, <1>6, OnlyFindTotp
  <2> QED BY <1>1, <2>1, <2>2
<1> QED BY <1>2, <1>3, <1>4, <1>5, <1>6, NextSteps

\* enrollTotp() looks for a row and then inserts one: two rows are left only
\* where a second enrolment looked between the two awaits of the first.
THEOREM EnrolsOnce == Spec => []EnrolledOnce
<1> DEFINE I == Typed /\ Enrolments
<1>1. Init => I
  <2> SUFFICES ASSUME Init PROVE Enrolments
    BY TypedInit
  <2>1. \A r \in Reqs : req[r].pc = "idle"
    BY DEF Init, Idle
  <2> QED BY <2>1 DEF Init, Enrolments, EnrolledOnce, At
<1>2. I /\ [Next]_vars => I'
  <2>1. CASE UNCHANGED vars
    BY <2>1, TypedStep
    DEF Enrolments, EnrolledOnce, At, vars, tables, history
  <2>2. CASE Next
    BY <2>2, TypedStep, EnrolmentsStep
  <2> QED BY <2>1, <2>2
<1>3. I => EnrolledOnce
  BY DEF Enrolments
<1> HIDE DEF I
<1> QED BY <1>1, <1>2, <1>3, PTL DEF Spec

-----------------------------------------------------------------------------
(* Addresses *)

\* A row that is about to be saved was read or found to be in lower case.
RowKept(q) ==
  q.pc \in Saving /\ q.user \notin capital => q.row.email = Address[q.row.email]

\* Only verifyEmail() and updateUser() go on to save a row that they read.
LEMMA OnlyHolders ==
  ASSUME TypeOK, NEW r \in Reqs, Step(r), ~FindVerified(r), ~UpdateUser(r),
         req'[r] # req[r]
  PROVE  req'[r].pc \notin Saving
<1> USE DEF TypeOK, Becomes, End, Saving
<1>i. Idle \in Request
  BY IdleTyped
<1>1. CASE \/ Throw(r) \/ SaveOauth(r) \/ SaveRow(r) \/ Delete(r)
           \/ SaveTotp(r) \/ SaveKey(r) \/ Revoke(r)
  BY <1>1 DEF Throw, SaveOauth, SaveRow, Delete, SaveTotp, SaveKey, Revoke, Idle
<1>2. CASE FindByProvider(r)
  <2>1. PICK x \in Profiles, e \in Emails :
          req'[r] = [Idle EXCEPT !.pc = "findByEmail", !.profile = x,
                                 !.email = e]
    BY <1>2 DEF FindByProvider
  <2> QED BY <2>1 DEF Idle
<1>3. CASE FindAccount(r)
  BY <1>3 DEF FindAccount, Request
<1>4. CASE SaveGoogle(r)
  BY <1>4 DEF SaveGoogle, Request
<1>5. CASE RevokeApiKey(r)
  BY <1>5 DEF RevokeApiKey, Idle
<1>7. CASE FindDeleted(r)
  BY <1>7 DEF FindDeleted, Idle
<1>8. CASE FindTotp(r)
  BY <1>8 DEF FindTotp, Idle
<1>9. CASE CreateServiceAccount(r)
  BY <1>9 DEF CreateServiceAccount, Idle
<1>10. CASE SaveService(r)
  BY <1>10 DEF SaveService, Request
<1>11. CASE CreateApiKey(r)
  BY <1>11 DEF CreateApiKey, Idle
<1>12. CASE DeleteServiceAccount(r)
  BY <1>12 DEF DeleteServiceAccount, Idle
<1> QED BY <1>1, <1>2, <1>3, <1>4, <1>5, <1>7, <1>8, <1>9, <1>10, <1>11,
           <1>12 DEF Step

LEMMA RowLearnt ==
  ASSUME Typed, AddressesKept, NEW r \in Reqs, Step(r),
         NEW q, q = req'[r], q # req[r]
  PROVE  RowKept(q)
<1>0. TypeOK /\ Idle \in Request /\ req[r] \in Request
  BY IdleTyped DEF Typed, TypeOK
<1> USE <1>0 DEF Becomes, End
<1>1. ASSUME NEW u \in Users, Is(u, "human"), q.user = u,
             q.row.email = users[u].email \/ q.row.email = Address[q.row.email]
      PROVE  RowKept(q)
  BY <1>1 DEF AddressesKept, RowKept
<1>2. CASE FindVerified(r)
  <2>1. PICK u \in Users :
          /\ Is(u, "human")
          /\ q = [Idle EXCEPT !.pc = "saveVerified", !.user = u,
                    !.row = [users[u] EXCEPT !.verified = TRUE]]
    BY <1>2 DEF FindVerified, TypeOK
  <2>2. users[u] \in UserRow
    BY <2>1, IsHumanRow, RowFacts
  <2>3. q.user = u /\ q.row.email = users[u].email
    BY <2>1, <2>2 DEF Idle, UserRow
  <2> QED BY <1>1, <2>1, <2>3
<1>3. CASE UpdateUser(r)
  <2>1. PICK u \in Users :
          /\ Is(u, "human")
          /\ \E e \in {users[u].email} \cup {f \in Emails : f = Address[f]} :
               q = [Idle EXCEPT !.pc = "saveUpdate", !.user = u,
                      !.row = [users[u] EXCEPT !.email = e]]
    BY <1>3 DEF UpdateUser, TypeOK
  <2>2. PICK e \in {users[u].email} \cup {f \in Emails : f = Address[f]} :
          q = [Idle EXCEPT !.pc = "saveUpdate", !.user = u,
                 !.row = [users[u] EXCEPT !.email = e]]
    BY <2>1
  <2>3. users[u] \in UserRow
    BY <2>1, IsHumanRow, RowFacts
  <2>4. q.user = u /\ q.row.email = e
    BY <2>2, <2>3 DEF Idle, UserRow
  <2> QED BY <1>1, <2>1, <2>2, <2>4
<1>4. CASE ~FindVerified(r) /\ ~UpdateUser(r)
  <2>1. q.pc \notin Saving
    BY <1>4, OnlyHolders DEF Saving
  <2> QED BY <2>1 DEF RowKept
<1> QED BY <1>2, <1>3, <1>4

LEMMA AddressesStep ==
  ASSUME Typed, Kinds, AddressesKept, Next
  PROVE  AddressesKept'
<1>0. /\ TypeOK
      /\ users \in [Users -> {Free, Gone} \cup UserRow]
      /\ \A u \in Users : Is(u, "human") => users[u].email \in Emails
  BY IsHumanRow DEF Typed, TypeOK, HumanRow
<1> USE RowFacts
<1> DEFINE Spelt ==
             /\ \A v, w \in Users :
                  v # w /\ Is(v, "human")' /\ Is(w, "human")'
                    => users'[v].email # users'[w].email
             /\ \A v \in Users : Is(v, "human")' /\ v \notin capital'
                  => users'[v].email = Address[users'[v].email]
\* A human's row is written under the unique index.
<1>1. ASSUME NEW u \in Users, NEW x \in HumanRow, SaveUser(u, x),
             capital \subseteq capital',
             u \notin capital' => x.email = Address[x.email]
      PROVE  Spelt
  <2>1. users'[u] = x /\ \A v \in Users \ {u} : users'[v] = users[v]
    BY <1>0, <1>1 DEF SaveUser
  <2>2. \A v \in Users \ {u} : Live(users[v]) => users[v].email # x.email
    BY <1>1 DEF SaveUser
  <2> QED BY <1>1, <2>1, <2>2 DEF AddressesKept, Is, Live
\* Nobody else's row is a human's.
<1>2. ASSUME \A u \in Users : Is(u, "human")' => users'[u] = users[u],
             capital \subseteq capital'
      PROVE  Spelt
  BY <1>2 DEF AddressesKept, Is, Live
<1>3. capital \subseteq capital' /\ Spelt
  <2>1. CASE Register
    <3>1. PICK e \in Emails, u \in Fresh(users) :
            SaveUser(u, Human(Address[e], FALSE))
      BY <2>1 DEF Register
    <3>2. Address[e] \in Emails /\ Address[Address[e]] = Address[e]
      BY DirectoryAssumption
    <3> DEFINE x == Human(Address[e], FALSE)
    <3>3. x \in HumanRow /\ x.email = Address[e]
      BY <3>2, RowsMade
    <3>4. u \in Users /\ capital' = capital
      BY <1>0, <2>1 DEF Fresh, Register, history
    <3> HIDE DEF x
    <3>5. SaveUser(u, x)
      BY <3>1 DEF x
    <3> QED BY <1>1, <3>2, <3>3, <3>4, <3>5
  <2>2. ASSUME NEW r \in Reqs, SaveGoogle(r)
        PROVE  capital \subseteq capital' /\ Spelt
    <3> DEFINE e == req[r].email
    <3>1. PICK u \in Fresh(users) :
            /\ SaveUser(u, Human(e, TRUE))
            /\ capital' = capital \cup {v \in {u} : e # Address[e]}
      BY <2>2 DEF SaveGoogle
    <3>2. e \in Emails
      BY <2>2 DEF SaveGoogle, At, Typed, Locals
    <3> DEFINE x == Human(e, TRUE)
    <3>3. x \in HumanRow /\ x.email = e
      BY <3>2, RowsMade
    <3>4. u \in Users
      BY <1>0 DEF Fresh
    <3>5. SaveUser(u, x) /\ capital \subseteq capital'
          /\ (u \notin capital' => x.email = Address[x.email])
      BY <3>1, <3>3
    <3> HIDE DEF x
    <3> QED BY <1>1, <3>3, <3>4, <3>5
  <2>3. ASSUME NEW r \in Reqs, SaveRow(r)
        PROVE  capital \subseteq capital' /\ Spelt
    <3>1. /\ req[r].pc \in Saving /\ SaveUser(req[r].user, req[r].row)
          /\ req[r].user \in Users /\ req[r].row \in HumanRow
          /\ capital' = capital
      BY <2>3 DEF SaveRow, At, Saving, Typed, Locals, history
    <3> DEFINE u == req[r].user
               x == req[r].row
    <3>2. u \notin capital' => x.email = Address[x.email]
      BY <3>1 DEF AddressesKept
    <3> HIDE DEF u, x
    <3>3. SaveUser(u, x) /\ u \in Users /\ x \in HumanRow
      BY <3>1 DEF u, x
    <3> QED BY <1>1, <3>1, <3>2, <3>3
  <2>4. ASSUME NEW r \in Reqs, SaveService(r)
        PROVE  /\ capital' = capital
               /\ \A u \in Users : Is(u, "human")' => users'[u] = users[u]
    <3>1. PICK u \in Fresh(users) : users' = [users EXCEPT ![u] = req[r].row]
      BY <2>4 DEF SaveService, SaveUser
    <3>2. req[r].row.type # "human"
      BY <2>4 DEF SaveService, At, Typed, Locals
    <3> QED BY <1>0, <2>4, <3>1, <3>2 DEF Is, SaveService, history
  <2>5. ASSUME NEW r \in Reqs, Delete(r)
        PROVE  /\ capital' = capital
               /\ \A u \in Users : Is(u, "human")' => users'[u] = users[u]
    <3>1. users' = [users EXCEPT ![req[r].user] = Gone]
      BY <2>5 DEF Delete, DeleteUser
    <3> QED BY <1>0, <2>5, <3>1 DEF Is, Live, Delete
  <2>6. ASSUME NEW r \in Reqs, Step(r), ~SaveGoogle(r), ~SaveRow(r),
               ~SaveService(r), ~Delete(r)
        PROVE  UNCHANGED <<users, capital>>
    BY <2>6
    DEF Step, Throw, FindByProvider, FindAccount, SaveOauth, FindVerified,
        UpdateUser, FindDeleted, FindTotp, SaveTotp, CreateServiceAccount,
        CreateApiKey, SaveKey, RevokeApiKey, Revoke, DeleteServiceAccount,
        tables, history
  <2>7. Background /\ ~Register => UNCHANGED <<users, capital>>
    BY DEF Background, RemoveTotp, UseKey, UpdateLastUsed, TouchLost, Expire,
           history
  <2> QED BY <1>2, <2>1, <2>2, <2>3, <2>4, <2>5, <2>6, <2>7, NextSteps
<1>4. ASSUME NEW s \in Reqs, NEW q, q = req'[s] PROVE RowKept(q)'
  <2>1. RowKept(q)
    <3>1. CASE q = req[s]
      BY <3>1 DEF AddressesKept, RowKept
    <3>2. CASE q # req[s]
      BY <1>4, <3>2, RowLearnt, StepAlone, NextSteps, BackgroundAlone
    <3> QED BY <3>1, <3>2
  <2> QED BY <1>3, <2>1 DEF RowKept
<1> QED BY <1>3, <1>4 DEF AddressesKept, RowKept

\* Two of the writers save an address in lower case and the third keeps what it
\* read; only what Google reports is saved as it is.
THEOREM AddressHasOneAccount == Spec => []OneAccountPerAddress
<1> DEFINE I == Linked /\ AddressesKept
<1>1. Init => I
  <2> SUFFICES ASSUME Init PROVE AddressesKept
    BY LinkedInit
  <2>1. \A r \in Reqs : req[r].pc = "idle"
    BY DEF Init, Idle
  <2> QED BY <2>1 DEF Init, AddressesKept, Saving, Is, Live
<1>2. I /\ [Next]_vars => I'
  <2>1. CASE UNCHANGED vars
    BY <2>1, LinkedStep
    DEF AddressesKept, Is, Live, vars, tables, history
  <2>2. CASE Next
    BY <2>2, LinkedStep, AddressesStep DEF Linked
  <2> QED BY <2>1, <2>2
<1>3. I => OneAccountPerAddress
  BY DEF AddressesKept, OneAccountPerAddress
<1> HIDE DEF I
<1> QED BY <1>1, <1>2, <1>3, PTL DEF Spec
=============================================================================

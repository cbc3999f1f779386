---------------------- MODULE RedirectAllowlistProofs ----------------------
(***************************************************************************)
(* Theorems about RedirectAllowlist: what holds of the table and the cache *)
(* for any number of rows, organisations and URIs.  The types hold however *)
(* the requests overlap.  The rest is proved of requests that come one at  *)
(* a time (OneAtATime); when two reloads overlap it does not hold.         *)
(***************************************************************************)
EXTENDS RedirectAllowlist, TLAPS

All == Reqs \cup {Load}

\* The locals a request has set by the time of its next call.
Locals(q, table) ==
  /\ q.pc = "idle"   => q = Idle
  /\ q.pc = "insert" => q.op = "add" /\ q.uri \in Uris /\ q.org \in Orgs
  /\ q.pc = "delete" => q.op = "remove" /\ q.row \in Ids /\ q.uri \in Uris
  /\ q.pc \in {"read", "fill"} =>
       /\ q.op = "add"    => q.row \in Ids /\ table[q.row] # Free
       /\ q.op = "remove" => q.uri \in Uris

TInv ==
  /\ TypeOK
  /\ \A r \in All : Locals(req[r], rows)
  /\ req[Load] = Idle \/ req[Load].op = "start"
  /\ \A i \in added : rows[i] # Free

LEMMA RowTyped ==
  ASSUME TypeOK, NEW i \in Ids, Live(i)
  PROVE  rows[i] \in Row /\ rows[i].uri \in Uris /\ rows[i].org \in Orgs
BY DEF TypeOK, Live, Row

LEMMA StoredTyped == ASSUME TypeOK PROVE Stored \subseteq Uris
BY RowTyped DEF Stored

LEMMA StartTyped ==
  /\ Idle \in Request /\ Start \in Request
  /\ Start.op = "start" /\ Start.pc = "read"
  /\ \A t : Locals(Idle, t) /\ Locals(Start, t)
<1>1. Idle \in Request
  BY DEF Idle, Request, Opt
<1>2. Start \in Request /\ Start.op = "start" /\ Start.pc = "read"
  BY <1>1 DEF Start, Request
<1>3. Idle.pc = "idle"
  BY DEF Idle
<1> QED
  BY <1>1, <1>2, <1>3 DEF Locals

LEMMA TInit == Init => TInv
<1> SUFFICES ASSUME Init PROVE TInv
  OBVIOUS
<1>1. \A r \in All : req[r] \in {Idle, Start}
  BY DEF Init, All
<1>2. TypeOK
  BY AllowlistAssumption, StartTyped DEF Init, TypeOK
<1>3. \A r \in All : Locals(req[r], rows)
  BY <1>1, StartTyped
<1>4. req[Load].op = "start"
  BY StartTyped DEF Init
<1> QED
  BY <1>2, <1>3, <1>4 DEF Init, TInv

\* A step sets one request's locals, and never frees a row.
LEMMA Moves ==
  ASSUME TInv, NEW r \in All, NEW q, req' = [req EXCEPT ![r] = q],
         \A i \in Ids : rows[i] # Free => rows'[i] # Free,
         Locals(q, rows'), r = Load => q = Idle \/ q.op = "start"
  PROVE  /\ \A p \in All : Locals(req'[p], rows')
         /\ req'[Load] = Idle \/ req'[Load].op = "start"
<1>1. /\ req'[r] = q /\ \A p \in All \ {r} : req'[p] = req[p]
  BY DEF TInv, TypeOK, All
<1>2. ASSUME NEW p \in All \ {r} PROVE Locals(req'[p], rows')
  <2>1. Locals(req[p], rows) /\ req'[p] = req[p]
    BY <1>1 DEF TInv
  <2> QED
    BY <2>1 DEF Locals
<1>3. Locals(req'[r], rows')
  BY <1>1 DEF Locals
<1>4. req'[Load] = Idle \/ req'[Load].op = "start"
  BY <1>1 DEF TInv, All
<1> QED
  BY <1>2, <1>3, <1>4

\* Every step keeps the table, the cache and the handlers' locals well typed.
LEMMA TStep == TInv /\ [Next]_vars => TInv'
<1> SUFFICES ASSUME TInv, [Next]_vars PROVE TInv'
  OBVIOUS
<1> USE AllowlistAssumption
<1>1. ASSUME NEW r \in Reqs, FindByUriAndOrg(r) PROVE TInv'
  <2>1. PICK u \in Uris, o \in Orgs :
          req' = [req EXCEPT ![r] = [Idle EXCEPT
                    !.op = "add", !.pc = "insert", !.uri = u, !.org = o]]
    BY <1>1 DEF FindByUriAndOrg
  <2>2. UNCHANGED <<rows, cache, added, removed>>
    BY <1>1 DEF FindByUriAndOrg
  <2> DEFINE q == [Idle EXCEPT !.op = "add", !.pc = "insert", !.uri = u,
                               !.org = o]
  <2>3. Locals(q, rows') /\ r \in All /\ r # Load
    BY DEF Locals, Idle, All
  <2>4. TypeOK'
    BY <2>1, <2>2 DEF TInv, TypeOK, Idle, Request, Opt
  <2> HIDE DEF q
  <2> QED
    BY <2>1, <2>2, <2>3, <2>4, Moves DEF TInv, q
<1>2. ASSUME NEW r \in Reqs, Create(r) PROVE TInv'
  <2>1. /\ req[r].pc = "insert" /\ req[r].op = "add"
        /\ req[r].uri \in Uris /\ req[r].org \in Orgs
    BY <1>2 DEF Create, At, TInv, Locals, All
  <2>2. PICK i \in Ids :
          /\ rows[i] = Free
          /\ rows' = [rows EXCEPT ![i] =
                        [uri |-> req[r].uri, org |-> req[r].org]]
          /\ req' = [req EXCEPT ![r].pc = "read", ![r].row = i]
    BY <1>2 DEF Create
  <2>3. /\ removed' = removed \ {req[r].uri} /\ UNCHANGED <<cache, added>>
    BY <1>2 DEF Create
  <2>4. [uri |-> req[r].uri, org |-> req[r].org] \in Row
    BY <2>1 DEF Row
  <2>5. rows' \in [Ids -> {Free, Gone} \cup Row] /\ rows'[i] # Free
    BY <2>2, <2>4 DEF TInv, TypeOK
  <2>6. \A j \in Ids : rows[j] # Free => rows'[j] # Free
    BY <2>2 DEF TInv, TypeOK
  <2> DEFINE q == [req[r] EXCEPT !.pc = "read", !.row = i]
  <2>7. r \in All /\ r # Load /\ req' = [req EXCEPT ![r] = q]
    BY <2>2 DEF All
  <2>8. /\ q.pc = "read" /\ q.row = i /\ q.op = "add"
    BY <2>1 DEF TInv, TypeOK, Request
  <2>9. Locals(q, rows')
    BY <2>5, <2>8 DEF Locals
  <2>10. TypeOK'
    <3>1. q \in Request
      <4>1. req[r] \in Request /\ i \in Opt(Ids)
        BY DEF TInv, TypeOK, Opt
      <4> QED
        BY <4>1 DEF Request
    <3>2. req' \in [All -> Request]
      BY <2>7, <3>1 DEF TInv, TypeOK, All
    <3> QED
      BY <2>3, <2>5, <3>2 DEF TInv, TypeOK, All
  <2> HIDE DEF q
  <2> QED
    BY <2>3, <2>6, <2>7, <2>9, <2>10, Moves DEF TInv, TypeOK
<1>3. ASSUME NEW r \in Reqs, FindById(r) PROVE TInv'
  <2>1. PICK i \in Ids :
          /\ Live(i)
          /\ req' = [req EXCEPT ![r] = [Idle EXCEPT
                       !.op = "remove", !.pc = "delete", !.row = i,
                       !.uri = rows[i].uri]]
    BY <1>3 DEF FindById
  <2>2. UNCHANGED <<rows, cache, added, removed>>
    BY <1>3 DEF FindById
  <2>3. rows[i].uri \in Uris
    BY <2>1, RowTyped DEF TInv
  <2> DEFINE q == [Idle EXCEPT !.op = "remove", !.pc = "delete", !.row = i,
                               !.uri = rows[i].uri]
  <2>4. Locals(q, rows') /\ r \in All /\ r # Load
    BY <2>2, <2>3 DEF Locals, Idle, All
  <2>5. TypeOK'
    BY <2>1, <2>2, <2>3 DEF TInv, TypeOK, Idle, Request, Opt
  <2> HIDE DEF q
  <2> QED
    BY <2>1, <2>2, <2>4, <2>5, Moves DEF TInv, q
<1>4. ASSUME NEW r \in Reqs, Delete(r) PROVE TInv'
  <2>1. /\ req[r].pc = "delete" /\ req[r].op = "remove"
        /\ req[r].uri \in Uris /\ req[r].row \in Ids
    BY <1>4 DEF Delete, At, TInv, Locals, All
  <2>2. /\ rows' = [rows EXCEPT ![req[r].row] = Gone]
        /\ req' = [req EXCEPT ![r].pc = "read"]
        /\ UNCHANGED <<cache, added, removed>>
    BY <1>4 DEF Delete
  <2>3. /\ rows' \in [Ids -> {Free, Gone} \cup Row]
        /\ \A j \in Ids : rows[j] # Free => rows'[j] # Free
    BY <2>2 DEF TInv, TypeOK
  <2> DEFINE q == [req[r] EXCEPT !.pc = "read"]
  <2>4. r \in All /\ r # Load /\ req' = [req EXCEPT ![r] = q]
    BY <2>2 DEF All
  <2>5. q.pc = "read" /\ q.op = "remove" /\ q.uri \in Uris
    BY <2>1 DEF TInv, TypeOK, Request
  <2>6. Locals(q, rows')
    BY <2>5 DEF Locals
  <2>7. TypeOK'
    BY <2>2, <2>3 DEF TInv, TypeOK, Request
  <2> HIDE DEF q
  <2> QED
    BY <2>2, <2>3, <2>4, <2>6, <2>7, Moves DEF TInv, TypeOK
<1>5. ASSUME NEW r \in All, FindAll(r) PROVE TInv'
  <2>1. /\ req[r].pc = "read" /\ UNCHANGED <<rows, cache, added, removed>>
        /\ req' = [req EXCEPT ![r].pc = "fill", ![r].found = Stored]
    BY <1>5 DEF FindAll, At
  <2>2. Stored \subseteq Uris
    BY StoredTyped DEF TInv
  <2> DEFINE q == [req[r] EXCEPT !.pc = "fill", !.found = Stored]
  <2>3. /\ q.pc = "fill" /\ q.op = req[r].op /\ q.row = req[r].row
        /\ q.uri = req[r].uri
    BY DEF TInv, TypeOK, Request, All
  <2>4. Locals(req[r], rows)
    BY DEF TInv
  <2>5. Locals(q, rows')
    BY <2>1, <2>3, <2>4 DEF Locals
  <2>6. r = Load => q.op = "start"
    BY <2>1, <2>3 DEF TInv, Idle
  <2>7. TypeOK'
    BY <2>1, <2>2 DEF TInv, TypeOK, Request, All
  <2>8. req' = [req EXCEPT ![r] = q]
    BY <2>1
  <2> HIDE DEF q
  <2> QED
    BY <2>1, <2>5, <2>6, <2>7, <2>8, Moves DEF TInv
<1>6. ASSUME NEW r \in All, Fill(r) PROVE TInv'
  <2>1. /\ req[r].pc = "fill" /\ rows' = rows
        /\ cache' = Base \cup req[r].found
        /\ req' = [req EXCEPT ![r] = Idle] /\ Answer(r)
    BY <1>6 DEF Fill, At
  <2>2. Locals(req[r], rows) /\ req[r].found \subseteq Uris
    BY DEF TInv, TypeOK, Request, All
  <2>3. /\ added' \subseteq Ids /\ removed' \subseteq Uris
        /\ \A i \in added' : rows[i] # Free
    BY <2>1, <2>2 DEF Answer, Locals, TInv, TypeOK
  <2>4. Locals(Idle, rows')
    BY StartTyped
  <2>5. Idle \in Request
    BY StartTyped
  <2>6. TypeOK'
    BY <2>1, <2>2, <2>3, <2>5 DEF TInv, TypeOK, All
  <2> QED
    BY <2>1, <2>3, <2>4, <2>6, Moves DEF TInv
<1>7. ASSUME NEW r \in All, Throw(r) PROVE TInv'
  <2>1. /\ req' = [req EXCEPT ![r] = Idle] /\ UNCHANGED <<rows, cache, removed>>
        /\ added' \subseteq added
    BY <1>7 DEF Throw
  <2>2. Locals(Idle, rows')
    BY StartTyped
  <2>3. Idle \in Request
    BY StartTyped
  <2>4. TypeOK'
    BY <2>1, <2>3 DEF TInv, TypeOK, All
  <2> QED
    BY <2>1, <2>2, <2>4, Moves DEF TInv
<1>8. CASE Restart
  <2>1. /\ cache' = Base /\ UNCHANGED <<rows, added, removed>>
        /\ req' = [r \in All |-> IF r = Load THEN Start ELSE Idle]
    BY <1>8 DEF Restart, All
  <2>2. Locals(Start, rows') /\ Locals(Idle, rows') /\ Start.op = "start"
    BY StartTyped
  <2>3. Idle \in Request /\ Start \in Request
    BY StartTyped
  <2>4. TypeOK'
    BY <2>1, <2>3 DEF TInv, TypeOK, All
  <2>5. \A r \in All : Locals(req'[r], rows')
    BY <2>1, <2>2 DEF Locals
  <2>6. req'[Load].op = "start"
    BY <2>1, <2>2 DEF All
  <2> QED
    BY <2>1, <2>4, <2>5, <2>6 DEF TInv
<1>9. CASE UNCHANGED vars
  BY <1>9 DEF vars, TInv, TypeOK, Locals
<1> QED
  BY <1>1, <1>2, <1>3, <1>4, <1>5, <1>6, <1>7, <1>8, <1>9
     DEF Next, Handle, All

\* However reloads overlap and fail, the cache holds at least what the
\* environment allows and at most known URIs.
THEOREM TypeCorrect == Spec => []TypeOK
<1>1. TInv => TypeOK
  BY DEF TInv
<1> QED
  BY <1>1, TInit, TStep, PTL DEF Spec

-----------------------------------------------------------------------------
(* One request at a time.  A reload then reads what the handler wrote, and  *)
(* nothing changes the table before the cache is filled.                    *)

OneAtATime == \A q, r \in Reqs : q = r

\* What a handler or a reload knows of the table at its next call.
Informed(r) ==
  /\ At(r, "fill")   => req[r].found = Stored
  /\ At(r, "insert") => \A i \in Ids : Live(i) =>
                           rows[i] # [uri |-> req[r].uri, org |-> req[r].org]

\* No organisation lists a URI twice: a removal then removes the URI.
ListedOnce ==
  \A i, j \in Ids : Live(i) /\ Live(j) /\ rows[i] = rows[j] => i = j

SInv ==
  /\ TInv
  /\ \A r \in All : Informed(r)
  /\ Starting => cache = Base /\ \A r \in Reqs : req[r] = Idle
  /\ AddedIsAllowed /\ RemovedIsRefused /\ ListedOnce
  /\ removed \cap Stored = {}

LEMMA SInit == Init => SInv
<1> SUFFICES ASSUME Init PROVE SInv
  OBVIOUS
<1>1. /\ req[Load] = Start /\ \A r \in Reqs : req[r] = Idle
      /\ \A i \in Ids : ~Live(i)
      /\ cache = Base /\ added = {} /\ removed = {}
  BY AllowlistAssumption DEF Init, Live
<1>2. \A r \in All : req[r].pc \in {"idle", "read"}
  BY <1>1, StartTyped DEF All, Idle
<1>3. \A r \in All : Informed(r)
  BY <1>2 DEF Informed, At
<1> QED
  BY <1>1, <1>3, TInit
     DEF SInv, AddedIsAllowed, RemovedIsRefused, ListedOnce

\* Requests and the load at start do not overlap either.
LEMMA Alone ==
  ASSUME OneAtATime, SInv, NEW r \in All, req[r] # Idle, NEW q \in All \ {r}
  PROVE  req[q] = Idle
BY DEF OneAtATime, SInv, Starting, All

\* A step that writes nothing but the locals of r.
LEMMA LocalStep ==
  ASSUME SInv, NEW r \in Reqs, ~Starting, TInv',
         UNCHANGED <<rows, cache, added, removed>>, Informed(r)',
         \A q \in All \ {r} : req'[q] = req[q]
  PROVE  SInv'
<1>1. r # Load /\ req'[Load] = req[Load]
  BY AllowlistAssumption DEF All
<1>2. ~Starting'
  BY <1>1 DEF Starting
<1>3. ASSUME NEW q \in All PROVE Informed(q)'
  <2>1. CASE q = r
    BY <2>1
  <2>2. CASE q # r
    BY <2>2 DEF SInv, Informed, At, Stored, Live
  <2> QED
    BY <2>1, <2>2
<1> QED
  BY <1>2, <1>3 DEF SInv, AddedIsAllowed, RemovedIsRefused, ListedOnce, Stored,
                    Live

LEMMA SCreate ==
  ASSUME OneAtATime, SInv, TInv', NEW r \in Reqs, Create(r)
  PROVE  SInv'
<1> USE DEF SInv
<1>1. /\ req[r].pc = "insert" /\ req[r].op = "add"
      /\ req[r].uri \in Uris /\ req[r].org \in Orgs /\ r \in All /\ r # Load
  BY AllowlistAssumption DEF Create, At, TInv, Locals, All
<1> DEFINE row == [uri |-> req[r].uri, org |-> req[r].org]
<1>2. PICK i \in Ids :
        /\ rows[i] = Free
        /\ rows' = [rows EXCEPT ![i] = row]
        /\ req' = [req EXCEPT ![r].pc = "read", ![r].row = i]
        /\ removed' = removed \ {req[r].uri}
        /\ UNCHANGED <<cache, added>>
  BY DEF Create
<1>3. row \in Row /\ row \notin {Free, Gone} /\ row.uri = req[r].uri
  BY <1>1, AllowlistAssumption DEF Row
<1>4. /\ rows'[i] = row /\ ~Live(i) /\ Live(i)'
      /\ \A j \in Ids \ {i} : rows'[j] = rows[j] /\ (Live(j)' <=> Live(j))
  BY <1>2, <1>3 DEF TInv, TypeOK, Live
<1>5. Stored' = Stored \cup {req[r].uri}
  <2> HIDE DEF row
  <2> QED
    BY <1>3, <1>4 DEF Stored
<1>6. req[r] # Idle
  BY <1>1 DEF Idle
<1>7. \A q \in All \ {r} : req'[q] = Idle /\ req[q] = Idle
  BY <1>2, <1>6, Alone, <1>1 DEF TInv, TypeOK, All
<1>8. ~Starting /\ ~Starting'
  BY <1>1, <1>7 DEF Starting, All
<1>9. req'[r].pc = "read"
  BY <1>1, <1>2 DEF TInv, TypeOK, Request
<1>10. \A q \in All : Informed(q)'
  BY <1>7, <1>9 DEF Informed, At, Idle
<1>11. AddedIsAllowed'
  <2>1. i \notin added /\ added \subseteq Ids
    BY <1>2 DEF TInv, TypeOK
  <2> QED
    BY <1>2, <1>4, <1>8, <2>1 DEF AddedIsAllowed
<1>12. RemovedIsRefused' /\ (removed \cap Stored)' = {}
  BY <1>2, <1>5, <1>8 DEF RemovedIsRefused
<1>13. ListedOnce'
  <2>1. \A j \in Ids \ {i} : Live(j) => rows[j] # row
    BY <1>1 DEF Informed, At
  <2> HIDE DEF row
  <2> QED
    BY <1>4, <2>1 DEF ListedOnce
<1> QED
  BY <1>8, <1>10, <1>11, <1>12, <1>13

LEMMA SDelete ==
  ASSUME OneAtATime, SInv, TInv', NEW r \in Reqs, Delete(r)
  PROVE  SInv'
<1> USE DEF SInv
<1>1. req[r].pc = "delete" /\ req[r].row \in Ids /\ r \in All /\ r # Load
  BY AllowlistAssumption DEF Delete, At, TInv, Locals, All
<1>2. /\ rows' = [rows EXCEPT ![req[r].row] = Gone]
      /\ req' = [req EXCEPT ![r].pc = "read"]
      /\ UNCHANGED <<cache, added, removed>>
  BY DEF Delete
<1>3. \A i \in Ids : Live(i)' => Live(i) /\ rows'[i] = rows[i]
  BY <1>1, <1>2 DEF TInv, TypeOK, Live
<1>4. Stored' \subseteq Stored
  BY <1>3 DEF Stored
<1>5. req[r] # Idle
  BY <1>1 DEF Idle
<1>6. \A q \in All \ {r} : req'[q] = Idle /\ req[q] = Idle
  BY <1>1, <1>2, <1>5, Alone DEF TInv, TypeOK, All
<1>7. ~Starting /\ ~Starting'
  BY <1>1, <1>6 DEF Starting, All
<1>8. req'[r].pc = "read"
  BY <1>1, <1>2 DEF TInv, TypeOK, Request
<1>9. \A q \in All : Informed(q)'
  BY <1>6, <1>8 DEF Informed, At, Idle
<1>10. AddedIsAllowed'
  BY <1>2, <1>3, <1>7 DEF AddedIsAllowed, TInv, TypeOK
<1>11. RemovedIsRefused' /\ (removed \cap Stored)' = {}
  BY <1>2, <1>4, <1>7 DEF RemovedIsRefused
<1>12. ListedOnce'
  BY <1>3 DEF ListedOnce
<1> QED
  BY <1>7, <1>9, <1>10, <1>11, <1>12

LEMMA SFindAll ==
  ASSUME SInv, TInv', NEW r \in All, FindAll(r)
  PROVE  SInv'
<1> USE DEF SInv
<1>1. /\ req[r].pc = "read" /\ UNCHANGED <<rows, cache, added, removed>>
      /\ req' = [req EXCEPT ![r].pc = "fill", ![r].found = Stored]
  BY DEF FindAll, At
<1>2. /\ req'[r].pc = "fill" /\ req'[r].found = Stored
      /\ \A q \in All \ {r} : req'[q] = req[q]
  BY <1>1 DEF TInv, TypeOK, Request, All
<1>3. Stored' = Stored /\ \A i \in Ids : Live(i)' <=> Live(i)
  BY <1>1 DEF Stored, Live
<1>4. Starting' => Starting
  BY <1>1, <1>2 DEF Starting, All, Idle
<1>5. Starting <=> Starting'
  <2>1. r = Load => req'[r] # Idle
    BY <1>2 DEF Idle
  <2> QED
    BY <1>2, <1>4, <2>1 DEF Starting, All
<1>6. Starting => \A q \in Reqs : req'[q] = Idle
  <2>1. req[r] # Idle
    BY <1>1 DEF Idle
  <2> QED
    BY <1>2, <2>1 DEF All
<1>7. \A q \in All : Informed(q)'
  <2>1. ASSUME NEW q \in All \ {r} PROVE Informed(q)'
    BY <1>1, <1>2, <1>3 DEF Informed, At
  <2>2. Informed(r)'
    BY <1>2, <1>3 DEF Informed, At
  <2> QED
    BY <2>1, <2>2
<1>8. AddedIsAllowed' /\ RemovedIsRefused' /\ ListedOnce'
  <2>1. added \subseteq Ids
    BY DEF TInv, TypeOK
  <2> QED
    BY <1>1, <1>3, <1>5, <2>1 DEF AddedIsAllowed, RemovedIsRefused, ListedOnce
<1> QED
  BY <1>1, <1>3, <1>5, <1>6, <1>7, <1>8

LEMMA SFill ==
  ASSUME OneAtATime, SInv, TInv', NEW r \in All, Fill(r)
  PROVE  SInv'
<1> USE DEF SInv
<1>1. /\ req[r].pc = "fill" /\ rows' = rows
      /\ cache' = Base \cup req[r].found
      /\ req' = [req EXCEPT ![r] = Idle] /\ Answer(r)
  BY DEF Fill, At
<1>2. cache' = Base \cup Stored
  BY <1>1 DEF Informed, At
<1>3. req[r] # Idle
  BY <1>1 DEF Idle
<1>4. \A q \in All : req'[q] = Idle
  BY <1>1, <1>3, Alone DEF TInv, TypeOK, All
<1>5. ~Starting'
  BY <1>4 DEF Starting, All
<1>6. Stored' = Stored /\ \A i \in Ids : Live(i)' <=> Live(i)
  BY <1>1 DEF Stored, Live
<1>7. \A q \in All : Informed(q)'
  BY <1>4 DEF Informed, At, Idle
<1>8. AddedIsAllowed'
  <2>1. added' \subseteq Ids
    BY DEF TInv, TypeOK
  <2> QED
    BY <1>1, <1>2, <1>6, <2>1 DEF AddedIsAllowed, Stored
<1>9. RemovedIsRefused'
  BY <1>2, <1>6 DEF RemovedIsRefused
<1>10. (removed \cap Stored)' = {}
  BY <1>1, <1>6 DEF Answer
<1>11. ListedOnce'
  BY <1>1, <1>6 DEF ListedOnce
<1> QED
  BY <1>5, <1>7, <1>8, <1>9, <1>10, <1>11

LEMMA SThrow ==
  ASSUME OneAtATime, SInv, TInv', NEW r \in All, Throw(r)
  PROVE  SInv'
<1> USE DEF SInv
<1>1. /\ req[r] # Idle /\ req' = [req EXCEPT ![r] = Idle]
      /\ added' = IF r = Load THEN {} ELSE added
      /\ UNCHANGED <<rows, cache, removed>>
  BY DEF Throw
<1>2. \A q \in All : req'[q] = Idle
  BY <1>1, Alone DEF TInv, TypeOK, All
<1>3. ~Starting'
  BY <1>2 DEF Starting, All
<1>4. Stored' = Stored /\ \A i \in Ids : Live(i)' <=> Live(i)
  BY <1>1 DEF Stored, Live
<1>5. \A q \in All : Informed(q)'
  BY <1>2 DEF Informed, At, Idle
<1>6. r # Load => ~Starting
  BY <1>1, Alone DEF Starting, All
<1>7. AddedIsAllowed'
  <2>1. added \subseteq Ids
    BY DEF TInv, TypeOK
  <2> QED
    BY <1>1, <1>4, <1>6, <2>1 DEF AddedIsAllowed
<1>8. RemovedIsRefused'
  BY <1>1, <1>4 DEF RemovedIsRefused
<1>9. ListedOnce' /\ (removed \cap Stored)' = {}
  BY <1>1, <1>4 DEF ListedOnce
<1> QED
  BY <1>3, <1>5, <1>7, <1>8, <1>9

LEMMA SStep == OneAtATime /\ SInv /\ [Next]_vars => SInv'
<1> SUFFICES ASSUME OneAtATime, SInv, [Next]_vars PROVE SInv'
  OBVIOUS
<1>1. TInv'
  BY TStep DEF SInv
<1>2. ASSUME NEW r \in Reqs, FindByUriAndOrg(r) PROVE SInv'
  <2>1. PICK u \in Uris, o \in Orgs :
          /\ \A i \in Ids : Live(i) => rows[i] # [uri |-> u, org |-> o]
          /\ req' = [req EXCEPT ![r] = [Idle EXCEPT
                       !.op = "add", !.pc = "insert", !.uri = u, !.org = o]]
          /\ ~Starting /\ UNCHANGED <<rows, cache, added, removed>>
    BY <1>2 DEF FindByUriAndOrg
  <2>2. /\ req'[r].pc = "insert" /\ req'[r].uri = u /\ req'[r].org = o
        /\ \A q \in All \ {r} : req'[q] = req[q]
    BY <2>1 DEF SInv, TInv, TypeOK, All, Idle
  <2>3. Informed(r)'
    BY <2>1, <2>2 DEF Informed, At, Live
  <2> QED
    BY <1>1, <2>1, <2>2, <2>3, LocalStep
<1>3. ASSUME NEW r \in Reqs, FindById(r) PROVE SInv'
  <2>1. /\ req'[r].pc = "delete" /\ ~Starting
        /\ UNCHANGED <<rows, cache, added, removed>>
        /\ \A q \in All \ {r} : req'[q] = req[q]
    BY <1>3 DEF FindById, SInv, TInv, TypeOK, All, Idle
  <2>2. Informed(r)'
    BY <2>1 DEF Informed, At
  <2> QED
    BY <1>1, <2>1, <2>2, LocalStep
<1>4. CASE Restart
  <2>1. /\ cache' = Base /\ UNCHANGED <<rows, added, removed>>
        /\ req'[Load] = Start /\ \A r \in Reqs : req'[r] = Idle
    BY <1>4, AllowlistAssumption DEF Restart
  <2>2. \A r \in All : req'[r].pc \in {"idle", "read"}
    BY <2>1, StartTyped DEF All, Idle
  <2>3. \A r \in All : Informed(r)'
    BY <2>2 DEF Informed, At
  <2>4. Start # Idle
    BY StartTyped DEF Idle
  <2>5. Starting' /\ Stored' = Stored /\ \A i \in Ids : Live(i)' <=> Live(i)
    BY <2>1, <2>4 DEF Starting, Stored, Live
  <2> QED
    BY <1>1, <2>1, <2>3, <2>5
       DEF SInv, AddedIsAllowed, RemovedIsRefused, ListedOnce
<1>5. CASE UNCHANGED vars
  BY <1>1, <1>5 DEF vars, SInv, Informed, At, Starting, AddedIsAllowed,
                    RemovedIsRefused, ListedOnce, Stored, Live
<1> QED
  BY <1>1, <1>2, <1>3, <1>4, <1>5, SCreate, SDelete, SFindAll, SFill, SThrow
     DEF Next, Handle, All

\* When requests come one at a time, a URI that an organisation was told is on
\* the list is let through as long as its row exists, through failures of the
\* database and restarts of the process.
THEOREM AddedAllowed == ASSUME OneAtATime PROVE Spec => []AddedIsAllowed
<1>1. SInv /\ [Next]_vars => SInv'
  BY SStep
<1>2. SInv => AddedIsAllowed
  BY DEF SInv
<1> QED
  BY <1>1, <1>2, SInit, PTL DEF Spec

\* Likewise a URI whose last row an administrator was told is gone is refused.
THEOREM RemovedRefused == ASSUME OneAtATime PROVE Spec => []RemovedIsRefused
<1>1. SInv /\ [Next]_vars => SInv'
  BY SStep
<1>2. SInv => RemovedIsRefused
  BY DEF SInv
<1> QED
  BY <1>1, <1>2, SInit, PTL DEF Spec

=============================================================================

------------------------- MODULE RedirectAllowlist -------------------------
(***************************************************************************)
(* The redirect URIs that the Google guard lets through: the table         *)
(* allowed_redirect_uris, the cache of redirect-allowlist.service.ts in    *)
(* one process, and the two handlers of management.controller.ts that      *)
(* change the table and then reload the cache.  A reload reads the table   *)
(* and fills the cache when the answer arrives; the reloads of several     *)
(* requests overlap.                                                       *)
(*                                                                         *)
(* Who may manage which organisation is the business of ManagementGuard    *)
(* and is left out: any request may name any organisation or row.          *)
(***************************************************************************)
EXTENDS FiniteSets

CONSTANTS Ids,       \* primary keys of the table
          Orgs, Uris,
          Base,      \* FRONTEND_URL and GOOGLE_ALLOWED_REDIRECT_URIS
          Reqs,      \* requests in flight at one time
          Free, Gone, None

Row  == [uri: Uris, org: Orgs]
Load == "load"

ASSUME AllowlistAssumption ==
  /\ Base \subseteq Uris
  /\ Free # Gone /\ {Free, Gone} \cap Row = {}
  /\ None \notin Ids \cup Uris \cup Orgs
  /\ Load \notin Reqs

VARIABLES rows,    \* the table
          cache,   \* allowedUris
          req,     \* the handler's state, per request and for the start
          added,   \* rows whose insertion was answered with 201, as long as no
           \* load at start failed
          removed  \* URIs whose last row a request answered with 204 removed

vars == <<rows, cache, req, added, removed>>

Opt(S) == S \cup {None}
Request == [op: {None, "start", "add", "remove"},
            pc: {"idle", "insert", "delete", "read", "fill"}, row: Opt(Ids),
            uri: Opt(Uris), org: Opt(Orgs), found: SUBSET Uris]
Idle == [op |-> None, pc |-> "idle", row |-> None, uri |-> None,
         org |-> None, found |-> {}]

Live(i)  == rows[i] \notin {Free, Gone}
Stored   == {rows[i].uri : i \in {j \in Ids : Live(j)}}
Starting == req[Load] # Idle

TypeOK ==
  /\ rows \in [Ids -> {Free, Gone} \cup Row]
  /\ Base \subseteq cache /\ cache \subseteq Uris
  /\ req \in [Reqs \cup {Load} -> Request]
  /\ added \subseteq Ids /\ removed \subseteq Uris

\* The constructor, and onModuleInit about to call refresh().
Start == [Idle EXCEPT !.op = "start", !.pc = "read"]

Init ==
  /\ rows = [i \in Ids |-> Free]
  /\ cache = Base
  /\ req = [r \in Reqs \cup {Load} |-> IF r = Load THEN Start ELSE Idle]
  /\ added = {} /\ removed = {}

At(r, pc) == req[r].pc = pc

-----------------------------------------------------------------------------
\* addRedirectUri: another row of this organisation with this URI is a conflict.
FindByUriAndOrg(r) ==
  /\ req[r] = Idle /\ ~Starting
  /\ \E u \in Uris, o \in Orgs :
       /\ \A i \in Ids : Live(i) => rows[i] # [uri |-> u, org |-> o]
       /\ req' = [req EXCEPT ![r] = [Idle EXCEPT
                    !.op = "add", !.pc = "insert", !.uri = u, !.org = o]]
  /\ UNCHANGED <<rows, cache, added, removed>>

Create(r) ==
  /\ At(r, "insert")
  /\ \E i \in {j \in Ids : rows[j] = Free} :
       /\ rows' = [rows EXCEPT ![i] = [uri |-> req[r].uri, org |-> req[r].org]]
       /\ req' = [req EXCEPT ![r].pc = "read", ![r].row = i]
  /\ removed' = removed \ {req[r].uri}
  /\ UNCHANGED <<cache, added>>

\* removeRedirectUri
FindById(r) ==
  /\ req[r] = Idle /\ ~Starting
  /\ \E i \in {j \in Ids : Live(j)} :
       req' = [req EXCEPT ![r] = [Idle EXCEPT
                 !.op = "remove", !.pc = "delete", !.row = i,
                 !.uri = rows[i].uri]]
  /\ UNCHANGED <<rows, cache, added, removed>>

\* A handler answers once the cache is filled.
Answer(r) ==
  /\ added' = IF req[r].op = "add" THEN added \cup {req[r].row} ELSE added
  /\ removed' = IF req[r].op = "remove"
                  THEN removed \cup ({req[r].uri} \ Stored) ELSE removed

\* Mutant: the cache is not reloaded after a removal.
RemoveOnly(r) ==
  /\ At(r, "delete")
  /\ rows' = [rows EXCEPT ![req[r].row] = Gone]
  /\ req' = [req EXCEPT ![r] = Idle]
  /\ removed' = removed \cup {req[r].uri}
  /\ UNCHANGED <<cache, added>>

Delete(r) ==
  /\ At(r, "delete")
  /\ rows' = [rows EXCEPT ![req[r].row] = Gone]
  /\ req' = [req EXCEPT ![r].pc = "read"]
  /\ UNCHANGED <<cache, added, removed>>

\* Mutant: a reload reads the rows of one organisation, as findByOrg() does.
FindByOrg(r) ==
  /\ At(r, "read")
  /\ req' = [req EXCEPT ![r].pc = "fill",
       ![r].found = {rows[i].uri : i \in {j \in Ids :
         Live(j) /\ (req[r].op = "add" => rows[j].org = req[r].org)}}]
  /\ UNCHANGED <<rows, cache, added, removed>>

\* refresh() up to its await, and the rest of it.
FindAll(r) ==
  /\ At(r, "read")
  /\ req' = [req EXCEPT ![r].pc = "fill", ![r].found = Stored]
  /\ UNCHANGED <<rows, cache, added, removed>>

Fill(r) ==
  /\ At(r, "fill")
  /\ cache' = Base \cup req[r].found
  /\ req' = [req EXCEPT ![r] = Idle]
  /\ Answer(r)
  /\ UNCHANGED rows

\* A query fails and the handler throws: what was written stays, and so does the
\* cache.  At start the error is logged, and the process serves what the
\* environment allows until the next change.
Throw(r) ==
  /\ req[r] # Idle
  /\ req' = [req EXCEPT ![r] = Idle]
  /\ added' = IF r = Load THEN {} ELSE added
  /\ UNCHANGED <<rows, cache, removed>>

\* The process dies and starts again, with the table as it is.
Restart ==
  /\ cache' = Base
  /\ req' = [r \in Reqs \cup {Load} |-> IF r = Load THEN Start ELSE Idle]
  /\ UNCHANGED <<rows, added, removed>>

Handle(r) ==
  \/ FindByUriAndOrg(r) \/ Create(r) \/ FindById(r) \/ Delete(r)

Next ==
  \/ Restart
  \/ \E r \in Reqs : Handle(r)
  \/ \E r \in Reqs \cup {Load} : FindAll(r) \/ Fill(r) \/ Throw(r)

Spec == Init /\ [][Next]_vars

-----------------------------------------------------------------------------
(* Properties *)

\* A URI that an organisation was told is on the list is let through for as long
\* as its row exists, whatever fails afterwards, and after a restart that loads
\* the table.
\* README.md:32 says that URIs added through the API "take effect immediately
\* without restart".
AddedIsAllowed ==
  ~Starting => \A i \in added : Live(i) => rows[i].uri \in cache

\* A URI whose last row an administrator was told is gone is not let through
\* until an organisation adds it again.
RemovedIsRefused ==
  ~Starting => \A u \in removed \ Base : u \notin Stored => u \notin cache
=============================================================================

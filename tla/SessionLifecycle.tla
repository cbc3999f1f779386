-------------------------- MODULE SessionLifecycle --------------------------
(***************************************************************************)
(* What the backend promises about sessions, whatever handlers it has and  *)
(* however they interleave.  A session is opened once, for one user, and   *)
(* closed once.  A token is issued once, by a request that opened the      *)
(* session or found it open, for the owner that the session then had.      *)
(* AuthService implements this (AuthService!Lifecycle).                    *)
(***************************************************************************)
CONSTANTS Users, Sessions, Tokens,
          Reqs,      \* who may issue tokens
          Free, Gone, None

VARIABLES owner,     \* the user of a session: Free before, Gone after it
          issued,    \* the payload of a token: Free before, Gone after it
          permit     \* the payload of the tokens that a request may issue

vars == <<owner, issued, permit>>

Payload(u, s) == [userId |-> u, sessionId |-> s]

Init ==
  /\ owner  = [s \in Sessions |-> Free]
  /\ issued = [t \in Tokens |-> Free]
  /\ permit = [r \in Reqs |-> None]

Open(r) ==
  /\ permit[r] = None
  /\ \E s \in Sessions, u \in Users :
       /\ owner[s] = Free
       /\ owner'  = [owner EXCEPT ![s] = u]
       /\ permit' = [permit EXCEPT ![r] = Payload(u, s)]
  /\ UNCHANGED issued

Renew(r) ==
  /\ permit[r] = None
  /\ \E s \in Sessions, u \in Users :
       /\ owner[s] = u
       /\ permit' = [permit EXCEPT ![r] = Payload(u, s)]
  /\ UNCHANGED <<owner, issued>>

\* The session may have been closed since.
Issue(r) ==
  /\ permit[r] # None
  /\ \E t \in Tokens :
       /\ issued[t] = Free
       /\ issued' = [issued EXCEPT ![t] = permit[r]]
  /\ permit' \in {permit, [permit EXCEPT ![r] = None]}
  /\ UNCHANGED owner

GiveUp(r) ==
  /\ permit' = [permit EXCEPT ![r] = None]
  /\ UNCHANGED <<owner, issued>>

\* Revoked or expired, one at a time.
Lapse ==
  /\ \E t \in Tokens :
       issued[t] # Free /\ issued' = [issued EXCEPT ![t] = Gone]
  /\ UNCHANGED <<owner, permit>>

\* Some or all sessions of one user.
Close ==
  /\ \E u \in Users, S \in SUBSET Sessions :
       /\ \A s \in S : owner[s] \in {u, Gone}
       /\ owner' = [s \in Sessions |-> IF s \in S THEN Gone ELSE owner[s]]
  /\ UNCHANGED <<issued, permit>>

Next ==
  \/ \E r \in Reqs : Open(r) \/ Renew(r) \/ Issue(r) \/ GiveUp(r)
  \/ Lapse \/ Close

Spec == Init /\ [][Next]_vars
=============================================================================

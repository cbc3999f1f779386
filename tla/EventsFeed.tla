----------------------------- MODULE EventsFeed -----------------------------
(***************************************************************************)
(* The feed of domain events: events.service.ts, events.repository.ts and  *)
(* a client of GET /events that follows the feed from page to page.        *)
(*                                                                         *)
(* An event is stamped when the transaction that inserts it begins (the    *)
(* column's default is now()) and is visible when it commits.  Stamps      *)
(* count microseconds and the cursor, which went through a JavaScript      *)
(* Date, whole milliseconds.                                               *)
(***************************************************************************)
EXTENDS Naturals, FiniteSets

CONSTANTS Events,   \* ids of the table
          Limit,    \* the "limit" of the client's requests
          Milli,    \* microseconds in a millisecond
          MaxTime   \* bound: the clock of a behaviour

ASSUME FeedAssumption ==
  /\ Limit \in Nat \ {0} /\ Milli \in Nat \ {0} /\ MaxTime \in Nat

VARIABLES now,
          state,  \* of the transaction that inserts an event
          stamp,  \* occurredAt
          since,  \* the client's cursor; 0 is the epoch
          seen,   \* the events that reached the client
          late    \* those that had not committed when the cursor passed them

vars == <<now, state, stamp, since, seen, late>>

TypeOK ==
  /\ now \in 1 .. MaxTime
  /\ state \in [Events -> {"none", "begun", "committed", "aborted"}]
  /\ stamp \in [Events -> 0 .. now]
  /\ since \in 0 .. now
  /\ seen \subseteq Events /\ late \subseteq Events

Init ==
  /\ MaxTime > 0 /\ now = 1
  /\ state = [e \in Events |-> "none"] /\ stamp = [e \in Events |-> 0]
  /\ since = 0 /\ seen = {} /\ late = {}

-----------------------------------------------------------------------------
Tick ==
  /\ now < MaxTime
  /\ now' = now + 1
  /\ UNCHANGED <<state, stamp, since, seen, late>>

\* append()
Begin(e) ==
  /\ state[e] = "none"
  /\ state' = [state EXCEPT ![e] = "begun"]
  /\ stamp' = [stamp EXCEPT ![e] = now]
  /\ UNCHANGED <<now, since, seen, late>>

End(e) ==
  /\ state[e] = "begun"
  /\ \E outcome \in {"committed", "aborted"} :
       state' = [state EXCEPT ![e] = outcome]
  /\ UNCHANGED <<now, stamp, since, seen, late>>

-----------------------------------------------------------------------------
(* findAfter(since, limit) *)

Committed == {e \in Events : state[e] = "committed"}
After(t)  == {e \in Committed : stamp[e] > t}

\* Mutant: the latest events come first.
LatestPage(P) ==
  /\ P \subseteq After(since)
  /\ \A e \in P, f \in After(since) \ P : stamp[e] >= stamp[f]
  /\ Cardinality(P) <= Limit
  /\ Cardinality(P) < Limit => P = After(since)

\* The first events after the cursor.  Events with the same stamp come in any
\* order.
IsPage(P) ==
  /\ P \subseteq After(since)
  /\ \A e \in P, f \in After(since) \ P : stamp[e] <= stamp[f]
  /\ Cardinality(P) <= Limit
  /\ Cardinality(P) < Limit => P = After(since)

\* toISOString() keeps milliseconds.
Cursor(t) == t - (t % Milli)

\* Mutant: the cursor is that of the first event of the page.
IsFirst(e, P) == e \in P /\ \A f \in P : stamp[e] <= stamp[f]
IsLast(e, P) == e \in P /\ \A f \in P : stamp[f] <= stamp[e]

\* list(), and the client that goes on after the last event it got: on a full
\* page that is nextCursor, and otherwise the occurredAt of that event.
Poll ==
  \E P \in SUBSET Events :
    /\ IsPage(P) /\ P # {}
    /\ seen' = seen \cup P
    /\ \E e \in P : IsLast(e, P) /\ since' = Cursor(stamp[e])
    /\ late' = late \cup {e \in Events : state[e] = "begun"
                                           /\ stamp[e] <= since'}
    /\ UNCHANGED <<now, state, stamp>>

Next == Tick \/ Poll \/ \E e \in Events : Begin(e) \/ End(e)

Spec == Init /\ [][Next]_vars

\* The client polls again and again.
FairSpec == Spec /\ WF_vars(Poll)

-----------------------------------------------------------------------------
(* Properties *)

\* An event at the very stamp of another one, a whole millisecond: the cursor
\* of the one excludes the other.
Twin(e) ==
  (stamp[e] % Milli) = 0 /\ \E f \in Events \ {e} : stamp[f] = stamp[e]

\* The cursor passes no event that had committed, unless it is a twin: an event
\* that a client will never get had not committed when the cursor passed it.
NothingSkipped ==
  \A e \in Committed :
    stamp[e] <= since => e \in seen \cup late \/ Twin(e)

\* A client gets an event again only while its cursor is in the millisecond of
\* that event.
RepeatsWithinMilli ==
  \A e \in seen : stamp[e] < since + Milli

\* When fewer events than a page holds fall into a millisecond, every event is
\* delivered: the cursor, which repeats its millisecond, gets out of it.
Crowded ==
  \E t \in 0 .. MaxTime :
    Cardinality({e \in Events : state[e] # "none" /\ Cursor(stamp[e]) = t})
      >= Limit
Delivered ==
  \A e \in Events :
    state[e] = "committed" ~> e \in seen \cup late \/ Twin(e) \/ Crowded
=============================================================================

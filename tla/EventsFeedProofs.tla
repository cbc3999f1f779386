-------------------------- MODULE EventsFeedProofs --------------------------
(***************************************************************************)
(* What holds of the feed of domain events for every number of events,     *)
(* page size and precision of the cursor.                                  *)
(***************************************************************************)
EXTENDS EventsFeed, TLAPS

\* The arithmetic of the cursor: it is a multiple of Milli, less than Milli
\* below the stamp it stands for.
Multiple(t) == \E k \in Nat : t = k * Milli

LEMMA CursorBelow ==
  ASSUME NEW t \in Nat
  PROVE  /\ Cursor(t) \in Nat /\ Multiple(Cursor(t))
         /\ Cursor(t) <= t /\ t < Cursor(t) + Milli
         /\ Cursor(t) = t => (t % Milli) = 0
<1> DEFINE q == t \div Milli
           r == t % Milli
<1>1. Milli \in Nat \ {0}
  BY FeedAssumption
<1>2. q \in Nat /\ r \in 0 .. (Milli - 1) /\ t = Milli * q + r
  BY <1>1
<1>3. Cursor(t) = t - r
  BY DEF Cursor
<1> HIDE DEF q, r
<1>4. Cursor(t) = q * Milli
  BY <1>1, <1>2, <1>3
<1>5. q * Milli \in Nat
  BY <1>1, <1>2
<1>6. (t % Milli) = r
  BY DEF r
<1> QED
  BY <1>1, <1>2, <1>3, <1>4, <1>5, <1>6 DEF Multiple

\* A stamp beyond a cursor has a cursor that is not below it.
LEMMA CursorMonotone ==
  ASSUME NEW s \in Nat, Multiple(s), NEW t \in Nat, s < t
  PROVE  s <= Cursor(t)
<1>1. Milli \in Nat \ {0}
  BY FeedAssumption
<1>2. PICK k \in Nat : s = k * Milli
  BY DEF Multiple
<1>3. PICK q \in Nat : Cursor(t) = q * Milli
  BY CursorBelow DEF Multiple
<1>4. k * Milli < (q + 1) * Milli
  <2>1. t < Cursor(t) + Milli /\ Cursor(t) \in Nat
    BY CursorBelow
  <2>2. (q + 1) * Milli = q * Milli + Milli
    BY <1>1
  <2> QED
    BY <1>1, <1>2, <1>3, <2>1, <2>2
<1>5. k <= q
  <2> SUFFICES ASSUME q + 1 <= k PROVE FALSE
    OBVIOUS
  <2>1. PICK d \in Nat : k = q + 1 + d
    <3>1. k - (q + 1) \in Nat /\ k = q + 1 + (k - (q + 1))
      OBVIOUS
    <3> QED
      BY <3>1
  <2>2. k * Milli = (q + 1) * Milli + d * Milli /\ d * Milli \in Nat
    BY <1>1, <2>1
  <2>3. (q + 1) * Milli \in Nat
    BY <1>1
  <2> QED
    BY <1>4, <2>2, <2>3
<1>6. PICK d \in Nat : q = k + d
  <2>1. q - k \in Nat /\ q = k + (q - k)
    BY <1>5
  <2> QED
    BY <2>1
<1>7. q * Milli = k * Milli + d * Milli /\ d * Milli \in Nat /\ k * Milli \in Nat
  BY <1>1, <1>6
<1> QED
  BY <1>2, <1>3, <1>7

-----------------------------------------------------------------------------
LEMMA TypeInit == Init => TypeOK
<1> SUFFICES ASSUME Init PROVE TypeOK
  OBVIOUS
<1>1. now \in 1 .. MaxTime /\ since \in 0 .. now
  BY FeedAssumption DEF Init
<1> QED
  BY <1>1 DEF Init, TypeOK

LEMMA TypeStep == TypeOK /\ [Next]_vars => TypeOK'
<1> SUFFICES ASSUME TypeOK, [Next]_vars PROVE TypeOK'
  OBVIOUS
<1> USE FeedAssumption
<1>1. CASE Tick
  <2>1. now' \in 1 .. MaxTime /\ 0 .. now \subseteq 0 .. now'
    BY <1>1 DEF Tick, TypeOK
  <2>2. UNCHANGED <<state, stamp, since, seen, late>>
    BY <1>1 DEF Tick
  <2>3. stamp' \in [Events -> 0 .. now']
    BY <2>1, <2>2 DEF TypeOK
  <2> QED
    BY <2>1, <2>2, <2>3 DEF TypeOK
<1>2. ASSUME NEW e \in Events, Begin(e) PROVE TypeOK'
  <2>1. now \in 0 .. now
    BY DEF TypeOK
  <2> QED
    BY <1>2, <2>1 DEF Begin, TypeOK
<1>3. ASSUME NEW e \in Events, End(e) PROVE TypeOK'
  BY <1>3 DEF End, TypeOK
<1>4. CASE Poll
  <2>1. PICK P \in SUBSET Events :
          /\ IsPage(P)
          /\ seen' = seen \cup P
          /\ \E e \in P : IsLast(e, P) /\ since' = Cursor(stamp[e])
          /\ late' = late \cup {e \in Events : state[e] = "begun"
                                                 /\ stamp[e] <= since'}
          /\ UNCHANGED <<now, state, stamp>>
    BY <1>4 DEF Poll
  <2>2. PICK e \in P : since' = Cursor(stamp[e])
    BY <2>1
  <2>3. stamp[e] \in 0 .. now /\ now \in Nat
    BY <2>2 DEF TypeOK
  <2>4. since' \in 0 .. now
    BY <2>2, <2>3, CursorBelow
  <2> QED
    BY <2>1, <2>4 DEF TypeOK
<1>5. CASE UNCHANGED vars
  BY <1>5 DEF vars, TypeOK
<1> QED
  BY <1>1, <1>2, <1>3, <1>4, <1>5 DEF Next

\* Every reachable state of the feed is one its table and its client can hold;
\* the cursor never runs ahead of the clock.
THEOREM TypeCorrect == Spec => []TypeOK
<1> QED
  BY TypeInit, TypeStep, PTL DEF Spec

-----------------------------------------------------------------------------
(* What the cursor passes.  A client that reads page after page gets every  *)
(* event that had committed in time.  On its own that is not inductive: an  *)
(* event that a transaction has begun and not yet committed must be known   *)
(* to be late already when the cursor is beyond it, and an event that       *)
(* begins at the very stamp of the cursor must find there the event that    *)
(* the cursor stands for.                                                   *)

Begun(e) == state[e] \in {"begun", "committed"}

PassedKnown ==
  \A e \in Events :
    Begun(e) /\ stamp[e] <= since => e \in seen \cup late \/ Twin(e)

CursorOfEvent ==
  since # 0 => \E f \in Committed : since = Cursor(stamp[f])

StampedOnce ==
  \A e \in Events : state[e] # "none" <=> stamp[e] # 0

PInv == TypeOK /\ PassedKnown /\ CursorOfEvent /\ StampedOnce

LEMMA PassedInit == Init => PInv
<1> SUFFICES ASSUME Init PROVE PInv
  OBVIOUS
<1>1. TypeOK
  BY TypeInit
<1> QED
  BY <1>1 DEF Init, PInv, PassedKnown, CursorOfEvent, StampedOnce, Begun

\* An event keeps its stamp once it has one, so a twin stays a twin.
LEMMA TwinStays ==
  ASSUME NEW e \in Events, Twin(e),
         \A f \in Events : stamp[f] = stamp[e] => stamp'[f] = stamp[f]
  PROVE  Twin(e)'
BY DEF Twin

LEMMA PassedBegin ==
  ASSUME PInv, NEW e \in Events, Begin(e)
  PROVE  PInv'
<1> USE FeedAssumption DEF PInv
<1>1. TypeOK'
  BY TypeStep DEF Next
<1>2. /\ now \in Nat \ {0} /\ since \in 0 .. now
      /\ stamp \in [Events -> 0 .. now]
  BY DEF TypeOK
<1>3. /\ state[e] = "none" /\ stamp[e] = 0
      /\ state' = [state EXCEPT ![e] = "begun"]
      /\ stamp' = [stamp EXCEPT ![e] = now]
      /\ UNCHANGED <<now, since, seen, late>>
  BY DEF Begin, StampedOnce
<1>4. stamp'[e] = now /\ \A f \in Events \ {e} : stamp'[f] = stamp[f]
  BY <1>2, <1>3
<1>5. state'[e] = "begun" /\ \A f \in Events \ {e} : state'[f] = state[f]
  BY <1>3 DEF TypeOK
<1>6. StampedOnce'
  BY <1>2, <1>4, <1>5 DEF StampedOnce
<1>7. Committed' = Committed /\ e \notin Committed
  BY <1>3, <1>5 DEF Committed
<1>8. CursorOfEvent'
  <2> SUFFICES ASSUME since' # 0
               PROVE  \E f \in Committed' : since' = Cursor(stamp'[f])
    BY DEF CursorOfEvent, Cursor
  <2>1. PICK f \in Committed : since = Cursor(stamp[f])
    BY <1>3 DEF CursorOfEvent
  <2>2. f \in Events \ {e}
    BY <1>7 DEF Committed
  <2> QED
    BY <1>3, <1>4, <1>7, <2>1, <2>2
<1>9. PassedKnown'
  <2> SUFFICES ASSUME NEW f \in Events, Begun(f)', stamp'[f] <= since'
               PROVE  f \in seen' \cup late' \/ Twin(f)'
    BY DEF PassedKnown, Begun, Twin
  <2>1. CASE f = e
    <3>1. since = now
      BY <1>2, <1>3, <1>4, <2>1
    <3>2. PICK g \in Committed : since = Cursor(stamp[g])
      BY <1>2, <3>1 DEF CursorOfEvent
    <3>3. g \in Events \ {e} /\ stamp[g] \in 0 .. now
      BY <1>2, <1>7 DEF Committed
    <3>4. stamp[g] = now /\ (now % Milli) = 0
      BY <1>2, <3>1, <3>2, <3>3, CursorBelow
    <3> QED
      BY <1>4, <2>1, <3>3, <3>4 DEF Twin
  <2>2. CASE f # e
    <3>1. Begun(f) /\ stamp[f] <= since
      BY <1>3, <1>4, <1>5, <2>2 DEF Begun
    <3>2. stamp[f] # 0
      BY <3>1 DEF StampedOnce, Begun
    <3>3. Twin(f) => Twin(f)'
      BY <1>3, <1>4, <3>2, TwinStays
    <3> QED
      BY <1>3, <3>1, <3>3 DEF PassedKnown
  <2> QED
    BY <2>1, <2>2
<1> QED
  BY <1>1, <1>6, <1>8, <1>9

LEMMA PassedEnd ==
  ASSUME PInv, NEW e \in Events, End(e)
  PROVE  PInv'
<1> USE DEF PInv
<1>1. TypeOK'
  BY TypeStep DEF Next
<1>2. /\ state[e] = "begun" /\ state'[e] \in {"committed", "aborted"}
      /\ \A f \in Events \ {e} : state'[f] = state[f]
      /\ UNCHANGED <<now, stamp, since, seen, late>>
  BY DEF End, TypeOK
<1>3. StampedOnce'
  BY <1>2 DEF StampedOnce
<1>4. Committed \subseteq Committed'
  BY <1>2 DEF Committed
<1>5. CursorOfEvent'
  BY <1>2, <1>4 DEF CursorOfEvent, Cursor
<1>6. \A f \in Events : (Begun(f)' => Begun(f)) /\ (Twin(f) => Twin(f)')
  BY <1>2 DEF Begun, Twin
<1>7. PassedKnown'
  BY <1>2, <1>6 DEF PassedKnown
<1> QED
  BY <1>1, <1>3, <1>5, <1>7

LEMMA PassedPoll ==
  ASSUME PInv, Poll
  PROVE  PInv'
<1> USE FeedAssumption DEF PInv
<1>1. TypeOK'
  BY TypeStep DEF Next
<1>2. PICK P \in SUBSET Events :
        /\ IsPage(P)
        /\ seen' = seen \cup P
        /\ \E e \in P : IsLast(e, P) /\ since' = Cursor(stamp[e])
        /\ late' = late \cup {e \in Events : state[e] = "begun"
                                               /\ stamp[e] <= since'}
        /\ UNCHANGED <<now, state, stamp>>
  BY DEF Poll
<1>3. PICK g \in P : IsLast(g, P) /\ since' = Cursor(stamp[g])
  BY <1>2
<1>4. g \in Committed /\ g \in Events /\ stamp \in [Events -> Nat]
  BY <1>2, <1>3 DEF IsPage, After, Committed, TypeOK
<1>5. Committed' = Committed /\ (\A f \in Events : Twin(f)' <=> Twin(f))
  BY <1>2 DEF Committed, Twin
<1>6. StampedOnce'
  BY <1>2 DEF StampedOnce
<1>7. CursorOfEvent'
  BY <1>2, <1>3, <1>4, <1>5 DEF CursorOfEvent, Cursor
<1>8. PassedKnown'
  <2> SUFFICES ASSUME NEW e \in Events, Begun(e), stamp[e] <= since'
               PROVE  e \in seen' \cup late' \/ Twin(e)
    BY <1>2, <1>5 DEF PassedKnown, Begun
  <2>1. CASE stamp[e] <= since
    BY <1>2, <2>1 DEF PassedKnown
  <2>2. CASE state[e] = "begun"
    BY <1>2, <2>2
  <2>3. CASE e \in After(since) \ P
    <3>1. stamp[g] <= stamp[e]
      BY <1>2, <1>3, <2>3 DEF IsPage
    <3>2. /\ stamp[g] \in Nat /\ stamp[e] \in Nat /\ since' \in Nat
          /\ since' <= stamp[g] /\ (since' = stamp[g] => (stamp[g] % Milli) = 0)
      BY <1>3, <1>4, CursorBelow
    <3>3. stamp[g] = stamp[e] /\ (stamp[e] % Milli) = 0
      BY <3>1, <3>2
    <3> QED
      BY <1>3, <1>4, <2>3, <3>3 DEF Twin
  <2>4. CASE e \in P
    BY <1>2, <2>4
  <2>5. stamp[e] \in Nat /\ since \in Nat
    BY <1>4 DEF TypeOK
  <2> QED
    BY <2>1, <2>2, <2>3, <2>4, <2>5 DEF Begun, After, Committed
<1> QED
  BY <1>1, <1>6, <1>7, <1>8

LEMMA PassedStep == PInv /\ [Next]_vars => PInv'
<1> SUFFICES ASSUME PInv, [Next]_vars PROVE PInv'
  OBVIOUS
<1>1. ASSUME UNCHANGED <<state, stamp, since, seen, late>> PROVE PInv'
  <2>1. TypeOK'
    BY TypeStep DEF PInv
  <2> QED
    BY <1>1, <2>1 DEF PInv, PassedKnown, CursorOfEvent, StampedOnce, Begun,
                      Twin, Committed, Cursor
<1>2. CASE Tick
  BY <1>1, <1>2 DEF Tick
<1>3. CASE UNCHANGED vars
  BY <1>1, <1>3 DEF vars
<1> QED
  BY <1>2, <1>3, PassedBegin, PassedEnd, PassedPoll DEF Next

\* However the transactions overlap and however the pages are cut, the cursor
\* of a client passes no event that had committed, unless another event has the
\* very same stamp, a whole millisecond.
THEOREM NoneSkipped == Spec => []NothingSkipped
<1>1. PInv => NothingSkipped
  BY DEF PInv, PassedKnown, NothingSkipped, Begun, Committed
<1> QED
  BY <1>1, PassedInit, PassedStep, PTL DEF Spec

-----------------------------------------------------------------------------
(* What a client gets twice.  The cursor never goes back, because a stamp   *)
(* beyond a cursor has a cursor that is no less.                            *)

RInv == /\ TypeOK /\ RepeatsWithinMilli /\ Multiple(since)
        /\ \A e \in seen : state[e] = "committed"

LEMMA RepeatsInit == Init => RInv
<1> SUFFICES ASSUME Init PROVE RInv
  OBVIOUS
<1>1. Multiple(since)
  BY FeedAssumption DEF Init, Multiple
<1> QED
  BY <1>1, TypeInit DEF Init, RInv, RepeatsWithinMilli

LEMMA RepeatsPoll ==
  ASSUME RInv, Poll
  PROVE  RInv'
<1> USE FeedAssumption DEF RInv
<1>1. TypeOK'
  BY TypeStep DEF Next
<1>2. PICK P \in SUBSET Events :
        /\ IsPage(P)
        /\ seen' = seen \cup P
        /\ \E e \in P : IsLast(e, P) /\ since' = Cursor(stamp[e])
        /\ UNCHANGED <<now, state, stamp>>
  BY DEF Poll
<1>3. PICK g \in P : IsLast(g, P) /\ since' = Cursor(stamp[g])
  BY <1>2
<1>4. /\ stamp \in [Events -> Nat] /\ since \in Nat /\ g \in Events
      /\ since < stamp[g] /\ \A e \in P : state[e] = "committed"
  BY <1>2, <1>3 DEF IsPage, After, Committed, TypeOK
<1>5. /\ since' \in Nat /\ Multiple(since') /\ since <= since'
      /\ stamp[g] < since' + Milli
  BY <1>3, <1>4, CursorBelow, CursorMonotone
<1>6. ASSUME NEW e \in seen' PROVE stamp[e] < since' + Milli
  <2>1. stamp[e] \in Nat
    BY <1>1, <1>4 DEF TypeOK
  <2>2. CASE e \in seen
    BY <1>4, <1>5, <2>1, <2>2 DEF RepeatsWithinMilli
  <2>3. CASE e \in P
    BY <1>3, <1>4, <1>5, <2>1, <2>3 DEF IsLast
  <2> QED
    BY <1>2, <2>2, <2>3
<1> QED
  BY <1>1, <1>2, <1>4, <1>5, <1>6 DEF RepeatsWithinMilli, Multiple

LEMMA RepeatsStep == RInv /\ [Next]_vars => RInv'
<1> SUFFICES ASSUME RInv, [Next]_vars PROVE RInv'
  OBVIOUS
<1>1. ASSUME UNCHANGED <<since, seen>>,
             \A e \in seen : state'[e] = state[e] /\ stamp'[e] = stamp[e]
      PROVE  RInv'
  <2>1. TypeOK'
    BY TypeStep DEF RInv
  <2> QED
    BY <1>1, <2>1 DEF RInv, RepeatsWithinMilli, Multiple
<1>2. CASE Tick
  BY <1>1, <1>2 DEF Tick
<1>3. ASSUME NEW e \in Events, Begin(e) \/ End(e) PROVE RInv'
  <2>1. e \notin seen /\ seen \subseteq Events
    BY <1>3 DEF RInv, Begin, End, TypeOK
  <2>2. \A f \in seen : state'[f] = state[f] /\ stamp'[f] = stamp[f]
    BY <1>3, <2>1 DEF RInv, Begin, End, TypeOK
  <2> QED
    BY <1>1, <1>3, <2>2 DEF Begin, End
<1>4. CASE UNCHANGED vars
  BY <1>1, <1>4 DEF vars
<1> QED
  BY <1>2, <1>3, <1>4, RepeatsPoll DEF Next

\* A client gets an event a second time only while its cursor is in the
\* millisecond of that event: the feed never falls back further.
THEOREM RepeatsBounded == Spec => []RepeatsWithinMilli
<1>1. RInv => RepeatsWithinMilli
  BY DEF RInv
<1> QED
  BY <1>1, RepeatsInit, RepeatsStep, PTL DEF Spec
=============================================================================

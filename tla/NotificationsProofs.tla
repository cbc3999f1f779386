------------------------ MODULE NotificationsProofs ------------------------
(***************************************************************************)
(* Proofs about Notifications: its types, that a process without a channel *)
(* keeps reconnecting, that no break and no crash drops what the broker    *)
(* took, and that a mail is repeated at most MaxRetries times for each     *)
(* consumer that was registered.                                           *)
(***************************************************************************)
EXTENDS Notifications, Integers, TLAPS

LEMMA NoneIdle == None.conn = 0 /\ None.sent = 0
BY DEF None

-----------------------------------------------------------------------------
(* Types *)

Works == [Msgs -> [conn: 0 .. opened, attempt: 0 .. (MaxRetries - 1),
                   sent: {0, 1}]]

LEMMA NoneTyped ==
  ASSUME opened \in Nat
  PROVE  [m \in Msgs |-> None] \in Works
         /\ None \in [conn: 0 .. opened, attempt: 0 .. (MaxRetries - 1),
                      sent: {0, 1}]
BY NotificationsAssumption DEF None, Works

LEMMA InitTyped == Init => TypeOK
<1> SUFFICES ASSUME Init PROVE TypeOK
  OBVIOUS
<1>1. work \in Works
  BY NoneTyped DEF Init
<1> QED BY <1>1, NotificationsAssumption DEF Init, TypeOK, Works

LEMMA DieTyped ==
  ASSUME TypeOK, Die, gaveUp' \subseteq Msgs, mails' \in [Msgs -> 0 .. MaxMails],
         acked' \subseteq Msgs, registered' \in Nat
  PROVE  TypeOK'
<1>1. work' \in Works'
  BY NoneTyped DEF TypeOK, Die, Works
<1> QED BY <1>1, NotificationsAssumption DEF TypeOK, Die, Busy, Works

LEMMA AckTyped ==
  ASSUME TypeOK, NEW m \in Msgs, Ack(m), gaveUp' \subseteq Msgs,
         UNCHANGED <<mails, registered>>
  PROVE  TypeOK'
<1>1. CASE Alive(work[m].conn)
  <2>1. None \in [conn: 0 .. opened, attempt: 0 .. (MaxRetries - 1),
                  sent: {0, 1}]
    BY NoneTyped DEF TypeOK
  <2>2. work' \in Works
    BY <1>1, <2>1 DEF TypeOK, Ack, Works
  <2> QED BY <1>1, <2>2 DEF TypeOK, Ack, link, broker, fields, Works
<1>2. CASE ~Alive(work[m].conn)
  BY <1>2, DieTyped DEF TypeOK, Ack
<1> QED BY <1>1, <1>2

LEMMA MailTyped ==
  ASSUME TypeOK, NEW m \in Msgs, Mail(m)
  PROVE  mails' \in [Msgs -> 0 .. MaxMails]
BY NotificationsAssumption DEF TypeOK, Mail

LEMMA DisconnectTyped ==
  ASSUME TypeOK, NEW a \in 0 .. MaxAttempts, NEW k \in Nat, HandleDisconnect(a, k)
  PROVE  /\ attempts' \in 0 .. MaxAttempts /\ timers' \in Nat
         /\ model' = 0 /\ channel' = 0
         /\ k > 0 => attempts' = MaxAttempts \/ timers' > 0
BY NotificationsAssumption DEF TypeOK, HandleDisconnect

LEMMA CatchTyped ==
  ASSUME TypeOK, NEW a \in 0 .. MaxAttempts, Catch(a)
  PROVE  /\ attempts' \in 0 .. MaxAttempts /\ timers' \in Nat
         /\ model' = 0 /\ channel' = 0
         /\ attempts' = MaxAttempts \/ timers' > 0
         /\ boot' \in {boot, "consume"}
BY DisconnectTyped DEF Catch

\* How often the events of a connection call handleDisconnect().
LEMMA Calls ==
  ASSUME TypeOK, NEW c \in Conns, NEW k \in Events
  PROVE  /\ k * listeners[c] \in Nat
         /\ listeners[c] # 0 => k * listeners[c] > 0
<1>1. listeners[c] \in Nat /\ k \in {1, 2}
  BY NotificationsAssumption DEF TypeOK
<1>2. CASE k = 1
  BY <1>1, <1>2
<1>3. CASE k = 2
  BY <1>1, <1>3
<1> QED BY <1>1, <1>2, <1>3

LEMMA StepTyped == TypeOK /\ [Next]_vars => TypeOK'
<1> SUFFICES ASSUME TypeOK, [Next]_vars PROVE TypeOK'
  OBVIOUS
<1> USE NotificationsAssumption DEF broker, record, fields
<1>1. CASE Open
  BY <1>1 DEF TypeOK, Open, Conns
<1>2. CASE ConnectFails
  <2>1. attempts \in 0 .. MaxAttempts
    BY DEF TypeOK
  <2> QED BY <1>2, <2>1, CatchTyped DEF TypeOK, ConnectFails
<1>3. CASE DelayOver
  BY <1>3 DEF TypeOK, DelayOver
<1>4. CASE Consume
  <2>1. CASE channel \notin conns \cup {0} /\ Die /\ UNCHANGED record
    BY <2>1, DieTyped DEF TypeOK
  <2>2. CASE ~(channel \notin conns \cup {0} /\ Die /\ UNCHANGED record)
    <3>1. registered' \in Nat
      BY <1>4, <2>2 DEF TypeOK, Consume
    <3> QED BY <1>4, <2>2, <3>1 DEF TypeOK, Consume
  <2> QED BY <2>1, <2>2
<1>5. CASE Killed
  BY <1>5, DieTyped DEF TypeOK, Killed
<1>6. ASSUME NEW c \in Conns, ChannelOpen(c) PROVE TypeOK'
  <2>1. c \in 1 .. opened
    BY <1>6 DEF TypeOK, ChannelOpen, Alive
  <2> QED BY <1>6, <2>1 DEF TypeOK, ChannelOpen
<1>7. ASSUME NEW c \in Conns, QueueReady(c) PROVE TypeOK'
  <2>1. CASE model # 0
    <3>1. listeners' \in [Conns -> Nat]
      BY <1>7, <2>1 DEF TypeOK, QueueReady
    <3> QED BY <1>7, <2>1, <3>1 DEF TypeOK, QueueReady
  <2>2. CASE model = 0
    <3>1. 0 \in 0 .. MaxAttempts /\ Catch(0)
      BY <1>7, <2>2 DEF QueueReady
    <3> QED BY <1>7, <2>2, <3>1, CatchTyped DEF TypeOK, QueueReady
  <2> QED BY <2>1, <2>2
<1>8. ASSUME NEW c \in Conns, SetupFails(c) PROVE TypeOK'
  <2>1. attempts \in 0 .. MaxAttempts
    BY DEF TypeOK
  <2> QED BY <1>8, <2>1, CatchTyped DEF TypeOK, SetupFails
<1>9. ASSUME NEW c \in Conns, Break(c) PROVE TypeOK'
  BY <1>9 DEF TypeOK, Break, Busy, link
<1>10. ASSUME NEW c \in Conns, Lost(c) PROVE TypeOK'
  <2>0. /\ c \in dropped /\ UNCHANGED record
        /\ \/ Die
           \/ /\ dropped' = dropped \ {c}
              /\ UNCHANGED <<boot, connecting, setup, listeners, consumer, conns,
                             opened, task, work, queue>>
              /\ \/ UNCHANGED <<fields, attempts, timers>>
                 \/ listeners[c] # 0 /\ \E k \in Events :
                      HandleDisconnect(attempts, k * listeners[c])
    BY <1>10, Zenon DEF Lost
  <2>1. CASE Die
    BY <2>0, <2>1, DieTyped DEF TypeOK
  <2>2. ASSUME ~Die PROVE TypeOK'
    <3>1. /\ attempts' \in 0 .. MaxAttempts /\ timers' \in Nat
          /\ model' \in {0, model} /\ channel' \in {0, channel}
      <4>1. CASE UNCHANGED <<fields, attempts, timers>>
        BY <4>1 DEF TypeOK
      <4>2. ASSUME NEW k \in Events, HandleDisconnect(attempts, k * listeners[c])
            PROVE  /\ attempts' \in 0 .. MaxAttempts /\ timers' \in Nat
                   /\ model' = 0 /\ channel' = 0
        <5>1. k * listeners[c] \in Nat /\ attempts \in 0 .. MaxAttempts
          BY Calls DEF TypeOK
        <5> QED BY <4>2, <5>1, DisconnectTyped
      <4> QED BY <2>0, <2>2, <4>1, <4>2
    <3>2. /\ dropped' = dropped \ {c}
          /\ UNCHANGED <<boot, connecting, setup, listeners, consumer, conns,
                         opened, task, work, queue>>
      BY <2>0, <2>2
    <3> QED BY <2>0, <3>1, <3>2 DEF TypeOK
  <2> QED BY <2>1, <2>2
<1>11. ASSUME NEW m \in Msgs, Dispatch(m) PROVE TypeOK'
  BY <1>11 DEF TypeOK, Dispatch, link
<1>12. ASSUME NEW m \in Msgs, SyncSend(m) PROVE TypeOK'
  <2>1. mails' \in [Msgs -> 0 .. MaxMails]
    BY <1>12, MailTyped DEF SyncSend, TypeOK
  <2> QED BY <1>12, <2>1 DEF TypeOK, SyncSend, link
<1>13. ASSUME NEW m \in Msgs, Deliver(m) PROVE TypeOK'
  BY <1>13 DEF TypeOK, Deliver, link
<1>14. ASSUME NEW m \in Msgs, Accepted(m) PROVE TypeOK'
  <2>1. mails' \in [Msgs -> 0 .. MaxMails]
    BY <1>14, MailTyped DEF Accepted
  <2>2. work' \in Works
    BY <1>14 DEF TypeOK, Accepted, Works
  <2>3. UNCHANGED <<boot, connecting, setup, timers, attempts, model, channel,
                    listeners, consumer, conns, dropped, opened, task, queue,
                    gaveUp, acked, registered>>
    BY <1>14 DEF Accepted, link
  <2> QED BY <2>1, <2>2, <2>3 DEF TypeOK, Works
<1>15. ASSUME NEW m \in Msgs, HandleSends(m) PROVE TypeOK'
  BY <1>15, AckTyped DEF HandleSends, TypeOK
<1>16. ASSUME NEW m \in Msgs, HandleFails(m) PROVE TypeOK'
  <2>1. CASE work[m].attempt + 1 < MaxRetries
    <3>1. work' \in Works
      BY <1>16, <2>1 DEF TypeOK, HandleFails, Works
    <3>2. UNCHANGED <<boot, connecting, setup, timers, attempts, model, channel,
                      listeners, consumer, conns, dropped, opened, task, queue,
                      mails, gaveUp, acked, registered>>
      BY <1>16, <2>1 DEF HandleFails, link
    <3> QED BY <3>1, <3>2 DEF TypeOK, Works
  <2>2. CASE ~(work[m].attempt + 1 < MaxRetries)
    BY <1>16, <2>2, AckTyped DEF TypeOK, HandleFails
  <2> QED BY <2>1, <2>2
<1>17. CASE UNCHANGED vars
  BY <1>17 DEF TypeOK, vars, link
<1> QED BY <1>1, <1>2, <1>3, <1>4, <1>5, <1>6, <1>7, <1>8, <1>9, <1>10, <1>11,
           <1>12, <1>13, <1>14, <1>15, <1>16, <1>17 DEF Next, Setup

\* Connections, timers, tasks and handlers stay what they are declared to be,
\* whatever breaks, overlaps or is killed.
THEOREM Typed == Spec => []TypeOK
BY InitTyped, StepTyped, PTL DEF Spec

-----------------------------------------------------------------------------
(* Reconnecting *)

\* A connection that is the model, and whose connect() is over, has listeners;
\* so the process forgets it as soon as it hears of its end.  A model without a
\* channel is one whose channel is still to come.
Heard ==
  /\ model # 0 /\ channel = 0 => setup[model] = "channel"
  /\ model # 0 /\ setup[model] = "none" => Alive(model) /\ listeners[model] # 0

Reconnecting == Heard /\ KeepsReconnecting

LEMMA DieReconnects == Die => Reconnecting'
BY DEF Die, Reconnecting, Heard, KeepsReconnecting

LEMMA DisconnectReconnects ==
  ASSUME TypeOK, NEW a \in 0 .. MaxAttempts, NEW k \in Nat, k > 0,
         HandleDisconnect(a, k), connecting' \in Nat
  PROVE  Reconnecting'
BY DisconnectTyped, NotificationsAssumption
DEF TypeOK, Reconnecting, Heard, KeepsReconnecting

LEMMA CatchReconnects ==
  ASSUME TypeOK, NEW a \in 0 .. MaxAttempts, Catch(a), connecting' \in Nat
  PROVE  Reconnecting'
BY DisconnectReconnects DEF Catch

\* Nothing is changed that the two conjuncts are about, but for more calls.
LEMMA SameReconnects ==
  ASSUME Reconnecting,
         UNCHANGED <<setup, attempts, model, channel, listeners>>,
         \A c \in Conns : Alive(c)' <=> Alive(c),
         connecting + timers > 0 => connecting' + timers' > 0, TypeOK
  PROVE  Reconnecting'
<1>1. model # 0 => model \in Conns
  BY NotificationsAssumption DEF TypeOK, Conns
<1> QED BY <1>1 DEF Reconnecting, Heard, KeepsReconnecting, Unset

LEMMA AckReconnects ==
  ASSUME TypeOK, Reconnecting, NEW m \in Msgs, Ack(m)
  PROVE  Reconnecting'
<1>1. CASE Alive(work[m].conn)
  BY <1>1, SameReconnects DEF Ack, link, broker, fields, Alive
<1>2. CASE ~Alive(work[m].conn)
  BY <1>2, DieReconnects DEF Ack
<1> QED BY <1>1, <1>2

LEMMA ReconnectsStep ==
  ASSUME TypeOK, Reconnecting, [Next]_vars
  PROVE  Reconnecting'
<1> USE NotificationsAssumption DEF broker, fields
<1>0. attempts \in 0 .. MaxAttempts /\ (model # 0 => model \in Conns)
  BY DEF TypeOK, Conns
<1>1. CASE Open
  <2>1. model' \in Conns /\ setup'[model'] = "channel"
    BY <1>1 DEF TypeOK, Open, Conns
  <2> QED BY <2>1 DEF Reconnecting, Heard, KeepsReconnecting, Unset
<1>2. CASE ConnectFails
  <2>1. connecting' \in Nat
    BY <1>2 DEF TypeOK, ConnectFails
  <2> QED BY <1>0, <1>2, <2>1, CatchReconnects DEF ConnectFails
<1>3. CASE DelayOver
  BY <1>3, SameReconnects DEF TypeOK, DelayOver, Alive
<1>4. CASE Consume
  <2>1. CASE Die
    BY <2>1, DieReconnects
  <2>2. CASE ~Die
    BY <1>4, <2>2, SameReconnects DEF Consume, Alive
  <2> QED BY <2>1, <2>2
<1>5. CASE Killed
  BY <1>5, DieReconnects DEF Killed
<1>6. ASSUME NEW c \in Conns, ChannelOpen(c) PROVE Reconnecting'
  <2>1. setup'[c] = "queue" /\ channel' # 0
    BY <1>6 DEF TypeOK, ChannelOpen, Conns
  <2>2. \A d \in Conns : d # c => setup'[d] = setup[d]
    BY <1>6 DEF TypeOK, ChannelOpen
  <2> QED BY <1>0, <1>6, <2>1, <2>2
      DEF ChannelOpen, Reconnecting, Heard, KeepsReconnecting, Unset, Alive
<1>7. ASSUME NEW c \in Conns, QueueReady(c) PROVE Reconnecting'
  <2>1. CASE model = 0
    BY <1>7, <2>1, CatchReconnects DEF TypeOK, QueueReady
  <2>2. CASE model # 0
    <3>1. listeners'[model] # 0 /\ model \in Conns /\ model' = model
      BY <1>0, <1>7, <2>2 DEF TypeOK, QueueReady
    <3>2. /\ setup'[c] = "none" /\ Alive(c) /\ setup[c] = "queue"
          /\ \A d \in Conns : d # c => setup'[d] = setup[d]
      BY <1>7 DEF TypeOK, QueueReady
    <3>3. channel' = channel /\ \A d \in Conns : Alive(d)' <=> Alive(d)
      BY <1>7, <2>2 DEF QueueReady, Alive
    <3>4. Heard'
      BY <2>2, <3>1, <3>2, <3>3 DEF Reconnecting, Heard
    <3>5. KeepsReconnecting'
      BY <2>2, <3>1, <3>2, <3>3, <3>4
      DEF Reconnecting, Heard, KeepsReconnecting, Unset
    <3> QED BY <3>4, <3>5 DEF Reconnecting
  <2> QED BY <2>1, <2>2
<1>8. ASSUME NEW c \in Conns, SetupFails(c) PROVE Reconnecting'
  BY <1>0, <1>8, CatchReconnects DEF TypeOK, SetupFails
<1>9. ASSUME NEW c \in Conns, Break(c) PROVE Reconnecting'
  <2>1. \A d \in Conns : Alive(d)' <=> Alive(d)
    BY <1>9 DEF Break, Alive
  <2> QED BY <1>9, <2>1, SameReconnects DEF Break, link
<1>10. ASSUME NEW c \in Conns, Lost(c) PROVE Reconnecting'
  <2>0. \/ Die
        \/ /\ dropped' = dropped \ {c}
           /\ UNCHANGED <<connecting, setup, listeners, conns>>
           /\ \/ listeners[c] = 0 /\ UNCHANGED <<fields, attempts, timers>>
              \/ listeners[c] # 0 /\ \E k \in Events :
                   HandleDisconnect(attempts, k * listeners[c])
    BY <1>10, Zenon DEF Lost
  <2>1. CASE Die
    BY <2>1, DieReconnects
  <2>2. ASSUME ~Die, listeners[c] = 0 PROVE Reconnecting'
    <3>1. model # 0 /\ setup[model] = "none" => model # c
      BY <2>2 DEF Reconnecting, Heard
    <3>2. \A d \in Conns : d # c => (Alive(d)' <=> Alive(d))
      BY <2>0, <2>2 DEF Alive
    <3>3. UNCHANGED <<connecting, setup, listeners, model, channel, attempts,
                      timers>>
      BY <2>0, <2>2
    <3> QED BY <1>0, <3>1, <3>2, <3>3
        DEF Reconnecting, Heard, KeepsReconnecting, Unset
  <2>3. ASSUME NEW k \in Events, listeners[c] # 0, UNCHANGED connecting,
               HandleDisconnect(attempts, k * listeners[c])
        PROVE  Reconnecting'
    <3>1. k * listeners[c] \in Nat /\ k * listeners[c] > 0
      BY <2>3, Calls
    <3>2. connecting' \in Nat
      BY <2>3 DEF TypeOK
    <3> QED BY <1>0, <2>3, <3>1, <3>2, DisconnectReconnects
  <2>4. CASE ~Die /\ listeners[c] # 0
    <3>1. UNCHANGED connecting
      BY <2>0, <2>4
    <3>2. PICK k \in Events : HandleDisconnect(attempts, k * listeners[c])
      BY <2>0, <2>4
    <3> QED BY <2>3, <2>4, <3>1, <3>2
  <2> QED BY <2>1, <2>2, <2>4
<1>11. ASSUME NEW m \in Msgs,
              Dispatch(m) \/ SyncSend(m) \/ Deliver(m) \/ Accepted(m)
       PROVE  Reconnecting'
  BY <1>11, SameReconnects DEF Dispatch, SyncSend, Deliver, Accepted, link, Alive
<1>12. ASSUME NEW m \in Msgs, HandleSends(m) \/ HandleFails(m)
       PROVE  Reconnecting'
  <2>1. CASE Ack(m)
    BY <2>1, AckReconnects
  <2>2. CASE ~Ack(m)
    BY <1>12, <2>2, SameReconnects DEF HandleSends, HandleFails, link, Alive
  <2> QED BY <2>1, <2>2
<1>13. CASE UNCHANGED vars
  BY <1>13, SameReconnects DEF vars, link, Alive
<1> QED BY <1>1, <1>2, <1>3, <1>4, <1>5, <1>6, <1>7, <1>8, <1>9, <1>10, <1>11,
           <1>12, <1>13 DEF Next, Setup

\* A process that has no channel, or whose model is a connection it knows to be
\* closed, is about to reconnect or has used up its attempts: whatever calls of
\* connect() overwrite one another's fields, attach their listeners to another
\* connection or find null there, and however many events arrive too late.
THEOREM NeverStranded == Spec => []KeepsReconnecting
<1>1. Init => Reconnecting
  BY DEF Init, Reconnecting, Heard, KeepsReconnecting
<1>2. TypeOK /\ Reconnecting /\ [Next]_vars => Reconnecting'
  BY ReconnectsStep
<1>3. Reconnecting => KeepsReconnecting
  BY DEF Reconnecting
<1> QED BY <1>1, <1>2, <1>3, Typed, PTL DEF Spec

-----------------------------------------------------------------------------
(* No notification is dropped *)

\* Where a notification is that the broker took.
Kept(m) == m \in queue \cup Busy(conns) \cup acked

\* What is known of one that was acknowledged, and of one that is sent.
Done(m) ==
  /\ m \in acked \cap Mailable => mails[m] > 0 \/ m \in gaveUp
  /\ work[m].sent = 1 => mails[m] > 0

Safe(m) == (task[m] = "queued" => Kept(m)) /\ Done(m)

AllSafe == \A m \in Msgs : Safe(m)

LEMMA SafeInit == Init => AllSafe
BY NoneIdle DEF Init, AllSafe, Safe, Done

\* The broker requeues what the process had not acknowledged.
LEMMA DieKeeps ==
  ASSUME TypeOK, AllSafe, Die, gaveUp \subseteq gaveUp',
         UNCHANGED <<mails, acked>>
  PROVE  AllSafe'
<1> SUFFICES ASSUME NEW m \in Msgs PROVE Safe(m)'
  BY DEF AllSafe
<1>1. Safe(m)
  BY DEF AllSafe
<1>2. Done(m)'
  BY <1>1, NoneIdle DEF Die, Safe, Done
<1>3. task'[m] = "queued" => task[m] = "queued"
  BY DEF Die
<1>4. task'[m] = "queued" => Kept(m)'
  BY <1>1, <1>3 DEF Die, Safe, Kept, Busy
<1> QED BY <1>2, <1>4 DEF Safe

\* A handler that ends without having mailed has given the message up.
LEMMA AckKeeps ==
  ASSUME TypeOK, AllSafe, NEW n \in Msgs, Ack(n), gaveUp \subseteq gaveUp',
         UNCHANGED mails,
         n \in Mailable => mails[n] > 0 \/ n \in gaveUp'
  PROVE  AllSafe'
<1>1. CASE Alive(work[n].conn)
  <2> SUFFICES ASSUME NEW m \in Msgs PROVE Safe(m)'
    BY DEF AllSafe
  <2>1. Safe(m)
    BY DEF AllSafe
  <2>2. /\ m # n => work'[m] = work[m]
        /\ work'[n] = None
    BY <1>1 DEF Ack, TypeOK
  <2>3. Done(m)'
    BY <1>1, <2>1, <2>2, NoneIdle DEF Ack, Safe, Done
  <2>4. task'[m] = "queued" => Kept(m)'
    BY <1>1, <2>1, <2>2 DEF Ack, Safe, Kept, Busy, broker
  <2> QED BY <2>3, <2>4 DEF Safe
<1>2. CASE ~Alive(work[n].conn)
  BY <1>2, DieKeeps DEF Ack
<1> QED BY <1>1, <1>2

LEMMA MailCounts ==
  ASSUME TypeOK, NEW n \in Msgs, Mail(n)
  PROVE  /\ mails'[n] > 0
         /\ \A m \in Msgs : mails[m] <= mails'[m] /\ mails'[m] <= mails[m] + 1
         /\ \A m \in Msgs \ {n} : mails'[m] = mails[m]
BY NotificationsAssumption DEF TypeOK, Mail

\* A step that leaves the messages where they are.
LEMMA SameSafe ==
  ASSUME AllSafe, UNCHANGED <<task, work, queue, conns, mails, gaveUp, acked>>
  PROVE  AllSafe'
BY DEF AllSafe, Safe, Kept, Busy, Done

LEMMA SafeStep ==
  ASSUME TypeOK, AllSafe, [Next]_vars
  PROVE  AllSafe'
<1> USE DEF record
<1>1. CASE ConnectFails \/ DelayOver
  BY <1>1, SameSafe DEF ConnectFails, DelayOver, broker
<1>2. CASE Open
  BY <1>2 DEF TypeOK, Open, AllSafe, Safe, Kept, Busy, Done
<1>3. CASE Consume
  <2>1. CASE Die /\ UNCHANGED record
    BY <2>1, DieKeeps
  <2>2. CASE ~(Die /\ UNCHANGED record)
    BY <1>3, <2>2, SameSafe DEF Consume, broker
  <2> QED BY <2>1, <2>2
<1>4. CASE Killed
  BY <1>4, DieKeeps DEF Killed
<1>5. ASSUME NEW c \in Conns, Setup(c) PROVE AllSafe'
  BY <1>5, SameSafe DEF Setup, ChannelOpen, QueueReady, SetupFails, broker
<1>6. ASSUME NEW c \in Conns, Break(c) PROVE AllSafe'
  BY <1>6 DEF Break, AllSafe, Safe, Kept, Busy, Done
<1>7. ASSUME NEW c \in Conns, Lost(c) PROVE AllSafe'
  <2>1. \/ Die /\ UNCHANGED record
        \/ UNCHANGED <<conns, task, work, queue, record>>
    BY <1>7, Zenon DEF Lost
  <2> QED BY <2>1, DieKeeps, SameSafe
<1>8. ASSUME NEW n \in Msgs, Dispatch(n) PROVE AllSafe'
  <2> SUFFICES ASSUME NEW m \in Msgs PROVE Safe(m)'
    BY DEF AllSafe
  <2>1. /\ Safe(m) /\ queue \subseteq queue'
        /\ UNCHANGED <<work, conns, mails, gaveUp, acked>>
    BY <1>8 DEF Dispatch, AllSafe, broker
  <2>2. task'[m] = "queued" => task[m] = "queued" \/ m \in queue'
    BY <1>8 DEF Dispatch, TypeOK
  <2> QED BY <2>1, <2>2 DEF Safe, Kept, Busy, Done
<1>9. ASSUME NEW n \in Msgs, SyncSend(n) PROVE AllSafe'
  <2> SUFFICES ASSUME NEW m \in Msgs PROVE Safe(m)'
    BY DEF AllSafe
  <2>1. /\ Safe(m)
        /\ UNCHANGED <<work, queue, conns, gaveUp, acked>>
    BY <1>9 DEF SyncSend, AllSafe, broker
  <2>2. task'[m] = "queued" => task[m] = "queued"
    BY <1>9 DEF SyncSend, TypeOK
  <2>3. mails[m] > 0 => mails'[m] > 0
    BY <1>9, MailCounts DEF SyncSend, TypeOK
  <2> QED BY <2>1, <2>2, <2>3 DEF Safe, Kept, Busy, Done
<1>10. ASSUME NEW n \in Msgs, Deliver(n) PROVE AllSafe'
  <2> SUFFICES ASSUME NEW m \in Msgs PROVE Safe(m)'
    BY DEF AllSafe
  <2>1. /\ Safe(m) /\ work'[m].sent = work[m].sent
        /\ UNCHANGED <<task, conns, mails, gaveUp, acked>>
    BY <1>10 DEF Deliver, AllSafe, TypeOK, broker
  <2>2. /\ m # n => work'[m] = work[m] /\ (m \in queue => m \in queue')
        /\ m = n => work'[m].conn \in conns
    BY <1>10 DEF Deliver, TypeOK
  <2> QED BY <2>1, <2>2 DEF Safe, Kept, Busy, Done
<1>11. ASSUME NEW n \in Msgs, Accepted(n) PROVE AllSafe'
  <2> SUFFICES ASSUME NEW m \in Msgs PROVE Safe(m)'
    BY DEF AllSafe
  <2>1. /\ Safe(m) /\ work'[m].conn = work[m].conn
        /\ UNCHANGED <<task, queue, conns, gaveUp, acked>>
    BY <1>11 DEF Accepted, AllSafe, TypeOK, broker
  <2>2. /\ m # n => work'[m].sent = work[m].sent
        /\ mails[m] > 0 => mails'[m] > 0
        /\ m = n => mails'[m] > 0
    BY <1>11, MailCounts DEF Accepted, TypeOK
  <2> QED BY <2>1, <2>2 DEF Safe, Kept, Busy, Done
<1>12. ASSUME NEW n \in Msgs, HandleSends(n) PROVE AllSafe'
  <2>1. n \in Mailable => mails[n] > 0
    BY <1>12 DEF HandleSends, AllSafe, Safe, Done
  <2> QED BY <1>12, <2>1, AckKeeps DEF HandleSends
<1>13. ASSUME NEW n \in Msgs, HandleFails(n) PROVE AllSafe'
  <2>1. CASE work[n].attempt + 1 < MaxRetries
    <3> SUFFICES ASSUME NEW m \in Msgs PROVE Safe(m)'
      BY DEF AllSafe
    <3>1. /\ Safe(m) /\ work'[m].conn = work[m].conn
          /\ work'[m].sent = 1 => work[m].sent = 1
          /\ UNCHANGED <<task, queue, conns, mails, gaveUp, acked>>
      BY <1>13, <2>1 DEF HandleFails, AllSafe, TypeOK, broker
    <3> QED BY <3>1 DEF Safe, Kept, Busy, Done
  <2>2. CASE ~(work[n].attempt + 1 < MaxRetries)
    BY <1>13, <2>2, AckKeeps DEF HandleFails
  <2> QED BY <2>1, <2>2
<1>14. CASE UNCHANGED vars
  BY <1>14, SameSafe DEF vars, broker
<1> QED BY <1>1, <1>2, <1>3, <1>4, <1>5, <1>6, <1>7, <1>8, <1>9, <1>10, <1>11,
           <1>12, <1>13, <1>14 DEF Next

\* A notification that the broker took stays where a later step finds it until it
\* is acknowledged: in the durable queue, or in the hands of a handler whose
\* connection holds.  A broken connection requeues it before the process hears
\* of it, and so does a death between the mail and the acknowledgement.  What is
\* acknowledged although it could be mailed was mailed or tried in vain.
THEOREM NeverDropped == Spec => []NothingDropped
<1>1. TypeOK /\ AllSafe /\ [Next]_vars => AllSafe'
  BY SafeStep
<1>2. AllSafe => NothingDropped
  BY DEF AllSafe, Safe, Kept, Done, NothingDropped
<1> QED BY SafeInit, <1>1, <1>2, Typed, PTL DEF Spec

-----------------------------------------------------------------------------
(* How often a notification is mailed *)

\* What the caller itself may have mailed, and what may have been mailed before
\* the present consumer was registered.
Own(m)  == IF task[m] \in {"sent", "failed"} THEN 1 ELSE 0
Earlier == MaxRetries * (registered - 1)

\* Each attempt of a handler mails at most once, and a message that is
\* acknowledged on a connection that holds is not delivered again.
Counted(m) ==
  /\ task[m] = "new" => m \notin queue /\ work[m].conn = 0 /\ mails[m] = 0
  /\ mails[m] <= MaxRetries * registered + Own(m)
  /\ work[m].conn # 0 =>
       /\ work[m].conn = consumer
       /\ mails[m] <= Earlier + work[m].attempt + work[m].sent + Own(m)
  /\ work[m].conn = 0 => work[m].attempt = 0 /\ work[m].sent = 0
  /\ work[m].conn \in conns => m \notin queue
  /\ m \in queue /\ consumer \in conns => mails[m] <= Earlier + Own(m)

Unregistered ==
  /\ boot # "done" => consumer = 0 /\ \A m \in Msgs : work[m].conn = 0
  /\ consumer # 0 => registered > 0

AllCounted == Unregistered /\ \A m \in Msgs : Counted(m)

LEMMA Products ==
  ASSUME TypeOK
  PROVE  /\ MaxRetries * registered \in Nat
         /\ Earlier \in Int
         /\ MaxRetries * registered = Earlier + MaxRetries
         /\ registered > 0 => Earlier \in Nat
         /\ MaxRetries * (registered + 1) = MaxRetries * registered + MaxRetries
BY NotificationsAssumption DEF TypeOK, Earlier

LEMMA CountedInit == Init => AllCounted
BY NotificationsAssumption
DEF Init, None, AllCounted, Unregistered, Counted, Own, Earlier

\* A message that is handed back, or of which nobody knows any more.
LEMMA DieCounts ==
  ASSUME TypeOK, AllCounted, Die, UNCHANGED <<mails, registered>>
  PROVE  AllCounted'
<1>1. Unregistered'
  BY DEF Die, None, Unregistered
<1>2. ASSUME NEW m \in Msgs PROVE Counted(m)'
  <2>1. Counted(m)
    BY DEF AllCounted
  <2>2. mails[m] \in Nat /\ MaxRetries * registered \in Nat
    BY Products, NotificationsAssumption DEF TypeOK
  <2>3. task'[m] \in {task[m], "failed"} /\ (task[m] = "failed" =>
          task'[m] = "failed") /\ (task[m] = "sent" => task'[m] = "sent")
    BY DEF Die
  <2>4. work'[m] = None /\ consumer' = 0 /\ conns' = {}
    BY DEF Die
  <2>5. task[m] = "new" => m \notin queue'
    BY <2>1 DEF Die, Counted, Busy, TypeOK
  <2>6. mails[m] <= MaxRetries * registered + Own(m)'
    BY <2>1, <2>2, <2>3 DEF Counted, Own
  <2> QED BY <2>1, <2>3, <2>4, <2>5, <2>6 DEF None, Counted, Own
<1> QED BY <1>1, <1>2 DEF AllCounted

LEMMA AckCounts ==
  ASSUME TypeOK, AllCounted, NEW n \in Msgs, work[n].conn # 0, Ack(n),
         UNCHANGED <<mails, registered>>
  PROVE  AllCounted'
<1>1. CASE Alive(work[n].conn)
  <2>1. /\ UNCHANGED <<boot, consumer, conns, task, queue>>
        /\ work'[n] = None
        /\ \A m \in Msgs : m # n => work'[m] = work[m]
    BY <1>1 DEF TypeOK, Ack, link, broker
  <2>2. Unregistered'
    BY <2>1 DEF None, AllCounted, Unregistered
  <2>3. ASSUME NEW m \in Msgs PROVE Counted(m)'
    <3>1. Counted(m)
      BY DEF AllCounted
    <3>2. CASE m = n
      <4>1. work'[m].conn = 0 /\ work'[m].attempt = 0 /\ work'[m].sent = 0
        BY <2>1, <3>2 DEF None
      <4>2. 0 \notin conns /\ task[m] # "new"
        BY <3>1, <3>2 DEF TypeOK, Counted
      <4> QED BY <2>1, <3>1, <4>1, <4>2 DEF Counted, Own, Earlier
    <3>3. CASE m # n
      BY <2>1, <3>1, <3>3 DEF Counted, Own, Earlier
    <3> QED BY <3>2, <3>3
  <2> QED BY <2>2, <2>3 DEF AllCounted
<1>2. CASE ~Alive(work[n].conn)
  BY <1>2, DieCounts DEF Ack
<1> QED BY <1>1, <1>2

\* A step that leaves the messages and the consumer as they are.
LEMMA SameCounted ==
  ASSUME AllCounted,
         UNCHANGED <<consumer, registered, conns, task, work, queue, mails>>,
         boot' = boot \/ boot # "done"
  PROVE  AllCounted'
<1>1. \A m \in Msgs : Counted(m)'
  BY DEF AllCounted, Counted, Own, Earlier
<1> QED BY <1>1 DEF AllCounted, Unregistered

LEMMA CountedStep ==
  ASSUME TypeOK, TypeOK', AllCounted, [Next]_vars
  PROVE  AllCounted'
<1> USE NotificationsAssumption DEF record, fields
<1>1. CASE ConnectFails \/ DelayOver
  BY <1>1, SameCounted DEF ConnectFails, DelayOver, Catch, broker
<1>2. CASE Open
  <2>1. \A c \in 0 .. opened : c \in conns' <=> c \in conns
    BY <1>2 DEF TypeOK, Open
  <2>2. UNCHANGED <<boot, consumer, registered, task, work, queue, mails>>
    BY <1>2 DEF Open
  <2>3. \A m \in Msgs : work[m].conn \in 0 .. opened
    BY DEF TypeOK
  <2>4. consumer \in 0 .. opened
    BY DEF TypeOK
  <2>5. \A m \in Msgs : Counted(m)'
    BY <2>1, <2>2, <2>3, <2>4 DEF AllCounted, Counted, Own, Earlier
  <2> QED BY <2>2, <2>5 DEF AllCounted, Unregistered
<1>3. CASE Consume
  <2>1. CASE Die /\ UNCHANGED record
    BY <2>1, DieCounts
  <2>2. CASE ~(Die /\ UNCHANGED record)
    <3>1. /\ boot # "done" /\ boot' = "done"
          /\ UNCHANGED <<conns, task, work, queue, mails>>
          /\ consumer' = channel
          /\ registered' = IF channel = 0 THEN registered ELSE registered + 1
      BY <1>3, <2>2 DEF Consume, broker
    <3>2. \A m \in Msgs : work[m].conn = 0
      BY <3>1 DEF AllCounted, Unregistered
    <3>3. channel # 0 => Earlier' = MaxRetries * registered
      BY <3>1 DEF TypeOK, Earlier
    <3>4. MaxRetries * registered <= MaxRetries * registered'
      BY <3>1, Products DEF TypeOK
    <3>5. 0 \notin conns
      BY DEF TypeOK
    <3>6. ASSUME NEW m \in Msgs PROVE Counted(m)'
      <4>1. Counted(m) /\ mails[m] \in Nat /\ Own(m)' = Own(m)
            /\ MaxRetries * registered' \in Int
        BY <3>1, Products DEF AllCounted, TypeOK, Own
      <4>2. mails[m] <= MaxRetries * registered' + Own(m)
        BY <3>4, <4>1, Products DEF Counted, Own
      <4>3. m \in queue /\ channel \in conns => mails[m] <= Earlier' + Own(m)
        BY <3>3, <3>5, <4>1 DEF Counted
      <4> QED BY <3>1, <3>2, <3>5, <4>1, <4>2, <4>3 DEF Counted
    <3>7. Unregistered'
      BY <3>1 DEF AllCounted, Unregistered, TypeOK
    <3> QED BY <3>6, <3>7 DEF AllCounted
  <2> QED BY <2>1, <2>2
<1>4. CASE Killed
  BY <1>4, DieCounts DEF Killed
<1>5. ASSUME NEW c \in Conns, Setup(c) PROVE AllCounted'
  BY <1>5, SameCounted DEF Setup, ChannelOpen, QueueReady, SetupFails, Catch, broker
<1>6. ASSUME NEW c \in Conns, Break(c) PROVE AllCounted'
  <2>1. UNCHANGED <<boot, consumer, registered, task, work, mails>>
    BY <1>6 DEF Break, link
  <2>2. conns' = conns \ {c} /\ queue' = queue \cup Busy({c}) /\ c # 0
    BY <1>6 DEF Break, TypeOK
  <2>3. ASSUME NEW m \in Msgs PROVE Counted(m)'
    <3>1. Counted(m)
      BY DEF AllCounted
    <3>2. m \in queue' => m \in queue \/ work[m].conn = c
      BY <2>2 DEF Busy
    <3>3. work[m].conn = c => consumer \notin conns'
      BY <2>2, <3>1 DEF Counted
    <3> QED BY <2>1, <2>2, <3>1, <3>2, <3>3 DEF Counted, Own, Earlier
  <2> QED BY <2>1, <2>3 DEF AllCounted, Unregistered
<1>7. ASSUME NEW c \in Conns, Lost(c) PROVE AllCounted'
  <2>1. \/ Die /\ UNCHANGED record
        \/ UNCHANGED <<boot, consumer, conns, task, work, queue, record>>
    BY <1>7, Zenon DEF Lost
  <2> QED BY <2>1, DieCounts, SameCounted
<1>8. ASSUME NEW n \in Msgs, Dispatch(n) PROVE AllCounted'
  <2>1. UNCHANGED <<boot, consumer, registered, conns, work, mails>>
    BY <1>8 DEF Dispatch, link, broker
  <2>2. ASSUME NEW m \in Msgs, m # n PROVE Counted(m)'
    <3>1. Counted(m) /\ task'[m] = task[m] /\ (m \in queue' <=> m \in queue)
      BY <1>8, <2>2 DEF TypeOK, Dispatch, AllCounted
    <3> QED BY <2>1, <3>1 DEF Counted, Own, Earlier
  <2>3. Counted(n)'
    <3>1. Counted(n) /\ mails[n] = 0 /\ work[n].conn = 0
      BY <1>8 DEF AllCounted, Counted, Dispatch
    <3>2. consumer \in conns => Earlier \in Nat
      BY Products DEF AllCounted, Unregistered, TypeOK
    <3>3. Own(n)' \in {0, 1} /\ task'[n] # "new"
      BY <1>8 DEF TypeOK, Dispatch, Own
    <3>4. 0 \notin conns
      BY DEF TypeOK
    <3> QED BY <2>1, <3>1, <3>2, <3>3, <3>4, Products DEF Counted, Earlier
  <2> QED BY <2>1, <2>2, <2>3 DEF AllCounted, Unregistered
<1>9. ASSUME NEW n \in Msgs, SyncSend(n) PROVE AllCounted'
  <2>1. UNCHANGED <<boot, consumer, registered, conns, work, queue>>
    BY <1>9 DEF SyncSend, link, broker
  <2>2. ASSUME NEW m \in Msgs, m # n PROVE Counted(m)'
    <3>1. Counted(m) /\ task'[m] = task[m] /\ mails'[m] = mails[m]
      BY <1>9, <2>2, MailCounts DEF TypeOK, SyncSend, AllCounted
    <3> QED BY <2>1, <3>1 DEF Counted, Own, Earlier
  <2>3. Counted(n)'
    <3>1. Counted(n) /\ Own(n) = 0 /\ Own(n)' = 1 /\ task[n] # "new"
          /\ task'[n] # "new"
      BY <1>9 DEF TypeOK, SyncSend, AllCounted, Own
    <3>2. mails'[n] <= mails[n] + 1 /\ mails[n] \in Nat /\ mails'[n] \in Nat
      BY <1>9, MailCounts DEF TypeOK, SyncSend
    <3>3. work[n].attempt \in Nat /\ work[n].sent \in Nat
      BY DEF TypeOK
    <3> QED BY <2>1, <3>1, <3>2, <3>3, Products DEF Counted, Earlier
  <2> QED BY <2>1, <2>2, <2>3 DEF AllCounted, Unregistered
<1>10. ASSUME NEW n \in Msgs, Deliver(n) PROVE AllCounted'
  <2>1. UNCHANGED <<boot, consumer, registered, conns, task, mails>>
    BY <1>10 DEF Deliver, link, broker
  <2>2. ASSUME NEW m \in Msgs, m # n PROVE Counted(m)'
    <3>1. Counted(m) /\ work'[m] = work[m] /\ (m \in queue' <=> m \in queue)
      BY <1>10, <2>2 DEF TypeOK, Deliver, AllCounted
    <3> QED BY <2>1, <3>1 DEF Counted, Own, Earlier
  <2>3. Counted(n)'
    <3>1. /\ Counted(n) /\ n \in queue /\ n \notin queue' /\ consumer \in conns
          /\ work'[n].conn = consumer /\ work'[n].attempt = 0
          /\ work'[n].sent = 0
      BY <1>10 DEF TypeOK, Deliver, AllCounted, None
    <3>2. consumer # 0
      BY <3>1 DEF TypeOK
    <3>3. Own(n) \in {0, 1} /\ mails[n] \in Nat
      BY DEF TypeOK, Own
    <3>4. Own(n)' = Own(n) /\ Earlier' = Earlier
      BY <2>1 DEF Own, Earlier
    <3> QED BY <2>1, <3>1, <3>2, <3>3, <3>4, Products DEF Counted
  <2>4. Unregistered'
    BY <1>10, <2>1 DEF TypeOK, Deliver, AllCounted, Unregistered
  <2> QED BY <2>2, <2>3, <2>4 DEF AllCounted
<1>11. ASSUME NEW n \in Msgs, Accepted(n) \/
              (HandleFails(n) /\ work[n].attempt + 1 < MaxRetries)
       PROVE  AllCounted'
  <2>1. UNCHANGED <<boot, consumer, registered, conns, task, queue>>
    BY <1>11 DEF Accepted, HandleFails, link, broker
  <2>2. ASSUME NEW m \in Msgs, m # n PROVE Counted(m)'
    <3>1. Counted(m) /\ work'[m] = work[m] /\ mails'[m] = mails[m]
      BY <1>11, <2>2, MailCounts DEF TypeOK, Accepted, HandleFails, AllCounted
    <3> QED BY <2>1, <3>1 DEF Counted, Own, Earlier
  <2>3. Counted(n)'
    <3>1. Counted(n) /\ work[n].conn # 0 /\ work'[n].conn = work[n].conn
      BY <1>11 DEF TypeOK, Accepted, HandleFails, AllCounted
    <3>2. /\ work[n].attempt \in Nat /\ work[n].sent \in {0, 1}
          /\ mails[n] \in Nat /\ mails'[n] \in Nat
          /\ work'[n].attempt \in 0 .. (MaxRetries - 1) /\ work'[n].sent \in {0, 1}
      BY DEF TypeOK
    <3>3. mails'[n] - (work'[n].attempt + work'[n].sent)
            <= mails[n] - (work[n].attempt + work[n].sent)
      <4>1. CASE Accepted(n)
        <5>1. work'[n].attempt = work[n].attempt /\ work[n].sent = 0
              /\ work'[n].sent = 1
          BY <4>1 DEF TypeOK, Accepted
        <5>2. mails'[n] <= mails[n] + 1
          BY <4>1, MailCounts DEF Accepted
        <5> QED BY <3>2, <5>1, <5>2
      <4>2. CASE HandleFails(n) /\ work[n].attempt + 1 < MaxRetries
        <5>1. work'[n].attempt = work[n].attempt + 1 /\ work'[n].sent = 0
              /\ mails'[n] = mails[n]
          BY <4>2 DEF TypeOK, HandleFails
        <5> QED BY <3>2, <5>1
      <4> QED BY <1>11, <4>1, <4>2
    <3>4. Own(n)' = Own(n) /\ Own(n) \in {0, 1} /\ Earlier' = Earlier
      BY <2>1 DEF Own, Earlier
    <3>5. mails'[n] <= Earlier + work'[n].attempt + work'[n].sent + Own(n)
      BY <3>1, <3>2, <3>3, <3>4, Products DEF Counted
    <3>6. mails'[n] <= MaxRetries * registered + Own(n)
      BY <3>2, <3>4, <3>5, Products
    <3> QED BY <2>1, <3>1, <3>4, <3>5, <3>6 DEF Counted
  <2>4. Unregistered'
    BY <1>11, <2>1 DEF TypeOK, Accepted, HandleFails, AllCounted, Unregistered
  <2> QED BY <2>2, <2>3, <2>4 DEF AllCounted
<1>12. ASSUME NEW n \in Msgs, HandleSends(n) PROVE AllCounted'
  BY <1>12, AckCounts DEF HandleSends
<1>13. ASSUME NEW n \in Msgs, HandleFails(n) PROVE AllCounted'
  BY <1>11, <1>13, AckCounts DEF HandleFails
<1>14. CASE UNCHANGED vars
  BY <1>14, SameCounted DEF vars, link, broker
<1> QED BY <1>1, <1>2, <1>3, <1>4, <1>5, <1>6, <1>7, <1>8, <1>9, <1>10, <1>11,
           <1>12, <1>13, <1>14 DEF Next

\* The consumer mails a message at most MaxRetries times for each time that it was
\* registered, and its caller once.  A send that fails after the provider has
\* accepted the mail is repeated by the handler, a mail that was not acknowledged
\* by the next consumer; no other path repeats one.
THEOREM RepeatsBounded == Spec => []MailsBounded
<1>1. TypeOK /\ TypeOK' /\ AllCounted /\ [Next]_vars => AllCounted'
  BY CountedStep
<1>2. TypeOK /\ AllCounted => MailsBounded
  <2> SUFFICES ASSUME TypeOK, AllCounted, NEW m \in Msgs
               PROVE  mails[m] <= MaxRetries * registered +
                        IF task[m] \in {"sync", "sent", "failed"} THEN 1 ELSE 0
    BY DEF MailsBounded
  <2>1. mails[m] \in Nat /\ mails[m] <= MaxRetries * registered + Own(m)
    BY DEF TypeOK, AllCounted, Counted
  <2> QED BY <2>1, Products DEF Own
<1> QED BY CountedInit, <1>1, <1>2, Typed, PTL DEF Spec

=============================================================================

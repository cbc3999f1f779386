--------------------------- MODULE Notifications ---------------------------
(***************************************************************************)
(* notifications.service.ts, rabbitmq.service.ts, notification.consumer.ts *)
(* and the mail adapter in one process, with the broker and the mail       *)
(* provider around them.  Connections to the broker are numbered in the    *)
(* order in which they open; 0 stands for null.                            *)
(*                                                                         *)
(* connect() awaits the connection, its channel and the assertion of the   *)
(* queue, and several calls overlap: they share the fields model and       *)
(* channel, and the listeners go to whatever model is in the end.          *)
(*                                                                         *)
(* Templates, priorities and delays are left out: the consumer sets no     *)
(* prefetch, so the broker hands it every message at once.                 *)
(***************************************************************************)
EXTENDS Naturals, FiniteSets

CONSTANTS Msgs,
          Mailable,     \* those of the e-mail channel that name a recipient
          MaxConns,     \* bound: connections opened in a behaviour
          MaxMails,     \* bound: mails of one message that are counted
          MaxAttempts,  \* MAX_RECONNECT_ATTEMPTS
          MaxRetries,   \* MAX_RETRIES
          Accepts,      \* what sendToQueue may return
          Events,       \* 'close' alone (1), or 'error' and then 'close' (2)
          Crashes       \* whether the process may be killed

ASSUME NotificationsAssumption ==
  /\ Mailable \subseteq Msgs
  /\ MaxConns \in Nat /\ MaxMails \in Nat \ {0}
  /\ MaxAttempts \in Nat /\ MaxRetries \in Nat \ {0}
  /\ Accepts \subseteq BOOLEAN /\ Events \subseteq {1, 2}
  /\ Crashes \in BOOLEAN

VARIABLES boot,       \* module initialisation: "connect", "consume", "done"
          connecting, \* calls of connect() that await the connection
          setup,      \* what the call that opened a connection awaits next
          timers,     \* calls of handleDisconnect() that await their delay
          attempts,   \* reconnectAttempts
          model,      \* this.model
          channel,    \* the connection of this.channel
          listeners,  \* pairs of listeners attached, per connection
          consumer,   \* the connection on which the consumer is registered
          task,       \* the caller's side of dispatch()
          work,       \* the consumer's handle(), per message
          conns,      \* connections that the broker holds open
          dropped,    \* broken connections of which the process has not heard
          opened,     \* connections opened so far
          queue,      \* messages ready in the durable queue
          mails,      \* mails that the provider accepted
          gaveUp,     \* messages whose retries were used up
          acked,      \* messages that the broker removed on an ack
          registered  \* how often a consumer was registered

fields == <<model, channel>>
link   == <<boot, connecting, setup, timers, attempts, fields, listeners,
            consumer>>
broker == <<conns, dropped, opened>>
record == <<mails, gaveUp, acked, registered>>
vars   == <<link, broker, record, task, work, queue>>

Conns == 1 .. MaxConns
None  == [conn |-> 0, attempt |-> 0, sent |-> 0]

\* The mails, connections and counters stay in their bounds, and a handler runs
\* for a connection that was opened.
TypeOK ==
  /\ boot \in {"connect", "consume", "done"}
  /\ connecting \in Nat /\ timers \in Nat
  /\ setup \in [Conns -> {"none", "channel", "queue"}]
  /\ listeners \in [Conns -> Nat]
  /\ attempts \in 0 .. MaxAttempts
  /\ opened \in 0 .. MaxConns
  /\ model \in 0 .. opened
  /\ channel \in 0 .. opened /\ consumer \in 0 .. opened
  /\ conns \subseteq 1 .. opened /\ dropped \subseteq (1 .. opened) \ conns
  /\ task \in [Msgs -> {"new", "sync", "queued", "lost", "sent", "failed"}]
  /\ work \in [Msgs -> [conn: 0 .. opened, attempt: 0 .. (MaxRetries - 1),
                        sent: {0, 1}]]
  /\ queue \subseteq Msgs
  /\ mails \in [Msgs -> 0 .. MaxMails]
  /\ gaveUp \subseteq Msgs /\ acked \subseteq Msgs
  /\ registered \in Nat

Init ==
  /\ boot = "connect" /\ connecting = 1 /\ timers = 0 /\ attempts = 0
  /\ setup = [c \in Conns |-> "none"] /\ listeners = [c \in Conns |-> 0]
  /\ model = 0 /\ channel = 0 /\ consumer = 0
  /\ conns = {} /\ dropped = {} /\ opened = 0
  /\ task = [m \in Msgs |-> "new"] /\ work = [m \in Msgs |-> None]
  /\ queue = {}
  /\ mails = [m \in Msgs |-> 0] /\ gaveUp = {} /\ acked = {} /\ registered = 0

Busy(C)  == {m \in Msgs : work[m].conn \in C}
Alive(c) == c \in conns \cup dropped \* as far as the process knows

\* The process exits and is started again; the broker requeues what was not
\* acknowledged.
Die ==
  /\ boot' = "connect" /\ connecting' = 1 /\ timers' = 0 /\ attempts' = 0
  /\ setup' = [c \in Conns |-> "none"] /\ listeners' = [c \in Conns |-> 0]
  /\ model' = 0 /\ channel' = 0 /\ consumer' = 0
  /\ conns' = {} /\ dropped' = {} /\ UNCHANGED opened
  /\ queue' = queue \cup Busy(conns)
  /\ work' = [m \in Msgs |-> None]
  /\ task' = [m \in Msgs |-> IF task[m] = "sync" THEN "failed" ELSE task[m]]

Killed == Crashes /\ Die /\ UNCHANGED record

-----------------------------------------------------------------------------
(* Connecting *)

\* Mutant: the calls that overlap are not counted against the limit.
DisconnectUncapped(a, k) ==
  /\ model' = 0 /\ channel' = 0
  /\ attempts' = a + k /\ timers' = timers + k

\* k calls of handleDisconnect(), the first with reconnectAttempts = a: each
\* drops whatever another connect() has set in the meantime.
HandleDisconnect(a, k) ==
  /\ model' = 0 /\ channel' = 0
  /\ LET more == IF a + k <= MaxAttempts THEN k ELSE MaxAttempts - a
     IN  attempts' = a + more /\ timers' = timers + more

\* Mutant: a call that fails is not retried.
CatchOnce(a) ==
  /\ model' = 0 /\ channel' = 0
  /\ boot' = IF boot = "connect" THEN "consume" ELSE boot
  /\ attempts' = a /\ UNCHANGED timers

\* The catch block of connect() awaits handleDisconnect(), as the start does.
Catch(a) ==
  /\ HandleDisconnect(a, 1)
  /\ boot' = IF boot = "connect" /\ a = MaxAttempts THEN "consume" ELSE boot

Open ==
  /\ connecting > 0 /\ opened < MaxConns
  /\ connecting' = connecting - 1
  /\ opened' = opened + 1
  /\ conns' = conns \cup {opened'}
  /\ model' = opened'
  /\ setup' = [setup EXCEPT ![opened'] = "channel"]
  /\ UNCHANGED <<boot, timers, attempts, channel, listeners, consumer, dropped,
                 record, task, work, queue>>

ConnectFails ==
  /\ connecting > 0
  /\ connecting' = connecting - 1
  /\ Catch(attempts)
  /\ UNCHANGED <<setup, listeners, consumer, broker, record, task, work, queue>>

\* The reply may have arrived before the connection broke.
ChannelOpen(c) ==
  /\ setup[c] = "channel" /\ Alive(c)
  /\ setup' = [setup EXCEPT ![c] = "queue"]
  /\ channel' = c
  /\ UNCHANGED <<boot, connecting, timers, attempts, model, listeners, consumer,
                 broker, record, task, work, queue>>

\* The attempts start anew and the listeners are attached, to this connection or
\* to another; on null that throws, into the catch block.
QueueReady(c) ==
  /\ setup[c] = "queue" /\ Alive(c)
  /\ setup' = [setup EXCEPT ![c] = "none"]
  /\ \/ /\ model # 0
        /\ listeners' = [listeners EXCEPT ![model] = @ + 1]
        /\ attempts' = 0
        /\ boot' = IF boot = "connect" THEN "consume" ELSE boot
        /\ UNCHANGED <<fields, timers>>
     \/ model = 0 /\ Catch(0) /\ UNCHANGED listeners
  /\ UNCHANGED <<connecting, consumer, broker, record, task, work, queue>>

SetupFails(c) ==
  /\ setup[c] # "none" /\ ~Alive(c)
  /\ setup' = [setup EXCEPT ![c] = "none"]
  /\ Catch(attempts)
  /\ UNCHANGED <<connecting, listeners, consumer, broker, record, task, work,
                 queue>>

\* Mutant: after the delay nobody connects.
DelayForgets ==
  /\ timers > 0
  /\ timers' = timers - 1
  /\ UNCHANGED <<boot, connecting, setup, attempts, fields, listeners, consumer,
                 broker, record, task, work, queue>>

DelayOver ==
  /\ timers > 0
  /\ timers' = timers - 1
  /\ connecting' = connecting + 1
  /\ UNCHANGED <<boot, setup, attempts, fields, listeners, consumer, broker,
                 record, task, work, queue>>

\* NotificationConsumer.onModuleInit, once per process.  Without a channel
\* consume() returns at once; on a broken one it throws and the start fails.
Consume ==
  /\ boot = "consume"
  /\ \/ /\ channel \in conns \cup {0}
        /\ consumer' = channel
        /\ registered' = IF channel = 0 THEN registered ELSE registered + 1
        /\ boot' = "done"
        /\ UNCHANGED <<connecting, setup, timers, attempts, fields, listeners,
                       broker, mails, gaveUp, acked, task, work, queue>>
     \/ channel \notin conns \cup {0} /\ Die /\ UNCHANGED record

\* The broker requeues what was not acknowledged; the process knows nothing yet.
Break(c) ==
  /\ c \in conns
  /\ conns' = conns \ {c}
  /\ dropped' = dropped \cup {c}
  /\ queue' = queue \cup Busy({c})
  /\ UNCHANGED <<link, opened, record, task, work>>

\* The events of a connection: each calls handleDisconnect() once for every
\* listener.  An 'error' to which nobody listens ends the process.
Lost(c) ==
  /\ c \in dropped
  /\ \/ 2 \in Events /\ listeners[c] = 0 /\ Die
     \/ /\ dropped' = dropped \ {c}
        /\ \/ /\ 1 \in Events /\ listeners[c] = 0
              /\ UNCHANGED <<fields, attempts, timers>>
           \/ /\ listeners[c] # 0
              /\ \E k \in Events : HandleDisconnect(attempts, k * listeners[c])
        /\ UNCHANGED <<boot, connecting, setup, listeners, consumer, conns,
                       opened, task, work, queue>>
  /\ UNCHANGED record

-----------------------------------------------------------------------------
(* Sending *)

\* Mailing is over when the provider has accepted; the counter saturates.
Mail(m) == mails' = [mails EXCEPT ![m] = IF @ < MaxMails THEN @ + 1 ELSE @]

\* dispatch(): a message that sendToQueue takes but reports as refused, because
\* the write buffer is full, is also sent here.  What is written to a broken
\* connection is lost, and on one known to be closed sendToQueue throws.
Dispatch(m) ==
  /\ boot = "done" /\ task[m] = "new"
  /\ \/ /\ channel = 0
        /\ task' = [task EXCEPT ![m] = "sync"]
        /\ UNCHANGED queue
     \/ /\ Alive(channel)
        /\ \E accepted \in Accepts :
             task' = [task EXCEPT ![m] =
                        IF ~accepted THEN "sync"
                        ELSE IF channel \in conns THEN "queued" ELSE "lost"]
        /\ queue' = IF channel \in conns THEN queue \cup {m} ELSE queue
     \/ /\ channel # 0 /\ ~Alive(channel)
        /\ task' = [task EXCEPT ![m] = "failed"]
        /\ UNCHANGED queue
  /\ UNCHANGED <<link, broker, record, work>>

\* The adapter skips what is not mailable and reports success.  A mail that the
\* provider accepted may still be reported as failed.
SyncSend(m) ==
  /\ task[m] = "sync"
  /\ \/ /\ m \in Mailable /\ Mail(m)
        /\ \E r \in {"sent", "failed"} : task' = [task EXCEPT ![m] = r]
     \/ /\ task' = [task EXCEPT ![m] = IF m \in Mailable THEN "failed"
                                                        ELSE "sent"]
        /\ UNCHANGED mails
  /\ UNCHANGED <<link, broker, gaveUp, acked, registered, work, queue>>

-----------------------------------------------------------------------------
(* Consuming *)

Deliver(m) ==
  /\ m \in queue /\ consumer \in conns /\ work[m] = None
  /\ queue' = queue \ {m}
  /\ work' = [work EXCEPT ![m].conn = consumer]
  /\ UNCHANGED <<link, broker, record, task>>

\* The handler has returned and the message is acknowledged.  On a connection
\* known to be closed ack() throws, and so does the nack() of the catch block:
\* the rejection is unhandled and ends the process.
Ack(m) ==
  IF Alive(work[m].conn)
    THEN /\ work' = [work EXCEPT ![m] = None]
         /\ acked' = IF work[m].conn \in conns THEN acked \cup {m} ELSE acked
         /\ UNCHANGED <<link, broker, task, queue>>
    ELSE Die /\ UNCHANGED acked

\* The provider accepts the mail; its answer is still to come.
Accepted(m) ==
  /\ work[m].conn # 0 /\ m \in Mailable /\ work[m].sent = 0
  /\ Mail(m)
  /\ work' = [work EXCEPT ![m].sent = 1]
  /\ UNCHANGED <<link, broker, task, queue, gaveUp, acked, registered>>

\* send() resolves, at once for what the adapter skips.
HandleSends(m) ==
  /\ work[m].conn # 0 /\ (m \in Mailable => work[m].sent = 1)
  /\ Ack(m)
  /\ UNCHANGED <<mails, gaveUp, registered>>

\* Mutant: the retries do not end.
RetryForever(m) ==
  /\ work[m].conn # 0 /\ m \in Mailable
  /\ work' = [work EXCEPT
                ![m].attempt = IF @ + 1 < MaxRetries THEN @ + 1 ELSE 0,
                ![m].sent = 0]
  /\ UNCHANGED <<link, broker, task, queue, record>>

\* Mutant: the handler catches the error and returns.
SwallowError(m) ==
  /\ work[m].conn # 0 /\ m \in Mailable
  /\ Ack(m)
  /\ UNCHANGED <<mails, gaveUp, registered>>

\* Mutant: the message is tried once more than it should be.
RetryOnceMore(m) ==
  /\ work[m].conn # 0 /\ m \in Mailable
  /\ IF work[m].attempt < MaxRetries
       THEN /\ work' = [work EXCEPT ![m].attempt = @ + 1, ![m].sent = 0]
            /\ UNCHANGED <<link, broker, task, queue, gaveUp, acked>>
       ELSE /\ gaveUp' = gaveUp \cup {m}
            /\ Ack(m)
  /\ UNCHANGED <<mails, registered>>

\* send() rejects, whether or not the provider had accepted the mail.
HandleFails(m) ==
  /\ work[m].conn # 0 /\ m \in Mailable
  /\ IF work[m].attempt + 1 < MaxRetries
       THEN /\ work' = [work EXCEPT ![m].attempt = @ + 1, ![m].sent = 0]
            /\ UNCHANGED <<link, broker, task, queue, gaveUp, acked>>
       ELSE /\ gaveUp' = gaveUp \cup {m}
            /\ Ack(m)
  /\ UNCHANGED <<mails, registered>>

-----------------------------------------------------------------------------
Setup(c) == ChannelOpen(c) \/ QueueReady(c) \/ SetupFails(c)

Next ==
  \/ Open \/ ConnectFails \/ DelayOver \/ Consume \/ Killed
  \/ \E c \in Conns : Setup(c) \/ Break(c) \/ Lost(c)
  \/ \E m \in Msgs : \/ Dispatch(m) \/ SyncSend(m) \/ Deliver(m)
                     \/ Accepted(m) \/ HandleSends(m) \/ HandleFails(m)

Spec == Init /\ [][Next]_vars

\* Timers fire, the broker and the mail provider answer one way or the other,
\* and the broker delivers what is ready.  The provider may fail every time.
FairSpec ==
  /\ Spec
  /\ WF_vars(Open \/ ConnectFails) /\ WF_vars(DelayOver)
  /\ \A c \in Conns : WF_vars(Setup(c))
  /\ \A m \in Msgs : /\ WF_vars(SyncSend(m)) /\ WF_vars(Deliver(m))
                     /\ WF_vars(HandleSends(m) \/ HandleFails(m))

-----------------------------------------------------------------------------
(* Properties *)

Unset == \A c \in Conns : setup[c] = "none"

\* A process that has no channel, or one that it knows to be closed, is about to
\* reconnect or has used up its attempts, however many calls of connect()
\* overlap and connections break.  The exception is a channel whose connection
\* is not the model: another call has overwritten the model in between, and
\* nobody listens to the connection of the channel.
KeepsReconnecting ==
  (channel = 0 \/ (channel = model /\ ~Alive(channel)))
    => connecting + timers > 0 \/ ~Unset \/ attempts = MaxAttempts

\* A notification that the broker took stays in its queue or in the consumer's
\* hands until it is acknowledged, and one that could be mailed is acknowledged
\* only if it was, or was tried as often as the consumer tries.
NothingDropped ==
  \A m \in Msgs :
    /\ task[m] = "queued" => m \in queue \cup Busy(conns) \cup acked
    /\ m \in acked \cap Mailable => mails[m] > 0 \/ m \in gaveUp

\* The consumer mails a notification at most MaxRetries times for each time that
\* it was registered, whatever answers of the provider and acknowledgements are
\* lost, and the caller at most once, when there is no channel or sendToQueue
\* queued the notification but reported a full buffer.
MailsBounded ==
  \A m \in Msgs :
    mails[m] <= MaxRetries * registered
                  + IF task[m] \in {"sync", "sent", "failed"} THEN 1 ELSE 0

\* Every dispatched notification is acknowledged, or its caller gets an answer,
\* or it was written to a broken connection: provided that the consumer ends up
\* on a connection that holds.  After a break that takes a restart of the
\* process: the consumer is registered at start only.
Settles ==
  \A m \in Msgs :
    <>[](consumer \in conns) =>
      (task[m] # "new" ~> m \in acked \/ task[m] \in {"sent", "failed", "lost"})

\* A process that keeps running and has no channel gets one or uses up its
\* attempts.
Reconnects ==
  <>[](boot = "done") => (channel = 0 ~> channel # 0 \/ attempts = MaxAttempts)

\* notification.consumer.ts:48 says of a message whose retries are used up that
\* it "will be nack'd by RabbitMQService.consume".
GivenUpIsNacked == gaveUp \cap acked = {}

\* README.md:75 says of `POST /notifications/send` "Send notification
\* (email/Telegram)"; what it sends is not mailable, for it names no recipient.
SentIsMailed ==
  \A m \in Msgs : (task[m] = "sent" \/ m \in acked \ gaveUp) => mails[m] > 0
=============================================================================

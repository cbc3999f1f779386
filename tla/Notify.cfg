SPECIFICATION FairSpec
CONSTANTS
  Msgs = {m1}
  Mailable = {m1}
  MaxConns = 3
  MaxMails = 8
  MaxAttempts = 2
  MaxRetries = 2
  Accepts = {TRUE, FALSE}
  Events = {1, 2}
  Crashes = TRUE
CHECK_DEADLOCK FALSE
INVARIANTS
  TypeOK
  KeepsReconnecting
  NothingDropped
  MailsBounded
PROPERTIES
  Settles
  Reconnects

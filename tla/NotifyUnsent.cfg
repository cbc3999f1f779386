SPECIFICATION Spec
CONSTANTS
  Msgs = {m1}
  Mailable = {}
  MaxConns = 1
  MaxMails = 1
  MaxAttempts = 1
  MaxRetries = 3
  Accepts = {TRUE, FALSE}
  Events = {1, 2}
  Crashes = FALSE
CHECK_DEADLOCK FALSE
INVARIANTS
  SentIsMailed

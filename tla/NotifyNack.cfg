SPECIFICATION Spec
CONSTANTS
  Msgs = {m1}
  Mailable = {m1}
  MaxConns = 1
  MaxMails = 3
  MaxAttempts = 1
  MaxRetries = 3
  Accepts = {TRUE}
  Events = {1, 2}
  Crashes = FALSE
CHECK_DEADLOCK FALSE
INVARIANTS
  GivenUpIsNacked

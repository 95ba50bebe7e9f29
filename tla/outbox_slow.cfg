\* Sends may outlast their timeout and the stale window, so that workers
\* collide; two crashes or failed transactions, one signal.
SPECIFICATION FairSpec
CONSTANTS
  Emails = {e1}
  Workers = {w1, w2}
  BatchSize = 2
  MaxAttempts = 3
  RetryBase = 1
  MaxBackoff = 2
  StaleAfter = 2
  SendTimeout = 1
  Punctual = FALSE
  MaxFaults = 2
  MaxStops = 1
  Horizon = 1
INVARIANTS
  RetryBudget
  SentWasAccepted
PROPERTY
  EventuallySettled

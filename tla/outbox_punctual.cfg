\* Sends respect their timeout and a batch fits into the stale window:
\* BatchSize * SendTimeout = 2 < StaleAfter = 3.
SPECIFICATION Spec
CONSTANTS
  Emails = {e1, e2}
  Workers = {w1, w2}
  BatchSize = 2
  MaxAttempts = 2
  RetryBase = 1
  MaxBackoff = 2
  StaleAfter = 3
  SendTimeout = 1
  Punctual = TRUE
  MaxFaults = 2
  MaxStops = 1
  Horizon = 1
INVARIANTS
  ProcessingIsHeld
  WorkersNeverCollide
  BoundedTries
  DuplicatesExplained
PROPERTY
  ImplementsDelivery

\* Two requests at once, password changes included.
SPECIFICATION MCSpec
CONSTANTS
  Users = {u1}
  Tokens = {t1, t2, t3}
  Requests = {r1, r2}
  None = None
  MaxPasswords = 1
SYMMETRY Symmetric
INVARIANTS
  TypeOK
  AtMostOneLive
  LockedOutButByRaceOrSso
  OldPasswordOnlyByRace
  NoDeadlock
CHECK_DEADLOCK FALSE

\* Leave and events, two requests at once; the clock runs into the second day.
SPECIFICATION Spec
CONSTANTS
  s1 = s1
  a1 = a1
  m1 = m1
  e1 = e1
  g1 = g1
  g2 = g2
  v1 = v1
  r1 = r1
  r2 = r2
  Supers = {s1}
  Admins = {a1}
  Managers = {m1}
  Employees = {e1}
  LeaveLogs = {g1, g2}
  Events = {v1}
  first = first
  second = second
  Days = {1, 2}
  Times = {1, 2}
  FirstMoment = 1
  MaxMoment = 2
  Requests = {r1, r2}
  None = None
  Scopes <- Interleaved
SYMMETRY Symmetric
INVARIANTS TypeOK DoubleLeaveOnlyByRace
PROPERTIES LeaveDisagreesOnlyByRace PastLeaveStays
CHECK_DEADLOCK FALSE

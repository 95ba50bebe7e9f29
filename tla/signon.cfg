\* Sign-on through a provider, and the window of failed logins.
SPECIFICATION SignOnSpec
CONSTANTS
  a1 = a1
  u1 = u1
  o1 = o1
  o2 = o2
  c1 = c1
  c2 = c2
  t1 = t1
  t2 = t2
  s1 = s1
  s2 = s2
  n1 = n1
  r1 = r1
  r2 = r2
  Root = root
  Admin = a1
  Users = {root, a1, u1}
  Orgs = {o1, o2}
  Designations = {}
  Names = {}
  lower <- AsIs
  Roles = {}
  Connections = {c1, c2}
  Tenants = {t1, t2}
  Subjects = {s1, s2}
  Sessions = {n1}
  Requests = {r1, r2}
  None = None
  Scopes <- Some
  Logins = {1, 2, 3}
  max_attempts = 2
  window_seconds = 3
INVARIANT HitsBounded
PROPERTIES LetInAgain SettledLostOnlyByRace
CHECK_DEADLOCK FALSE

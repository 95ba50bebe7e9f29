\* The organization's work: two requests interleave, or one comes after another.
SPECIFICATION WorkSpec
CONSTANTS
  a1 = a1
  m1 = m1
  e1 = e1
  p1 = p1
  p2 = p2
  f1 = f1
  f2 = f2
  t1 = t1
  c1 = c1
  tl1 = tl1
  l1 = l1
  l2 = l2
  l3 = l3
  x1 = x1
  x2 = x2
  k1 = k1
  r1 = r1
  r2 = r2
  Admins = {a1}
  Managers = {m1}
  Employees = {e1}
  Projects = {p1, p2}
  Features = {f1, f2}
  Tasks = {t1}
  Activities = {c1}
  TimeLogs = {tl1}
  Links = {l1, l2, l3}
  Minutes = {1, 1440}
  Dates = {1, 2}
  Attachments = {x1, x2}
  Keys = {k1}
  Sizes = {1, 2, 3}
  ATTACHMENT_MAX_SIZE_BYTES = 2
  Requests = {r1, r2}
  None = None
  Scopes <- All
SYMMETRY Symmetric
INVARIANTS TypeOK AddedTwiceOnlyByRace NothingOrphaned DatesCrossOnlyByRace
  FilesKept
PROPERTY MovesWithinMyProjects
CHECK_DEADLOCK FALSE

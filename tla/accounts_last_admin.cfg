\* Two requests, each of which takes an admin away.
SPECIFICATION Spec
CONSTANTS
  Root = root
  u1 = u1
  u2 = u2
  o1 = o1
  o2 = o2
  d1 = d1
  r1 = r1
  r2 = r2
  Users = {root, u1, u2}
  Orgs = {o1}
  Designations = {d1}
  Names = {"Dev"}
  lower <- LowerCase
  Requests = {r1, r2}
  Roles = {"admin", "manager"}
  None = None
  Scopes <- TwoAdmins
SYMMETRY Symmetric
PROPERTY LastAdminStays
CHECK_DEADLOCK FALSE

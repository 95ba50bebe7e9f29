\* Two requests interleave in one tenant; one request at a time in two tenants.
SPECIFICATION Spec
CONSTANTS
  Root = root
  u1 = u1
  u2 = u2
  o1 = o1
  o2 = o2
  d1 = d1
  r1 = r1
  r2 = r2
  Users = {root, u1, u2}
  Orgs = {o1, o2}
  Designations = {d1}
  Names = {"Dev", "dev"}
  lower <- LowerCase
  Requests = {r1, r2}
  Roles = {"super_admin", "admin", "employee"}
  None = None
  Scopes <- TwoInATenantOrOneInTwo
SYMMETRY Symmetric
INVARIANTS TypeOK NoDanglingDesignation
PROPERTIES NoEscalation DeletedForGood LastAdminLostOnlyByRace TenantIsolation
CHECK_DEADLOCK FALSE

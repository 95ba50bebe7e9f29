-------------------------------- MODULE Accounts --------------------------------
(***************************************************************************)
(* Tenants, their users and their designations: user_service.py,           *)
(* designation_service.py, organization_service.py and the transactions of *)
(* their routes, as transactions of Orm.                                   *)
(***************************************************************************)
EXTENDS Orm

CONSTANTS Users,          \* users rows, each named by its email
          Orgs,           \* organizations rows, each named by its domain
          Designations,   \* designations rows
          Names,          \* names a designation can be given
          lower(_),       \* a name in lower case
          Roles,          \* roles a payload can ask for
          Root            \* the super admin the database is seeded with

UserRole == {"super_admin", "admin", "manager", "employee"}

ASSUME AccountsAssumption ==
  /\ Roles \subseteq UserRole
  /\ IsFiniteSet(Users) /\ Root \in Users
  /\ Users \intersect Orgs = {} /\ Users \intersect Designations = {}
  /\ Orgs \intersect Designations = {}
  /\ None \notin Users \union Orgs \union Designations

Rows == Users \union Orgs \union Designations

NewUser(o, role, d) == [exists |-> TRUE, deleted |-> FALSE, org |-> o, role |-> role,
                        status |-> "active", designation |-> d]

NewOrg == [exists |-> TRUE, deleted |-> FALSE, status |-> "active"]

NewDesignation(o, name) == [exists |-> TRUE, deleted |-> FALSE, org |-> o, name |-> name]

Init == /\ db = [x \in Rows |-> IF x = Root THEN NewUser(None, "super_admin", None)
                                ELSE Absent]
        /\ Idle

-------------------------------------------------------------------------------
(* Reads and checks                                                        *)

is_account_usable(u) ==
  /\ Present(u) /\ db[u].status = "active"
  /\ db[u].org # None => Present(db[u].org) /\ db[db[u].org].status # "suspended"

IsSuper(r) == Me(r).role = "super_admin"

assert_same_organization(r, o) == IsSuper(r) \/ o = Me(r).org

\* A request of an authenticated caller that has decided nothing yet; the
\* routes that change rows are for admins, as is every update modelled here
\* (others may change only their own name and password).
Serving(r) == /\ caller[r] # None
              /\ write[r] = Nothing
              /\ Me(r).role \in {"super_admin", "admin"}

validate_role_assignment_any(r, role) == TRUE

validate_role_assignment(r, role) == IsSuper(r) \/ role # "super_admin"

validate_designation(r, d, o) ==
  Live(Loaded(r, d)) /\ Loaded(r, d).org = o

ActiveAdmin(u, o) == /\ Present(u)
                     /\ db[u].org = o /\ db[u].role = "admin" /\ db[u].status = "active"

count_active_admins(o, u) == Cardinality({v \in Users \ {u} : ActiveAdmin(v, o)})

\* The count forgets to exclude the user itself.
assert_not_last_admin_counting_self(u, row) ==
  row.role = "admin" /\ row.status = "active" /\ row.org # None
    => count_active_admins(row.org, None) > 0

assert_not_last_admin(u, row) ==
  row.role = "admin" /\ row.status = "active" /\ row.org # None
    => count_active_admins(row.org, u) > 0

get_active_by_name(o, name, d) ==
  {e \in Designations \ {d} : /\ Present(e)
                              /\ db[e].org = o
                              /\ lower(db[e].name) = lower(name)}

assert_name_free(o, name, d) == get_active_by_name(o, name, d) = {}

count_assigned_users_active(d) ==
  Cardinality({u \in Users : Present(u) /\ db[u].designation = d /\ db[u].status = "active"})

count_assigned_users(d) == Cardinality({u \in Users : Present(u) /\ db[u].designation = d})

-------------------------------------------------------------------------------
(* api/deps.py                                                             *)

authenticate(r, u) ==
  /\ caller[r] = None
  /\ is_account_usable(u)
  /\ caller' = [caller EXCEPT ![r] = u]
  /\ loaded' = [loaded EXCEPT ![r] = [x \in {u, db[u].org} \ {None} |-> db[x]]]
  /\ UNCHANGED <<db, write>>

-------------------------------------------------------------------------------
(* user_service.py                                                         *)

\* create_user; its designation is given by id, or by the name of one that
\* exists.
create_user(r, u, role, o, d) ==
  /\ Serving(r)
  /\ ~db[u].exists
  /\ validate_role_assignment(r, role)
  /\ assert_same_organization(r, o)
  /\ Live(Loaded(r, o))
  /\ d # None => validate_designation(r, d, o)
  /\ role = "employee" => d # None
  /\ Flush(r, u :> NewUser(o, role, d))

\* create_user with a designation_name that no designation has yet.
create_user_and_designation(r, u, role, o, d, name) ==
  /\ Serving(r)
  /\ ~db[u].exists
  /\ validate_role_assignment(r, role)
  /\ assert_same_organization(r, o)
  /\ Live(Loaded(r, o))
  /\ get_active_by_name(o, name, None) = {}
  /\ NewId(d)
  /\ Flush(r, u :> NewUser(o, role, d) @@ d :> NewDesignation(o, name))

authorize_update(r, u, row, new) ==
  \/ IsSuper(r)
  \/ /\ row.role # "super_admin" /\ row.org = Me(r).org
     /\ validate_role_assignment(r, new.role)
     /\ u = caller[r] => new.role = row.role /\ new.status = row.status

\* update_user; a column the payload leaves out keeps the value that was loaded.
update_user(r, u, role, status, d) ==
  /\ Serving(r)
  /\ Live(Loaded(r, u))
  /\ LET row == Loaded(r, u)
         new == [role |-> role, status |-> status, designation |-> d]
     IN  /\ role \in Used(Roles) \union {row.role}
         /\ Changes(row, new) # Nothing
         /\ authorize_update(r, u, row, new)
         /\ /\ role # row.role \/ status # row.status
            /\ role # "admin" \/ status # "active"
            => assert_not_last_admin(u, row)
         /\ d \notin {None, row.designation} => validate_designation(r, d, row.org)
         /\ role = "employee" => d # None
         /\ Flush(r, u :> Changes(row, new))

delete_user(r, u) ==
  /\ Serving(r)
  /\ u # caller[r]
  /\ Present(u)
  /\ assert_same_organization(r, db[u].org)
  /\ IsSuper(r) \/ db[u].role # "super_admin"
  /\ assert_not_last_admin(u, db[u])
  /\ Flush(r, u :> [deleted |-> TRUE])

-------------------------------------------------------------------------------
(* designation_service.py                                                  *)

create_designation(r, d, name) ==
  /\ Serving(r)
  /\ Me(r).org # None
  /\ assert_name_free(Me(r).org, name, None)
  /\ NewId(d)
  /\ Flush(r, d :> NewDesignation(Me(r).org, name))

\* The organization of the designation is not compared with the caller's.
update_designation_any_org(r, d, name) ==
  /\ Serving(r)
  /\ Present(d)
  /\ assert_name_free(db[d].org, name, d)
  /\ name # db[d].name
  /\ Flush(r, d :> [name |-> name])

update_designation(r, d, name) ==
  /\ Serving(r)
  /\ Present(d)
  /\ assert_same_organization(r, db[d].org)
  /\ assert_name_free(db[d].org, name, d)
  /\ name # db[d].name
  /\ Flush(r, d :> [name |-> name])

delete_designation(r, d) ==
  /\ Serving(r)
  /\ Present(d)
  /\ assert_same_organization(r, db[d].org)
  /\ count_assigned_users(d) = 0
  /\ Flush(r, d :> [deleted |-> TRUE])

-------------------------------------------------------------------------------
(* organization_service.py, for super admins                               *)

\* create_organization; u is its first admin, or None.
create_organization(r, o, u) ==
  /\ Serving(r)
  /\ IsSuper(r)
  /\ ~db[o].exists
  /\ u # None => ~db[u].exists
  /\ Flush(r, [x \in {o, u} \ {None} |->
                 IF x = o THEN NewOrg ELSE NewUser(o, "admin", None)])

update_organization(r, o, status) ==
  /\ Serving(r)
  /\ IsSuper(r)
  /\ Live(Loaded(r, o))
  /\ status # Loaded(r, o).status
  /\ Flush(r, o :> [status |-> status])

delete_organization(r, o) ==
  /\ Serving(r)
  /\ IsSuper(r)
  /\ Live(Loaded(r, o))
  /\ Flush(r, o :> [deleted |-> TRUE])

-------------------------------------------------------------------------------
(* The database                                                            *)

\* Unique emails and domains, and uq_org_designation, which counts deleted rows.
UniqueKeys(r, new) ==
  /\ \A x \in Inserted(r) : ~db[x].exists
  /\ \A d, e \in Designations :
       /\ d # e
       /\ new[d].exists /\ new[e].exists
       => new[d].org # new[e].org \/ new[d].name # new[e].name

\* The database without ck_users_employee_requires_designation.
Constraints_no_check(r, new) == UniqueKeys(r, new)

Constraints(r, new) ==
  /\ UniqueKeys(r, new)
  /\ \A u \in Users :
       new[u].exists /\ new[u].role = "employee" => new[u].designation # None

commit(r) == /\ write[r] # Nothing
             /\ Constraints(r, Written(r))
             /\ db' = Written(r)
             /\ Done(r)

\* An AppException, or an IntegrityError turned into 409: the transaction is
\* rolled back.
rollback(r) == /\ caller[r] # None
               /\ write[r] = Nothing \/ ~Constraints(r, Written(r))
               /\ Done(r)
               /\ UNCHANGED db

MaybeNone(S) == S \union {None}

Next ==
  \E r \in Used(Requests) :
    \/ \E u \in Used(Users) : authenticate(r, u)
    \/ \E u \in Used(Users), role \in Used(Roles), o \in Used(Orgs) :
         \/ \E d \in MaybeNone(Used(Designations)) : create_user(r, u, role, o, d)
         \/ \E d \in Used(Designations), name \in Used(Names) :
              create_user_and_designation(r, u, role, o, d, name)
    \/ \E u \in Used(Users), role \in UserRole, status \in {"active", "suspended"},
          d \in MaybeNone(Used(Designations)) : update_user(r, u, role, status, d)
    \/ \E u \in Used(Users) : delete_user(r, u)
    \/ \E d \in Used(Designations) :
         \/ \E name \in Used(Names) : create_designation(r, d, name) \/ update_designation(r, d, name)
         \/ delete_designation(r, d)
    \/ \E o \in Used(Orgs) :
         \/ \E u \in MaybeNone(Used(Users)) : create_organization(r, o, u)
         \/ \E status \in {"active", "suspended"} : update_organization(r, o, status)
         \/ delete_organization(r, o)
    \/ commit(r)
    \/ rollback(r)

Spec == Init /\ [][Next /\ UNCHANGED scope]_vars

-------------------------------------------------------------------------------
(* Properties                                                              *)

User == [exists : {TRUE}, deleted : BOOLEAN, org : MaybeNone(Orgs), role : UserRole,
         status : {"active", "suspended"}, designation : MaybeNone(Designations)]
Org == [exists : {TRUE}, deleted : BOOLEAN, status : {"active", "suspended"}]
Designation == [exists : {TRUE}, deleted : BOOLEAN, org : Orgs, name : Names]

\* Types; a request that is about to write has a caller; and an employee has a
\* designation: two requests that are fine one by one, one that makes a manager
\* an employee and one that takes the designation away, meet the database's
\* check.
TypeOK ==
  /\ \A u \in Users : db[u] \in User \union {Absent}
  /\ \A u \in Users : Present(u) /\ db[u].role = "employee" => db[u].designation # None
  /\ \A o \in Orgs : db[o] \in Org \union {Absent}
  /\ \A d \in Designations : db[d] \in Designation \union {Absent}
  /\ \A r \in Requests :
       /\ caller[r] \in MaybeNone(Users)
       /\ DOMAIN write[r] # {} => caller[r] # None
       /\ caller[r] # None => caller[r] \in DOMAIN loaded[r]

HasAdmin(o) == \E u \in Users : ActiveAdmin(u, o)

\* "Cannot demote, suspend or delete the last active admin of this
\* organization": an organization that has an active admin keeps one
\* (_assert_not_last_admin).
LastAdminStays == [][\A o \in Orgs : HasAdmin(o) => HasAdmin(o)']_db

\* The last active admin of an organization is lost only when two requests
\* interleave, each of which counts the admin that the other takes away
\* (_assert_not_last_admin).
LastAdminLostOnlyByRace ==
  [][\A o \in Orgs : HasAdmin(o) /\ ~HasAdmin(o)' => ~Serial]_vars

\* Unless requests interleave, a user's designation exists and belongs to the
\* user's organization: it is not deleted under the user (delete_designation,
\* _validate_designation).
NoDanglingDesignation ==
  Serial => \A u \in Users : Present(u) /\ db[u].designation # None
                     => /\ Present(db[u].designation)
                        /\ db[db[u].designation].org = db[u].org

\* However requests interleave, only a request that was authenticated as a
\* super admin makes a super admin (_validate_role_assignment).
NoEscalation ==
  [][\A u \in Users : /\ Live(db'[u]) /\ db'[u].role = "super_admin"
                      /\ ~db[u].exists \/ db[u].role # "super_admin"
       => \E r \in Requests : u \in DOMAIN write[r] /\ IsSuper(r)]_vars

\* Tenants are isolated: a request changes users and designations of its
\* caller's organization only, or is a super admin's (assert_same_organization).
TenantIsolation ==
  [][\A x \in Users \union Designations :
       db'[x] # db[x]
         => \E r \in Requests : /\ x \in DOMAIN write[r]
                                /\ assert_same_organization(r, db'[x].org)]_vars
===============================================================================

----------------------------- MODULE AccountsProofs -----------------------------
(***************************************************************************)
(* Tenants and their accounts, for any rows, names and number of requests. *)
(***************************************************************************)
EXTENDS Accounts, OrmProofs, FiniteSetTheorems

\* Rows of users and designations belong to an organization.
Owned == Users \union Designations

\* A row is one of its table.
RowOK(x, row) == /\ x \in Users => row \in User
                 /\ x \in Orgs => row \in Org
                 /\ x \in Designations => row \in Designation

RowsOK == \A x \in Rows : db[x] = Absent \/ RowOK(x, db[x])

\* Columns that an update writes.
ColumnsOK(x, w) ==
  \A f \in DOMAIN w :
    \/ f = "deleted" /\ w[f] = TRUE
    \/ x \in Users /\ f = "role" /\ w[f] \in UserRole
    \/ x \in Users /\ f = "designation" /\ w[f] \in MaybeNone(Designations)
    \/ x \in Users \union Orgs /\ f = "status" /\ w[f] \in {"active", "suspended"}
    \/ x \in Designations /\ f = "name" /\ w[f] \in Names

Insert(w) == "exists" \in DOMAIN w

Deleted(row) == row.exists /\ row.deleted

\* A request inserts rows of the tables, and updates rows that exist.
WriteOK(x, w) == /\ x \in Rows
                 /\ Insert(w) => RowOK(x, w)
                 /\ ~Insert(w) => db[x].exists /\ ColumnsOK(x, w)

\* It writes to the organization of its caller, and makes no super admins,
\* unless it is a super admin's.
Authorized(r, x, w) ==
  /\ x \in Owned => \/ IsSuper(r)
                    \/ (IF Insert(w) THEN w.org ELSE db[x].org) = Me(r).org
  /\ x \in Users /\ "role" \in DOMAIN w /\ w["role"] = "super_admin" => IsSuper(r)

WritesOK == \A r \in Requests : \A x \in DOMAIN write[r] :
              WriteOK(x, write[r][x]) /\ Authorized(r, x, write[r][x])

\* A row that a request has loaded exists, and is still of that organization.
LoadedOK ==
  \A r \in Requests : \A x \in DOMAIN loaded[r] :
    /\ x \in Rows /\ db[x].exists
    /\ RowOK(x, loaded[r][x])
    /\ x \in Owned => loaded[r][x].org = db[x].org

CallersOK == \A r \in Requests :
               /\ caller[r] \in MaybeNone(Users)
               /\ caller[r] # None => caller[r] \in DOMAIN loaded[r]
               /\ caller[r] = None => loaded[r] = Nothing /\ write[r] = Nothing

EmployeesOK == \A u \in Users :
                 db[u].exists /\ db[u].role = "employee" => db[u].designation # None

AccountsInv == /\ OpenSessions /\ DOMAIN db = Rows
               /\ RowsOK /\ WritesOK /\ LoadedOK /\ CallersOK /\ EmployeesOK

-------------------------------------------------------------------------------
(* One request at a time                                                   *)

\* The designations of users, and the admins, in a database.
DesignationsOK(D) ==
  \A u \in Users : Live(D[u]) /\ D[u].designation # None
                     => /\ Live(D[D[u].designation])
                        /\ D[D[u].designation].org = D[u].org

\* A database with the columns of some rows written to it.
Merged(D, rows) == [x \in DOMAIN D |-> IF x \in DOMAIN rows THEN rows[x] @@ D[x] ELSE D[x]]

AdminIn(D, u, o) == /\ Live(D[u]) /\ D[u].org = o
                    /\ D[u].role = "admin" /\ D[u].status = "active"

AdminsKept(D) == \A o \in Orgs : HasAdmin(o) => \E u \in Users : AdminIn(D, u, o)

\* Requests outside the bound do nothing; rows are as they were loaded, and what
\* the request is about to write leaves designations and admins in order.
SerialInv ==
  /\ db = [x \in Rows |-> db[x]]
  /\ \A r \in Requests \ Used(Requests) : caller[r] = None
  /\ Serial =>
       /\ \A r \in Requests : \A x \in DOMAIN loaded[r] : loaded[r][x] = db[x]
       /\ \A r \in Requests : \A x \in DOMAIN write[r] :
            Insert(write[r][x]) => ~db[x].exists
       /\ DesignationsOK(db)
       /\ \A r \in Requests : DesignationsOK(Written(r)) /\ AdminsKept(Written(r))

-------------------------------------------------------------------------------
(* Rows                                                                    *)

LEMMA Tables ==
  /\ \A x \in Users : x \notin Orgs /\ x \notin Designations
  /\ \A x \in Orgs : x \notin Users /\ x \notin Designations
  /\ \A x \in Designations : x \notin Users /\ x \notin Orgs
  /\ None \notin Rows
BY AccountsAssumption DEF Rows

LEMMA RowFields ==
  ASSUME NEW x \in Rows, NEW row, RowOK(x, row)
  PROVE  /\ row.exists = TRUE /\ row.deleted \in BOOLEAN
         /\ row = [f \in DOMAIN row |-> row[f]]
         /\ x \in Users => /\ DOMAIN row = {"exists", "deleted", "org", "role", "status",
                                            "designation"}
                           /\ row.org \in MaybeNone(Orgs) /\ row.role \in UserRole
                           /\ row.status \in {"active", "suspended"}
                           /\ row.designation \in MaybeNone(Designations)
         /\ x \in Orgs => /\ DOMAIN row = {"exists", "deleted", "status"}
                          /\ row.status \in {"active", "suspended"}
         /\ x \in Designations => /\ DOMAIN row = {"exists", "deleted", "org", "name"}
                                  /\ row.org \in Orgs /\ row.name \in Names
<1>1. CASE x \in Users
  BY <1>1, Tables DEF RowOK, User
<1>2. CASE x \in Orgs
  BY <1>2, Tables DEF RowOK, Org
<1>3. CASE x \in Designations
  BY <1>3, Tables DEF RowOK, Designation
<1> QED
  BY <1>1, <1>2, <1>3 DEF Rows

LEMMA AbsentFields == Absent.exists = FALSE /\ DOMAIN Absent = {"exists"}
BY DEF Absent

\* An update leaves a row of the table, in its organization, and deleted if it
\* was.
LEMMA UpdatedRow ==
  ASSUME NEW x \in Rows, NEW row, RowOK(x, row), NEW w, ~Insert(w), ColumnsOK(x, w)
  PROVE  /\ RowOK(x, w @@ row)
         /\ (w @@ row).exists = TRUE
         /\ Deleted(row) => Deleted(w @@ row)
         /\ x \in Owned => (w @@ row).org = row.org
         /\ \A f \in DOMAIN w : (w @@ row)[f] = w[f]
         /\ \A f \in DOMAIN row \ DOMAIN w : (w @@ row)[f] = row[f]
<1> DEFINE new == w @@ row
<1>1. /\ DOMAIN new = DOMAIN w \union DOMAIN row
      /\ \A f \in DOMAIN w : new[f] = w[f]
      /\ \A f \in DOMAIN row \ DOMAIN w : new[f] = row[f]
  BY Over
<1>2. new = [f \in DOMAIN new |-> new[f]]
  BY DEF @@
<1> HIDE DEF new
<1>3. "exists" \notin DOMAIN w
  BY DEF Insert
<1>4. CASE x \in Users
  <2>1. /\ DOMAIN row = {"exists", "deleted", "org", "role", "status", "designation"}
        /\ row.exists = TRUE /\ row.deleted \in BOOLEAN
        /\ row.org \in MaybeNone(Orgs) /\ row.role \in UserRole
        /\ row.status \in {"active", "suspended"}
        /\ row.designation \in MaybeNone(Designations)
    BY <1>4, RowFields
  <2>2. \A f \in DOMAIN w : \/ f = "deleted" /\ w[f] = TRUE
                            \/ f = "role" /\ w[f] \in UserRole
                            \/ f = "designation" /\ w[f] \in MaybeNone(Designations)
                            \/ f = "status" /\ w[f] \in {"active", "suspended"}
    BY <1>4, Tables DEF ColumnsOK
  <2>3. DOMAIN new = {"exists", "deleted", "org", "role", "status", "designation"}
    BY <1>1, <2>1, <2>2
  <2>4. /\ new.exists = TRUE /\ new.deleted \in BOOLEAN
        /\ new.org \in MaybeNone(Orgs) /\ new.org = row.org /\ new.role \in UserRole
        /\ new.status \in {"active", "suspended"}
        /\ new.designation \in MaybeNone(Designations)
        /\ Deleted(row) => Deleted(new)
    BY <1>1, <2>1, <2>2 DEF Deleted
  <2>5. new = [exists |-> new.exists, deleted |-> new.deleted, org |-> new.org,
               role |-> new.role, status |-> new.status, designation |-> new.designation]
    BY <1>2, <2>3
  <2>6. new \in User
    BY <2>4, <2>5 DEF User
  <2> QED
    BY <1>1, <1>4, <2>4, <2>6, Tables DEF RowOK, new
<1>5. CASE x \in Orgs
  <2>1. /\ DOMAIN row = {"exists", "deleted", "status"}
        /\ row.exists = TRUE /\ row.deleted \in BOOLEAN
        /\ row.status \in {"active", "suspended"}
    BY <1>5, RowFields
  <2>2. \A f \in DOMAIN w : \/ f = "deleted" /\ w[f] = TRUE
                            \/ f = "status" /\ w[f] \in {"active", "suspended"}
    BY <1>5, Tables DEF ColumnsOK
  <2>3. DOMAIN new = {"exists", "deleted", "status"}
    BY <1>1, <2>1, <2>2
  <2>4. /\ new.exists = TRUE /\ new.deleted \in BOOLEAN
        /\ new.status \in {"active", "suspended"}
        /\ Deleted(row) => Deleted(new)
    BY <1>1, <2>1, <2>2 DEF Deleted
  <2>5. new = [exists |-> new.exists, deleted |-> new.deleted, status |-> new.status]
    BY <1>2, <2>3
  <2>6. new \in Org
    BY <2>4, <2>5 DEF Org
  <2> QED
    BY <1>1, <1>5, <2>4, <2>6, Tables DEF RowOK, Owned, new
<1>6. CASE x \in Designations
  <2>1. /\ DOMAIN row = {"exists", "deleted", "org", "name"}
        /\ row.exists = TRUE /\ row.deleted \in BOOLEAN
        /\ row.org \in Orgs /\ row.name \in Names
    BY <1>6, RowFields
  <2>2. \A f \in DOMAIN w : \/ f = "deleted" /\ w[f] = TRUE
                            \/ f = "name" /\ w[f] \in Names
    BY <1>6, Tables DEF ColumnsOK
  <2>3. DOMAIN new = {"exists", "deleted", "org", "name"}
    BY <1>1, <2>1, <2>2
  <2>4. /\ new.exists = TRUE /\ new.deleted \in BOOLEAN
        /\ new.org \in Orgs /\ new.org = row.org /\ new.name \in Names
        /\ Deleted(row) => Deleted(new)
    BY <1>1, <2>1, <2>2 DEF Deleted
  <2>5. new = [exists |-> new.exists, deleted |-> new.deleted, org |-> new.org,
               name |-> new.name]
    BY <1>2, <2>3
  <2>6. new \in Designation
    BY <2>4, <2>5 DEF Designation
  <2> QED
    BY <1>1, <1>6, <2>4, <2>6, Tables DEF RowOK, new
<1> QED
  BY <1>4, <1>5, <1>6 DEF Rows

LEMMA UpdatedOrg ==
  ASSUME NEW x \in Owned, NEW row, RowOK(x, row), NEW w, ~Insert(w), ColumnsOK(x, w)
  PROVE  (w @@ row).org = row.org
<1>1. x \notin Orgs
  BY Tables DEF Owned
<1>2. "org" \in DOMAIN row
  <2>1. CASE x \in Users
    BY <2>1 DEF RowOK, User
  <2>2. CASE x \in Designations
    BY <2>2 DEF RowOK, Designation
  <2> QED
    BY <2>1, <2>2 DEF Owned
<1>3. "org" \notin DOMAIN w
  BY <1>1 DEF ColumnsOK
<1> QED
  BY <1>2, <1>3 DEF @@

LEMMA UpdatedDeleted ==
  ASSUME NEW x \in Rows, NEW row, RowOK(x, row), NEW w, ~Insert(w), ColumnsOK(x, w),
         Deleted(row)
  PROVE  Deleted(w @@ row)
BY UpdatedRow

\* An insert leaves the row that is inserted.
LEMMA InsertedRow ==
  ASSUME NEW x \in Rows, NEW w, Insert(w), RowOK(x, w)
  PROVE  w @@ Absent = w
<1>1. DOMAIN w \union DOMAIN Absent = DOMAIN w
  BY AbsentFields DEF Insert
<1>2. w @@ Absent = [f \in DOMAIN w |-> w[f]]
  BY <1>1 DEF @@
<1>3. w = [f \in DOMAIN w |-> w[f]]
  BY RowFields
<1> QED
  BY <1>2, <1>3

-------------------------------------------------------------------------------
(* The three steps of a request                                            *)

LEMMA AccountsInitially == Init => AccountsInv
<1> SUFFICES ASSUME Init PROVE AccountsInv
  OBVIOUS
<1>1. NewUser(None, "super_admin", None) \in User
  BY DEF NewUser, User, UserRole, MaybeNone
<1>2. /\ DOMAIN db = Rows
      /\ \A x \in Rows : db[x] = IF x = Root THEN NewUser(None, "super_admin", None) ELSE Absent
  BY DEF Init
<1>3. RowsOK
  <2>1. RowOK(Root, NewUser(None, "super_admin", None))
    BY <1>1, Tables, AccountsAssumption DEF RowOK
  <2> QED
    BY <1>2, <2>1 DEF RowsOK
<1>4. EmployeesOK
  BY <1>2 DEF EmployeesOK, NewUser, Absent, Rows
<1>5. \A r \in Requests : caller[r] = None /\ loaded[r] = Nothing /\ write[r] = Nothing
  BY DEF Init, Idle
<1>6. OpenSessions
  BY DEF Init, Idle, OpenSessions
<1>7. WritesOK /\ LoadedOK /\ CallersOK
  BY <1>5, NothingIsEmpty DEF WritesOK, LoadedOK, CallersOK, MaybeNone
<1> QED
  BY <1>2, <1>3, <1>4, <1>6, <1>7 DEF AccountsInv

LEMMA AuthenticateStep ==
  ASSUME AccountsInv, NEW r \in Requests, NEW u \in Users, authenticate(r, u)
  PROVE  /\ AccountsInv'
         /\ caller'[r] = u /\ db' = db /\ write' = write
         /\ \A x \in DOMAIN loaded'[r] : loaded'[r][x] = db[x]
         /\ \A q \in Requests \ {r} : caller'[q] = caller[q] /\ loaded'[q] = loaded[q]
<1>0. /\ OpenSessions /\ DOMAIN db = Rows /\ RowsOK /\ WritesOK /\ LoadedOK /\ CallersOK
      /\ EmployeesOK
  BY DEF AccountsInv
<1> DEFINE S == {u, db[u].org} \ {None}
           rows == [x \in S |-> db[x]]
<1>1. /\ caller[r] = None /\ is_account_usable(u)
      /\ caller' = [caller EXCEPT ![r] = u]
      /\ loaded' = [loaded EXCEPT ![r] = rows]
      /\ db' = db /\ write' = write
  BY DEF authenticate
<1>2. db[u].exists /\ u \in Rows /\ RowOK(u, db[u]) /\ u # None
  BY <1>0, <1>1, AbsentFields, Tables DEF is_account_usable, Present, Live, RowsOK, Rows
<1>3. db[u].org \in MaybeNone(Orgs)
  BY <1>2, RowFields
<1>4. \A x \in S : /\ x \in Rows /\ db[x].exists /\ RowOK(x, db[x])
  <2>1. db[u].org # None => /\ db[u].org \in Rows /\ db[db[u].org].exists
                            /\ RowOK(db[u].org, db[db[u].org])
    BY <1>0, <1>1, <1>3, AbsentFields
    DEF is_account_usable, Present, Live, RowsOK, Rows, MaybeNone
  <2> QED
    BY <1>2, <2>1
<1>5. u \in S /\ DOMAIN rows = S /\ \A x \in S : rows[x] = db[x]
  BY <1>2
<1> HIDE DEF S, rows
<1>6. /\ caller'[r] = u /\ loaded'[r] = rows
      /\ \A q \in Requests \ {r} : caller'[q] = caller[q] /\ loaded'[q] = loaded[q]
      /\ OpenSessions'
  BY <1>0, <1>1 DEF OpenSessions
<1>7. LoadedOK'
  <2> SUFFICES ASSUME NEW q \in Requests, NEW x \in DOMAIN loaded'[q]
               PROVE  /\ x \in Rows /\ db[x].exists
                      /\ RowOK(x, loaded'[q][x])
                      /\ x \in Owned => loaded'[q][x].org = db[x].org
    BY <1>1 DEF LoadedOK
  <2>1. CASE q = r
    BY <1>4, <1>5, <1>6, <2>1
  <2>2. CASE q # r
    BY <1>0, <1>6, <2>2 DEF LoadedOK
  <2> QED
    BY <2>1, <2>2
<1>8. WritesOK'
  <2> SUFFICES ASSUME NEW q \in Requests, NEW x \in DOMAIN write[q]
               PROVE  (WriteOK(x, write[q][x]) /\ Authorized(q, x, write[q][x]))'
    BY <1>1 DEF WritesOK
  <2>1. WriteOK(x, write[q][x]) /\ Authorized(q, x, write[q][x])
    BY <1>0 DEF WritesOK
  <2>2. q # r
    BY <1>0, <1>1, NothingIsEmpty DEF CallersOK
  <2> QED
    BY <1>1, <1>6, <2>1, <2>2 DEF WriteOK, Authorized, IsSuper, Me
<1>9. CallersOK'
  BY <1>0, <1>1, <1>2, <1>5, <1>6 DEF CallersOK, MaybeNone
<1>10. RowsOK' /\ EmployeesOK' /\ DOMAIN db' = Rows
  BY <1>0, <1>1 DEF RowsOK, EmployeesOK
<1> QED
  BY <1>1, <1>5, <1>6, <1>7, <1>8, <1>9, <1>10 DEF AccountsInv

LEMMA FlushStep ==
  ASSUME AccountsInv, NEW r \in Requests, caller[r] # None, NEW rows, Flush(r, rows),
         \A x \in DOMAIN rows : WriteOK(x, rows[x]) /\ Authorized(r, x, rows[x])
  PROVE  AccountsInv'
<1>0. /\ OpenSessions /\ DOMAIN db = Rows /\ RowsOK /\ WritesOK /\ LoadedOK /\ CallersOK
      /\ EmployeesOK
  BY DEF AccountsInv
<1>1. /\ OpenSessions' /\ db' = db /\ caller' = caller /\ loaded' = loaded
      /\ write'[r] = rows
      /\ \A q \in Requests \ {r} : write'[q] = write[q]
  BY <1>0, FlushEffect
<1>2. WritesOK'
  <2> SUFFICES ASSUME NEW q \in Requests, NEW x \in DOMAIN write'[q]
               PROVE  (WriteOK(x, write[q][x]) /\ Authorized(q, x, write[q][x]))'
    BY DEF WritesOK
  <2>1. WriteOK(x, write'[q][x]) /\ Authorized(q, x, write'[q][x])
    BY <1>0, <1>1 DEF WritesOK
  <2> QED
    BY <1>1, <2>1 DEF WriteOK, Authorized, IsSuper, Me
<1>3. LoadedOK' /\ RowsOK' /\ EmployeesOK' /\ DOMAIN db' = Rows
  BY <1>0, <1>1 DEF LoadedOK, RowsOK, EmployeesOK
<1>4. CallersOK'
  BY <1>0, <1>1 DEF CallersOK
<1> QED
  BY <1>1, <1>2, <1>3, <1>4 DEF AccountsInv

\* What a commit makes of a row.
LEMMA CommittedRow ==
  ASSUME AccountsInv, NEW r \in Requests, commit(r), NEW x \in Rows
  PROVE  /\ db' = Written(r) /\ DOMAIN db' = Rows
         /\ x \notin DOMAIN write[r] => db'[x] = db[x]
         /\ x \in DOMAIN write[r] /\ Insert(write[r][x])
              => db[x] = Absent /\ db'[x] = write[r][x] /\ RowOK(x, db'[x])
         /\ x \in DOMAIN write[r] /\ ~Insert(write[r][x])
              => /\ db'[x] = write[r][x] @@ db[x]
                 /\ db[x].exists /\ RowOK(x, db[x])
                 /\ ColumnsOK(x, write[r][x])
<1>0. DOMAIN db = Rows /\ RowsOK /\ WritesOK
  BY DEF AccountsInv
<1>1. db' = Written(r) /\ Constraints(r, Written(r))
  BY DEF commit
<1>2. /\ DOMAIN db' = Rows
      /\ x \in DOMAIN write[r] => db'[x] = write[r][x] @@ db[x]
      /\ x \notin DOMAIN write[r] => db'[x] = db[x]
  BY <1>0, <1>1, WrittenRows
<1>3. ASSUME x \in DOMAIN write[r], Insert(write[r][x])
      PROVE  db[x] = Absent /\ db'[x] = write[r][x] /\ RowOK(x, db'[x])
  <2>1. ~db[x].exists
    BY <1>1, <1>3 DEF Constraints, UniqueKeys, Inserted, Insert
  <2>2. db[x] = Absent
    BY <1>0, <2>1, RowFields DEF RowsOK
  <2>3. RowOK(x, write[r][x])
    BY <1>0, <1>3 DEF WritesOK, WriteOK
  <2> QED
    BY <1>2, <1>3, <2>2, <2>3, InsertedRow
<1>4. ASSUME x \in DOMAIN write[r], ~Insert(write[r][x])
      PROVE  db[x].exists /\ RowOK(x, db[x]) /\ ColumnsOK(x, write[r][x])
  BY <1>0, <1>4, AbsentFields DEF WritesOK, WriteOK, RowsOK
<1> QED
  BY <1>1, <1>2, <1>3, <1>4

\* A commit leaves rows of their tables: no row goes, moves to another
\* organization or comes back.
LEMMA CommittedRows ==
  ASSUME AccountsInv, NEW r \in Requests, commit(r), NEW x \in Rows
  PROVE  /\ db'[x] = Absent \/ RowOK(x, db'[x])
         /\ db[x].exists => /\ db'[x].exists /\ RowOK(x, db'[x])
                            /\ x \in Owned => db'[x].org = db[x].org
                            /\ Deleted(db[x]) => Deleted(db'[x])
<1>0. RowsOK
  BY DEF AccountsInv
<1>1. CASE x \notin DOMAIN write[r]
  BY <1>0, <1>1, CommittedRow, AbsentFields DEF RowsOK
<1>2. CASE x \in DOMAIN write[r] /\ Insert(write[r][x])
  BY <1>2, CommittedRow, AbsentFields
<1>3. CASE x \in DOMAIN write[r] /\ ~Insert(write[r][x])
  <2>1. /\ db'[x] = write[r][x] @@ db[x]
        /\ db[x].exists /\ RowOK(x, db[x]) /\ ColumnsOK(x, write[r][x])
    BY <1>3, CommittedRow
  <2>2. ~Insert(write[r][x])
    BY <1>3
  <2>3. RowOK(x, db'[x])
    BY <2>1, <2>2, UpdatedRow
  <2>4. db'[x].exists = TRUE
    BY <2>3, RowFields
  <2>5. x \in Owned => db'[x].org = db[x].org
    BY <2>1, <2>2, UpdatedOrg
  <2>6. Deleted(db[x]) => Deleted(db'[x])
    BY <2>1, <2>2, UpdatedDeleted
  <2> QED
    BY <2>3, <2>4, <2>5, <2>6
<1> QED
  BY <1>1, <1>2, <1>3

LEMMA CommitStep ==
  ASSUME AccountsInv, NEW r \in Requests, commit(r)
  PROVE  AccountsInv'
<1>0. /\ OpenSessions /\ DOMAIN db = Rows /\ RowsOK /\ WritesOK /\ LoadedOK /\ CallersOK
      /\ EmployeesOK
  BY DEF AccountsInv
<1>1. /\ OpenSessions'
      /\ caller'[r] = None /\ loaded'[r] = Nothing /\ write'[r] = Nothing
      /\ \A q \in Requests \ {r} : /\ caller'[q] = caller[q] /\ loaded'[q] = loaded[q]
                                   /\ write'[q] = write[q]
  BY <1>0, DoneEffect DEF commit
<1>2. \A x \in Rows : /\ db'[x] = Absent \/ RowOK(x, db'[x])
                      /\ db[x].exists => /\ db'[x].exists
                                         /\ x \in Owned => db'[x].org = db[x].org
  BY CommittedRows
<1>3. DOMAIN db' = Rows
  BY <1>0, WrittenRows DEF commit
<1>4. RowsOK'
  BY <1>2 DEF RowsOK
<1>5. EmployeesOK'
  BY DEF commit, Constraints, EmployeesOK
<1>6. LoadedOK'
  <2> SUFFICES ASSUME NEW q \in Requests, NEW x \in DOMAIN loaded'[q]
               PROVE  /\ x \in Rows /\ db'[x].exists
                      /\ RowOK(x, loaded'[q][x])
                      /\ x \in Owned => loaded'[q][x].org = db'[x].org
    BY DEF LoadedOK
  <2>1. q # r
    BY <1>1, NothingIsEmpty
  <2> QED
    BY <1>0, <1>1, <1>2, <2>1 DEF LoadedOK
<1>7. WritesOK'
  <2> SUFFICES ASSUME NEW q \in Requests, NEW x \in DOMAIN write'[q]
               PROVE  (WriteOK(x, write[q][x]) /\ Authorized(q, x, write[q][x]))'
    BY DEF WritesOK
  <2>1. q # r
    BY <1>1, NothingIsEmpty
  <2>2. write'[q] = write[q] /\ IsSuper(q)' = IsSuper(q) /\ Me(q)' = Me(q)
    BY <1>1, <2>1 DEF IsSuper, Me
  <2>3. WriteOK(x, write[q][x]) /\ Authorized(q, x, write[q][x])
    BY <1>0, <2>2 DEF WritesOK
  <2>4. WriteOK(x, write[q][x])'
    BY <1>2, <2>2, <2>3 DEF WriteOK
  <2>5. Authorized(q, x, write[q][x])'
    BY <1>2, <2>2, <2>3 DEF WriteOK, Authorized
  <2> QED
    BY <2>4, <2>5
<1>8. CallersOK'
  BY <1>0, <1>1 DEF CallersOK, MaybeNone
<1> QED
  BY <1>1, <1>3, <1>4, <1>5, <1>6, <1>7, <1>8 DEF AccountsInv

LEMMA RollbackStep ==
  ASSUME AccountsInv, NEW r \in Requests, rollback(r)
  PROVE  AccountsInv'
<1>0. /\ OpenSessions /\ DOMAIN db = Rows /\ RowsOK /\ WritesOK /\ LoadedOK /\ CallersOK
      /\ EmployeesOK
  BY DEF AccountsInv
<1>1. /\ OpenSessions' /\ db' = db
      /\ caller'[r] = None /\ loaded'[r] = Nothing /\ write'[r] = Nothing
      /\ \A q \in Requests \ {r} : /\ caller'[q] = caller[q] /\ loaded'[q] = loaded[q]
                                   /\ write'[q] = write[q]
  BY <1>0, DoneEffect DEF rollback
<1>2. LoadedOK'
  <2> SUFFICES ASSUME NEW q \in Requests, NEW x \in DOMAIN loaded'[q]
               PROVE  /\ x \in Rows /\ db[x].exists
                      /\ RowOK(x, loaded'[q][x])
                      /\ x \in Owned => loaded'[q][x].org = db[x].org
    BY <1>1 DEF LoadedOK
  <2>1. q # r
    BY <1>1, NothingIsEmpty
  <2> QED
    BY <1>0, <1>1, <2>1 DEF LoadedOK
<1>3. WritesOK'
  <2> SUFFICES ASSUME NEW q \in Requests, NEW x \in DOMAIN write'[q]
               PROVE  (WriteOK(x, write[q][x]) /\ Authorized(q, x, write[q][x]))'
    BY DEF WritesOK
  <2>1. q # r
    BY <1>1, NothingIsEmpty
  <2>2. write'[q] = write[q] /\ IsSuper(q)' = IsSuper(q) /\ Me(q)' = Me(q)
    BY <1>1, <2>1 DEF IsSuper, Me
  <2>3. WriteOK(x, write[q][x]) /\ Authorized(q, x, write[q][x])
    BY <1>0, <2>2 DEF WritesOK
  <2> QED
    BY <1>1, <2>2, <2>3 DEF WriteOK, Authorized
<1>4. CallersOK' /\ RowsOK' /\ EmployeesOK' /\ DOMAIN db' = Rows
  BY <1>0, <1>1 DEF CallersOK, MaybeNone, RowsOK, EmployeesOK
<1> QED
  BY <1>1, <1>2, <1>3, <1>4 DEF AccountsInv

-------------------------------------------------------------------------------
(* What requests write                                                     *)

LEMMA CallerRow ==
  ASSUME AccountsInv, NEW r \in Requests, Serving(r)
  PROVE  /\ caller[r] \in Users /\ Me(r) \in User
         /\ Me(r).org \in MaybeNone(Orgs)
<1>1. caller[r] \in Users /\ caller[r] \in DOMAIN loaded[r]
  BY DEF AccountsInv, CallersOK, Serving, MaybeNone
<1>2. Me(r) \in User
  BY <1>1 DEF AccountsInv, LoadedOK, RowOK, Me
<1> QED
  BY <1>1, <1>2 DEF User

\* A row that exists is of its table.
LEMMA ExistingRow ==
  ASSUME AccountsInv, NEW x \in Rows, db[x].exists
  PROVE  RowOK(x, db[x])
BY AbsentFields DEF AccountsInv, RowsOK

\* A row that a request finds in its session, or in the database.
LEMMA LoadedRow ==
  ASSUME AccountsInv, NEW r \in Requests, NEW x \in Rows, Live(Loaded(r, x))
  PROVE  /\ db[x].exists /\ RowOK(x, Loaded(r, x))
         /\ x \in Owned => Loaded(r, x).org = db[x].org
<1>1. CASE x \in DOMAIN loaded[r]
  BY <1>1 DEF AccountsInv, LoadedOK, Loaded
<1>2. CASE x \notin DOMAIN loaded[r]
  BY <1>2, ExistingRow DEF Loaded, Live
<1> QED
  BY <1>1, <1>2

LEMMA NewUserWritten ==
  ASSUME NEW u \in Users, NEW o \in MaybeNone(Orgs), NEW role \in UserRole,
         NEW d \in MaybeNone(Designations)
  PROVE  /\ WriteOK(u, NewUser(o, role, d)) /\ Insert(NewUser(o, role, d))
         /\ NewUser(o, role, d).org = o /\ NewUser(o, role, d).role = role
<1>1. NewUser(o, role, d) \in User
  BY DEF NewUser, User
<1>2. Insert(NewUser(o, role, d))
  BY DEF NewUser, Insert
<1> QED
  BY <1>1, <1>2, Tables DEF WriteOK, RowOK, Rows, NewUser

LEMMA NewDesignationWritten ==
  ASSUME NEW d \in Designations, NEW o \in Orgs, NEW name \in Names
  PROVE  /\ WriteOK(d, NewDesignation(o, name)) /\ Insert(NewDesignation(o, name))
         /\ NewDesignation(o, name).org = o
<1>1. NewDesignation(o, name) \in Designation
  BY DEF NewDesignation, Designation
<1>2. Insert(NewDesignation(o, name))
  BY DEF NewDesignation, Insert
<1> QED
  BY <1>1, <1>2, Tables DEF WriteOK, RowOK, Rows, NewDesignation

LEMMA NewOrgWritten ==
  ASSUME NEW o \in Orgs
  PROVE  WriteOK(o, NewOrg) /\ Insert(NewOrg)
<1>1. NewOrg \in Org
  BY DEF NewOrg, Org
<1>2. Insert(NewOrg)
  BY DEF NewOrg, Insert
<1> QED
  BY <1>1, <1>2, Tables DEF WriteOK, RowOK, Rows

\* The deletion of a row.
LEMMA DeletionWritten ==
  ASSUME NEW x \in Rows, db[x].exists
  PROVE  /\ WriteOK(x, [deleted |-> TRUE]) /\ ~Insert([deleted |-> TRUE])
         /\ "role" \notin DOMAIN [deleted |-> TRUE]
BY DEF WriteOK, ColumnsOK, Insert

\* A request that writes one row.
LEMMA FlushOne ==
  ASSUME AccountsInv, NEW r \in Requests, caller[r] # None, NEW x, NEW w,
         Flush(r, x :> w), WriteOK(x, w), Authorized(r, x, w)
  PROVE  AccountsInv'
<1> DEFINE rows == x :> w
<1>1. \A y \in DOMAIN rows : WriteOK(y, rows[y]) /\ Authorized(r, y, rows[y])
  <2>1. DOMAIN rows = {x} /\ rows[x] = w
    BY OneRow
  <2> HIDE DEF rows
  <2> QED
    BY <2>1
<1> HIDE DEF rows
<1>2. Flush(r, rows)
  BY DEF rows
<1> QED
  BY <1>1, <1>2, FlushStep

LEMMA CreateUserStep ==
  ASSUME AccountsInv, NEW r \in Requests, NEW u \in Users, NEW role \in UserRole,
         NEW o \in Orgs, NEW d \in MaybeNone(Designations), create_user(r, u, role, o, d)
  PROVE  AccountsInv'
<1> DEFINE w == NewUser(o, role, d)
<1>1. /\ caller[r] # None /\ Flush(r, u :> w)
      /\ IsSuper(r) \/ o = Me(r).org
      /\ IsSuper(r) \/ role # "super_admin"
  BY DEF create_user, Serving, validate_role_assignment, assert_same_organization
<1>2. WriteOK(u, w) /\ Insert(w) /\ w.org = o /\ w.role = role
  BY NewUserWritten DEF MaybeNone
<1> HIDE DEF w
<1>3. Authorized(r, u, w)
  BY <1>1, <1>2 DEF Authorized
<1> QED
  BY <1>1, <1>2, <1>3, FlushOne

LEMMA CreateUserAndDesignationStep ==
  ASSUME AccountsInv, NEW r \in Requests, NEW u \in Users, NEW role \in UserRole,
         NEW o \in Orgs, NEW d \in Designations, NEW name \in Names,
         create_user_and_designation(r, u, role, o, d, name)
  PROVE  AccountsInv'
<1> DEFINE w == NewUser(o, role, d)
           v == NewDesignation(o, name)
           rows == u :> w @@ d :> v
<1>1. /\ caller[r] # None /\ Flush(r, rows)
      /\ IsSuper(r) \/ o = Me(r).org
      /\ IsSuper(r) \/ role # "super_admin"
  BY DEF create_user_and_designation, Serving, validate_role_assignment,
         assert_same_organization
<1>2. WriteOK(u, w) /\ Insert(w) /\ w.org = o /\ w.role = role
  BY NewUserWritten DEF MaybeNone
<1>3. WriteOK(d, v) /\ Insert(v) /\ v.org = o
  BY NewDesignationWritten
<1> HIDE DEF w, v
<1>4. DOMAIN rows = {u, d} /\ rows[u] = w /\ rows[d] = v
  <2>1. u # d
    BY Tables
  <2>2. DOMAIN (u :> w @@ d :> v) = {u, d}
    BY <2>1 DEF :>, @@
  <2>3. (u :> w @@ d :> v)[u] = w
    BY <2>1 DEF :>, @@
  <2>4. (u :> w @@ d :> v)[d] = v
    BY <2>1 DEF :>, @@
  <2> QED
    BY <2>2, <2>3, <2>4
<1> HIDE DEF rows
<1>5. Authorized(r, u, w) /\ Authorized(r, d, v)
  BY <1>1, <1>2, <1>3, Tables DEF Authorized
<1>6. \A x \in DOMAIN rows : WriteOK(x, rows[x]) /\ Authorized(r, x, rows[x])
  BY <1>2, <1>3, <1>4, <1>5
<1> QED
  BY <1>1, <1>6, FlushStep

LEMMA UpdateUserStep ==
  ASSUME AccountsInv, NEW r \in Requests, NEW u \in Users, NEW role \in UserRole,
         NEW status \in {"active", "suspended"}, NEW d \in MaybeNone(Designations),
         update_user(r, u, role, status, d)
  PROVE  AccountsInv'
<1> DEFINE row == Loaded(r, u)
           new == [role |-> role, status |-> status, designation |-> d]
           w == Changes(row, new)
<1>1. /\ caller[r] # None /\ Live(row) /\ Flush(r, u :> w)
      /\ authorize_update(r, u, row, new)
  BY DEF update_user, Serving
<1>2. db[u].exists /\ row.org = db[u].org
  BY <1>1, LoadedRow DEF Rows, Owned
<1>3. /\ DOMAIN w \subseteq {"role", "status", "designation"}
      /\ \A f \in DOMAIN w : w[f] = new[f]
  <2>1. DOMAIN new = {"role", "status", "designation"}
    OBVIOUS
  <2> HIDE DEF new, row
  <2>2. /\ DOMAIN w = {f \in DOMAIN new : new[f] # row[f]}
        /\ \A f \in DOMAIN w : w[f] = new[f]
    BY DEF Changes
  <2> HIDE DEF w
  <2> QED
    BY <2>1, <2>2
<1>4. new.role = role /\ new.status = status /\ new.designation = d
  OBVIOUS
<1>5. IsSuper(r) \/ (row.org = Me(r).org /\ role # "super_admin")
  BY <1>1 DEF authorize_update, validate_role_assignment
<1> HIDE DEF row, new, w
<1>6. ~Insert(w)
  BY <1>3 DEF Insert
<1>7. WriteOK(u, w)
  BY <1>2, <1>3, <1>4, <1>6 DEF WriteOK, ColumnsOK, Rows
<1>8. Authorized(r, u, w)
  BY <1>2, <1>3, <1>4, <1>5, <1>6 DEF Authorized
<1> QED
  BY <1>1, <1>7, <1>8, FlushOne

LEMMA DeleteUserStep ==
  ASSUME AccountsInv, NEW r \in Requests, NEW u \in Users, delete_user(r, u)
  PROVE  AccountsInv'
<1> DEFINE w == [deleted |-> TRUE]
<1>1. /\ caller[r] # None /\ db[u].exists /\ Flush(r, u :> w)
      /\ IsSuper(r) \/ db[u].org = Me(r).org
  BY DEF delete_user, Serving, Present, Live, assert_same_organization
<1>2. WriteOK(u, w) /\ ~Insert(w) /\ "role" \notin DOMAIN w
  BY <1>1, DeletionWritten DEF Rows
<1> HIDE DEF w
<1>3. Authorized(r, u, w)
  BY <1>1, <1>2 DEF Authorized
<1> QED
  BY <1>1, <1>2, <1>3, FlushOne

LEMMA CreateDesignationStep ==
  ASSUME AccountsInv, NEW r \in Requests, NEW d \in Designations, NEW name \in Names,
         create_designation(r, d, name)
  PROVE  AccountsInv'
<1> DEFINE o == Me(r).org
           w == NewDesignation(o, name)
<1>1. caller[r] # None /\ o \in Orgs /\ Flush(r, d :> w)
  BY CallerRow DEF create_designation, Serving, MaybeNone
<1>2. WriteOK(d, w) /\ Insert(w) /\ w.org = o
  BY <1>1, NewDesignationWritten
<1> HIDE DEF w
<1>3. Authorized(r, d, w)
  BY <1>2, Tables DEF Authorized
<1> QED
  BY <1>1, <1>2, <1>3, FlushOne

LEMMA UpdateDesignationStep ==
  ASSUME AccountsInv, NEW r \in Requests, NEW d \in Designations, NEW name \in Names,
         update_designation(r, d, name)
  PROVE  AccountsInv'
<1> DEFINE w == [name |-> name]
<1>1. /\ caller[r] # None /\ db[d].exists /\ Flush(r, d :> w)
      /\ IsSuper(r) \/ db[d].org = Me(r).org
  BY DEF update_designation, Serving, Present, Live, assert_same_organization
<1>2. ~Insert(w) /\ WriteOK(d, w) /\ "role" \notin DOMAIN w
  BY <1>1 DEF Insert, WriteOK, ColumnsOK, Rows
<1> HIDE DEF w
<1>3. Authorized(r, d, w)
  BY <1>1, <1>2 DEF Authorized
<1> QED
  BY <1>1, <1>2, <1>3, FlushOne

LEMMA DeleteDesignationStep ==
  ASSUME AccountsInv, NEW r \in Requests, NEW d \in Designations, delete_designation(r, d)
  PROVE  AccountsInv'
<1> DEFINE w == [deleted |-> TRUE]
<1>1. /\ caller[r] # None /\ db[d].exists /\ Flush(r, d :> w)
      /\ IsSuper(r) \/ db[d].org = Me(r).org
  BY DEF delete_designation, Serving, Present, Live, assert_same_organization
<1>2. WriteOK(d, w) /\ ~Insert(w) /\ "role" \notin DOMAIN w
  BY <1>1, DeletionWritten DEF Rows
<1> HIDE DEF w
<1>3. Authorized(r, d, w)
  BY <1>1, <1>2 DEF Authorized
<1> QED
  BY <1>1, <1>2, <1>3, FlushOne

LEMMA CreateOrganizationStep ==
  ASSUME AccountsInv, NEW r \in Requests, NEW o \in Orgs, NEW u \in MaybeNone(Users),
         create_organization(r, o, u)
  PROVE  AccountsInv'
<1> DEFINE w == NewUser(o, "admin", None)
           rows == [x \in {o, u} \ {None} |-> IF x = o THEN NewOrg ELSE w]
<1>1. caller[r] # None /\ IsSuper(r) /\ Flush(r, rows)
  BY DEF create_organization, Serving
<1>2. WriteOK(o, NewOrg) /\ Insert(NewOrg) /\ Authorized(r, o, NewOrg)
  BY <1>1, NewOrgWritten DEF Authorized
<1>3. ASSUME u # None
      PROVE  u # o /\ WriteOK(u, w) /\ Authorized(r, u, w)
  BY <1>1, <1>3, NewUserWritten, Tables DEF MaybeNone, UserRole, Authorized
<1>4. \A x \in DOMAIN rows : WriteOK(x, rows[x]) /\ Authorized(r, x, rows[x])
  <2> HIDE DEF w
  <2> SUFFICES ASSUME NEW x \in DOMAIN rows
               PROVE  WriteOK(x, rows[x]) /\ Authorized(r, x, rows[x])
    OBVIOUS
  <2>1. CASE x = o
    BY <1>2, <2>1
  <2>2. CASE x # o
    BY <1>3, <2>2
  <2> QED
    BY <2>1, <2>2
<1> HIDE DEF rows
<1> QED
  BY <1>1, <1>4, FlushStep

LEMMA UpdateOrganizationStep ==
  ASSUME AccountsInv, NEW r \in Requests, NEW o \in Orgs,
         NEW status \in {"active", "suspended"}, update_organization(r, o, status)
  PROVE  AccountsInv'
<1> DEFINE w == [status |-> status]
<1>1. caller[r] # None /\ db[o].exists /\ Flush(r, o :> w)
  BY LoadedRow DEF update_organization, Serving, Rows
<1>2. ~Insert(w) /\ WriteOK(o, w)
  BY <1>1 DEF Insert, WriteOK, ColumnsOK, Rows
<1>3. Authorized(r, o, w)
  BY Tables DEF Authorized, Owned
<1> HIDE DEF w
<1> QED
  BY <1>1, <1>2, <1>3, FlushOne

LEMMA DeleteOrganizationStep ==
  ASSUME AccountsInv, NEW r \in Requests, NEW o \in Orgs, delete_organization(r, o)
  PROVE  AccountsInv'
<1> DEFINE w == [deleted |-> TRUE]
<1>1. caller[r] # None /\ db[o].exists /\ Flush(r, o :> w)
  BY LoadedRow DEF delete_organization, Serving, Rows
<1>2. ~Insert(w) /\ WriteOK(o, w)
  BY <1>1, DeletionWritten DEF Rows
<1>3. Authorized(r, o, w)
  BY Tables DEF Authorized, Owned
<1> HIDE DEF w
<1> QED
  BY <1>1, <1>2, <1>3, FlushOne

-------------------------------------------------------------------------------
(* Whatever requests interleave                                            *)

LEMMA AccountsStep == AccountsInv /\ [Next /\ UNCHANGED scope]_vars => AccountsInv'
<1> SUFFICES ASSUME AccountsInv, [Next /\ UNCHANGED scope]_vars
             PROVE  AccountsInv'
  OBVIOUS
<1>1. CASE UNCHANGED vars
  BY <1>1
  DEF vars, AccountsInv, OpenSessions, RowsOK, WritesOK, WriteOK, Authorized, IsSuper, Me,
      LoadedOK, CallersOK, EmployeesOK
<1>2. ASSUME NEW r \in Requests, NEW u \in Users, authenticate(r, u)
      PROVE  AccountsInv'
  BY <1>2, AuthenticateStep
<1>3. CASE Next
  BY <1>2, <1>3, CreateUserStep, CreateUserAndDesignationStep, UpdateUserStep,
     DeleteUserStep, CreateDesignationStep, UpdateDesignationStep, DeleteDesignationStep,
     CreateOrganizationStep, UpdateOrganizationStep, DeleteOrganizationStep, CommitStep,
     RollbackStep, AccountsAssumption
  DEF Next, Used, MaybeNone
<1> QED
  BY <1>1, <1>3

\* However requests interleave, every row stays one of its table, what requests
\* are about to write is theirs to write, and no employee is without a
\* designation.
THEOREM AccountsInvariant == Spec => []AccountsInv
<1>1. Init => AccountsInv
  BY AccountsInitially
<1>2. AccountsInv /\ [Next /\ UNCHANGED scope]_vars => AccountsInv'
  BY AccountsStep
<1> QED
  BY <1>1, <1>2, PTL DEF Spec

\* The type invariant that the run checks: rows, callers and the database's
\* check of employees.
THEOREM AccountsTyped == Spec => []TypeOK
<1>1. AccountsInv => TypeOK
  <2> SUFFICES ASSUME AccountsInv PROVE TypeOK
    OBVIOUS
  <2>1. \A u \in Users : db[u] \in User \union {Absent}
    BY DEF AccountsInv, RowsOK, RowOK, Rows
  <2>2. \A u \in Users : Present(u) /\ db[u].role = "employee" => db[u].designation # None
    BY DEF AccountsInv, EmployeesOK, Present, Live
  <2>3. \A o \in Orgs : db[o] \in Org \union {Absent}
    BY DEF AccountsInv, RowsOK, RowOK, Rows
  <2>4. \A d \in Designations : db[d] \in Designation \union {Absent}
    BY DEF AccountsInv, RowsOK, RowOK, Rows
  <2>5. \A r \in Requests :
          /\ caller[r] \in MaybeNone(Users)
          /\ DOMAIN write[r] # {} => caller[r] # None
          /\ caller[r] # None => caller[r] \in DOMAIN loaded[r]
    BY NothingIsEmpty DEF AccountsInv, CallersOK
  <2> QED
    BY <2>1, <2>2, <2>3, <2>4, <2>5 DEF TypeOK
<1> QED
  BY <1>1, AccountsInvariant, PTL

\* Rows change in commits only.
LEMMA OnlyCommits ==
  ASSUME [Next /\ UNCHANGED scope]_vars
  PROVE  db' = db \/ \E r \in Requests : commit(r)
<1>1. ASSUME NEW r, NEW u, authenticate(r, u) PROVE db' = db
  BY <1>1 DEF authenticate
<1>2. ASSUME NEW r, NEW u, NEW role, NEW o, NEW d,
             create_user(r, u, role, o, d)
      PROVE  db' = db
  BY <1>2 DEF create_user, Flush
<1>3. ASSUME NEW r, NEW u, NEW role, NEW o, NEW d, NEW name,
             create_user_and_designation(r, u, role, o, d, name)
      PROVE  db' = db
  BY <1>3 DEF create_user_and_designation, Flush
<1>4. ASSUME NEW r, NEW u, NEW role, NEW status, NEW d,
             update_user(r, u, role, status, d)
      PROVE  db' = db
  BY <1>4 DEF update_user, Flush
<1>5. ASSUME NEW r, NEW u, delete_user(r, u) PROVE db' = db
  BY <1>5 DEF delete_user, Flush
<1>6. ASSUME NEW r, NEW d, NEW name, create_designation(r, d, name) PROVE db' = db
  BY <1>6 DEF create_designation, Flush
<1>7. ASSUME NEW r, NEW d, NEW name, update_designation(r, d, name) PROVE db' = db
  BY <1>7 DEF update_designation, Flush
<1>8. ASSUME NEW r, NEW d, delete_designation(r, d) PROVE db' = db
  BY <1>8 DEF delete_designation, Flush
<1>9. ASSUME NEW r, NEW o, NEW u, create_organization(r, o, u) PROVE db' = db
  BY <1>9 DEF create_organization, Flush
<1>10. ASSUME NEW r, NEW o, NEW status, update_organization(r, o, status) PROVE db' = db
  BY <1>10 DEF update_organization, Flush
<1>11. ASSUME NEW r, NEW o, delete_organization(r, o) PROVE db' = db
  BY <1>11 DEF delete_organization, Flush
<1>12. ASSUME NEW r, rollback(r) PROVE db' = db
  BY <1>12 DEF rollback
<1>13. CASE UNCHANGED vars
  BY <1>13 DEF vars
<1>14. CASE Next
  BY <1>1, <1>2, <1>3, <1>4, <1>5, <1>6, <1>7, <1>8, <1>9, <1>10, <1>11, <1>12, <1>14
  DEF Next, Used
<1> QED
  BY <1>13, <1>14

\* However requests interleave, a soft-deleted row stays deleted: a request that
\* loaded it before and updates it afterwards writes other columns.
THEOREM RowsStayDeleted == Spec => DeletedForGood
<1> DEFINE Kept == \A x \in DOMAIN db : (db[x].exists /\ db[x].deleted)
                                          => (db'[x].exists /\ db'[x].deleted)
<1>1. ASSUME AccountsInv, [Next /\ UNCHANGED scope]_vars
      PROVE  Kept
  <2>1. CASE db' = db
    BY <2>1
  <2>2. ASSUME NEW r \in Requests, commit(r)
        PROVE  Kept
    <3>1. \A x \in Rows : Deleted(db[x]) => Deleted(db'[x])
      BY <1>1, <2>2, CommittedRows DEF Deleted
    <3> QED
      BY <1>1, <3>1 DEF AccountsInv, Deleted
  <2> QED
    BY <1>1, <2>1, <2>2, OnlyCommits
<1>2. AccountsInv /\ [Next /\ UNCHANGED scope]_vars => [Kept]_db
  BY <1>1
<1> QED
  BY <1>2, AccountsInvariant, PTL DEF Spec, DeletedForGood

\* However requests interleave, only a super admin's request makes a super admin.
THEOREM OnlySuperAdminsPromote == Spec => NoEscalation
<1> DEFINE Promoted(u) == /\ Live(db'[u]) /\ db'[u].role = "super_admin"
                          /\ ~db[u].exists \/ db[u].role # "super_admin"
           By(u) == \E r \in Requests : u \in DOMAIN write[r] /\ IsSuper(r)
<1>1. ASSUME AccountsInv, [Next /\ UNCHANGED scope]_vars, NEW u \in Users, Promoted(u)
      PROVE  By(u)
  <2>1. db'[u].exists /\ db' # db
    BY <1>1 DEF Live
  <2>2. PICK r \in Requests : commit(r)
    BY <1>1, <2>1, OnlyCommits
  <2>3. u \in Rows
    BY DEF Rows
  <2>4. u \in DOMAIN write[r]
    BY <1>1, <2>1, <2>2, <2>3, CommittedRow
  <2>5. Authorized(r, u, write[r][u])
    BY <1>1, <2>4 DEF AccountsInv, WritesOK
  <2>6. CASE Insert(write[r][u])
    <3>1. db'[u] = write[r][u] /\ RowOK(u, write[r][u])
      BY <1>1, <2>2, <2>3, <2>4, <2>6, CommittedRow
    <3>2. DOMAIN write[r][u] = {"exists", "deleted", "org", "role", "status",
                                "designation"}
      BY <2>3, <3>1, RowFields
    <3>3. write[r][u]["role"] = "super_admin"
      BY <1>1, <3>1
    <3> QED
      BY <2>4, <2>5, <3>2, <3>3 DEF Authorized
  <2>7. CASE ~Insert(write[r][u])
    <3>1. /\ db'[u] = write[r][u] @@ db[u] /\ db[u].exists /\ RowOK(u, db[u])
      BY <1>1, <2>2, <2>3, <2>4, <2>7, CommittedRow
    <3>2. DOMAIN db[u] = {"exists", "deleted", "org", "role", "status", "designation"}
      BY <2>3, <3>1, RowFields
    <3>3. CASE "role" \in DOMAIN write[r][u]
      <4>1. write[r][u]["role"] = "super_admin"
        BY <1>1, <3>1, <3>3 DEF @@
      <4> QED
        BY <2>4, <2>5, <3>3, <4>1 DEF Authorized
    <3>4. CASE "role" \notin DOMAIN write[r][u]
      <4>1. db'[u].role = db[u].role
        BY <3>1, <3>2, <3>4 DEF @@
      <4> QED
        BY <1>1, <3>1, <4>1
    <3> QED
      BY <3>3, <3>4
  <2> QED
    BY <2>6, <2>7
<1>2. AccountsInv /\ [Next /\ UNCHANGED scope]_vars
        => [\A u \in Users : Promoted(u) => By(u)]_vars
  BY <1>1
<1> QED
  BY <1>2, AccountsInvariant, PTL DEF Spec, NoEscalation

\* However requests interleave, users and designations are changed by their own
\* organization, or by a super admin.
THEOREM TenantsIsolated == Spec => TenantIsolation
<1> DEFINE By(x) == \E r \in Requests : /\ x \in DOMAIN write[r]
                                        /\ assert_same_organization(r, db'[x].org)
<1>1. ASSUME AccountsInv, [Next /\ UNCHANGED scope]_vars, NEW x \in Users \union Designations,
             db'[x] # db[x]
      PROVE  By(x)
  <2>1. PICK r \in Requests : commit(r)
    BY <1>1, OnlyCommits
  <2>2. x \in Rows /\ x \in Owned
    BY DEF Rows, Owned
  <2>3. x \in DOMAIN write[r]
    BY <1>1, <2>1, <2>2, CommittedRow
  <2>4. IsSuper(r) \/ (IF Insert(write[r][x]) THEN write[r][x].org ELSE db[x].org) = Me(r).org
    BY <1>1, <2>2, <2>3 DEF AccountsInv, WritesOK, Authorized
  <2>5. CASE Insert(write[r][x])
    <3>1. db'[x] = write[r][x]
      BY <1>1, <2>1, <2>2, <2>3, <2>5, CommittedRow
    <3> QED
      BY <2>3, <2>4, <2>5, <3>1 DEF assert_same_organization
  <2>6. CASE ~Insert(write[r][x])
    <3>1. db[x].exists
      BY <1>1, <2>1, <2>2, <2>3, <2>6, CommittedRow
    <3>2. db'[x].org = db[x].org
      BY <1>1, <2>1, <2>2, <3>1, CommittedRows
    <3> QED
      BY <2>3, <2>4, <2>6, <3>2 DEF assert_same_organization
  <2> QED
    BY <2>5, <2>6
<1>2. AccountsInv /\ [Next /\ UNCHANGED scope]_vars
        => [\A x \in Users \union Designations : db'[x] # db[x] => By(x)]_vars
  BY <1>1
<1> QED
  BY <1>2, AccountsInvariant, PTL DEF Spec, TenantIsolation

-------------------------------------------------------------------------------
(* Requests that do not interleave                                         *)

LEMMA MergedNothing ==
  ASSUME NEW D, D = [x \in Rows |-> D[x]]
  PROVE  Merged(D, Nothing) = D
BY NothingIsEmpty DEF Merged

\* What one row makes of the database.
LEMMA MergedOne ==
  ASSUME AccountsInv, NEW x \in Rows, NEW w
  PROVE  /\ \A y \in Rows \ {x} : Merged(db, x :> w)[y] = db[y]
         /\ Merged(db, x :> w)[x] = w @@ db[x]
BY DEF Merged, AccountsInv, :>

\* A row that is not there yet is inserted as it is written.
LEMMA MergedInsert ==
  ASSUME AccountsInv, NEW x \in Rows, ~db[x].exists, NEW w, WriteOK(x, w), Insert(w)
  PROVE  w @@ db[x] = w
<1>1. db[x] = Absent
  BY RowFields DEF AccountsInv, RowsOK
<1> QED
  BY <1>1, InsertedRow DEF WriteOK

\* Designations stay in order when those that users have stay, and the one user
\* that changes, if any, has one in order.
LEMMA DesignationsStay ==
  ASSUME AccountsInv, DesignationsOK(db), NEW M, NEW u,
         \A v \in Users \ {u} : M[v] = db[v],
         \A e \in Designations :
           Present(e) /\ (\E v \in Users \ {u} : Present(v) /\ db[v].designation = e)
             => Live(M[e]) /\ M[e].org = db[e].org,
         u \in Users /\ Live(M[u]) /\ M[u].designation # None
           => Live(M[M[u].designation]) /\ M[M[u].designation].org = M[u].org
  PROVE  DesignationsOK(M)
<1> SUFFICES ASSUME NEW v \in Users, Live(M[v]), M[v].designation # None
             PROVE  Live(M[M[v].designation]) /\ M[M[v].designation].org = M[v].org
  BY DEF DesignationsOK
<1>1. CASE v = u
  BY <1>1
<1>2. CASE v # u
  <2>1. M[v] = db[v] /\ Present(v) /\ db[v].exists /\ v \in Rows
    BY <1>2 DEF Present, Live, Rows
  <2>2. db[v].designation \in Designations
    BY <2>1, ExistingRow, RowFields DEF MaybeNone
  <2>3. Present(db[v].designation) /\ db[db[v].designation].org = db[v].org
    BY <2>1 DEF DesignationsOK, Present
  <2> QED
    BY <1>2, <2>1, <2>2, <2>3
<1> QED
  BY <1>1, <1>2

\* An organization keeps an admin when the one user that changes, if any, stays
\* one or is not the last.
LEMMA AdminsStay ==
  ASSUME NEW M, NEW u,
         \A v \in Users \ {u} : M[v] = db[v],
         \A o \in Orgs : u \in Users /\ ActiveAdmin(u, o)
           => AdminIn(M, u, o) \/ \E v \in Users \ {u} : ActiveAdmin(v, o)
  PROVE  AdminsKept(M)
<1> SUFFICES ASSUME NEW o \in Orgs, NEW v \in Users, ActiveAdmin(v, o)
             PROVE  \E x \in Users : AdminIn(M, x, o)
  BY DEF AdminsKept, HasAdmin
<1>1. \A x \in Users \ {u} : ActiveAdmin(x, o) => AdminIn(M, x, o)
  BY DEF ActiveAdmin, AdminIn, Present
<1> QED
  BY <1>1

\* Who counts as another admin.
LEMMA AnotherAdmin ==
  ASSUME NEW u \in Users, NEW row, assert_not_last_admin(u, row), NEW o \in Orgs,
         row.org = o, row.role = "admin", row.status = "active"
  PROVE  \E v \in Users \ {u} : ActiveAdmin(v, o)
<1> DEFINE S == {v \in Users \ {u} : ActiveAdmin(v, o)}
<1>1. Cardinality(S) > 0
  BY Tables DEF assert_not_last_admin, count_active_admins, Rows
<1>2. S # {}
  BY <1>1, FS_EmptySet
<1> QED
  BY <1>2

LEMMA Unassigned ==
  ASSUME NEW d, count_assigned_users(d) = 0
  PROVE  \A u \in Users : ~(Present(u) /\ db[u].designation = d)
<1> DEFINE S == {u \in Users : Present(u) /\ db[u].designation = d}
<1>1. IsFiniteSet(S)
  BY FS_Subset, AccountsAssumption
<1>2. S = {}
  BY <1>1, FS_EmptySet DEF count_assigned_users
<1> QED
  BY <1>2

\* A request finds the rows as they are.
LEMMA SerialLoaded ==
  ASSUME SerialInv, Serial, NEW r \in Requests, NEW x
  PROVE  Loaded(r, x) = db[x]
BY DEF SerialInv, Loaded

LEMMA SerialFlush ==
  ASSUME AccountsInv, SerialInv, NEW r \in Requests, NEW rows, Flush(r, rows),
         UNCHANGED scope,
         Serial => /\ \A x \in DOMAIN rows : Insert(rows[x]) => ~db[x].exists
                   /\ DesignationsOK(Merged(db, rows)) /\ AdminsKept(Merged(db, rows))
  PROVE  SerialInv'
<1>1. /\ db' = db /\ caller' = caller /\ loaded' = loaded
      /\ write'[r] = rows
      /\ \A q \in Requests \ {r} : write'[q] = write[q]
  BY FlushEffect DEF AccountsInv
<1>2. Serial' = Serial /\ Used(Requests)' = Used(Requests)
  BY DEF Serial, Used
<1>3. \A q \in Requests \ {r} : Written(q)' = Written(q)
  BY <1>1 DEF Written
<1>4. Written(r)' = Merged(db, rows)
  BY <1>1 DEF Written, Merged
<1>5. ASSUME Serial
      PROVE  /\ \A q \in Requests : \A x \in DOMAIN loaded'[q] : loaded'[q][x] = db'[x]
             /\ DesignationsOK(db')
  BY <1>1, <1>5 DEF SerialInv
<1>6. ASSUME Serial, NEW q \in Requests
      PROVE  /\ \A x \in DOMAIN write'[q] : Insert(write'[q][x]) => ~db'[x].exists
             /\ DesignationsOK(Written(q)') /\ AdminsKept(Written(q)')
  <2>1. CASE q = r
    BY <1>1, <1>4, <1>6, <2>1
  <2>2. CASE q # r
    BY <1>1, <1>3, <1>6, <2>2 DEF SerialInv
  <2> QED
    BY <2>1, <2>2
<1>7. \A q \in Requests : AdminsKept(Written(q)') = AdminsKept(Written(q))'
  BY <1>1 DEF AdminsKept, HasAdmin, ActiveAdmin, AdminIn, Present
<1>8. \A q \in Requests : DesignationsOK(Written(q)') = DesignationsOK(Written(q))'
  BY DEF DesignationsOK
<1>9. DesignationsOK(db') = DesignationsOK(db)'
  BY DEF DesignationsOK
<1> QED
  BY <1>1, <1>2, <1>5, <1>6, <1>7, <1>8, <1>9 DEF SerialInv

\* A request that writes one row.
LEMMA SerialFlushOne ==
  ASSUME AccountsInv, SerialInv, NEW r \in Requests, NEW x, NEW w, Flush(r, x :> w),
         UNCHANGED scope,
         Serial => /\ Insert(w) => ~db[x].exists
                   /\ DesignationsOK(Merged(db, x :> w)) /\ AdminsKept(Merged(db, x :> w))
  PROVE  SerialInv'
<1> DEFINE rows == x :> w
<1>1. DOMAIN rows = {x} /\ rows[x] = w
  BY OneRow
<1>2. Flush(r, rows)
  OBVIOUS
<1>3. Serial => DesignationsOK(Merged(db, rows)) /\ AdminsKept(Merged(db, rows))
  OBVIOUS
<1> HIDE DEF rows
<1> QED
  BY <1>1, <1>2, <1>3, SerialFlush

LEMMA SerialInitially == Init => SerialInv
<1> SUFFICES ASSUME Init PROVE SerialInv
  OBVIOUS
<1>1. /\ db = [x \in Rows |-> db[x]]
      /\ \A x \in Rows : db[x] = IF x = Root THEN NewUser(None, "super_admin", None) ELSE Absent
  BY DEF Init
<1>2. \A r \in Requests : caller[r] = None /\ loaded[r] = Nothing /\ write[r] = Nothing
  BY DEF Init, Idle
<1>3. \A r \in Requests : Written(r) = db
  BY <1>1, <1>2, MergedNothing DEF Written, Merged
<1>4. DesignationsOK(db)
  BY <1>1 DEF DesignationsOK, NewUser, Absent, Live, Rows
<1>5. \A r \in Requests : DesignationsOK(Written(r)) /\ AdminsKept(Written(r))
  BY <1>3, <1>4 DEF AdminsKept, HasAdmin, ActiveAdmin, AdminIn, Present
<1> QED
  BY <1>1, <1>2, <1>4, <1>5, NothingIsEmpty DEF SerialInv, Used

LEMMA SerialAuthenticate ==
  ASSUME AccountsInv, SerialInv, NEW r \in Used(Requests), NEW u \in Users,
         authenticate(r, u), UNCHANGED scope
  PROVE  SerialInv'
<1>1. /\ caller'[r] = u /\ db' = db /\ write' = write
      /\ \A x \in DOMAIN loaded'[r] : loaded'[r][x] = db[x]
      /\ \A q \in Requests \ {r} : caller'[q] = caller[q] /\ loaded'[q] = loaded[q]
  BY AuthenticateStep DEF Used
<1>2. Serial' = Serial /\ Used(Requests)' = Used(Requests)
  BY DEF Serial, Used
<1>3. \A q \in Requests : Written(q)' = Written(q)
  BY <1>1 DEF Written
<1>4. \A q \in Requests : /\ AdminsKept(Written(q))' = AdminsKept(Written(q))
                          /\ DesignationsOK(Written(q))' = DesignationsOK(Written(q))
  BY <1>1, <1>3 DEF AdminsKept, HasAdmin, ActiveAdmin, AdminIn, Present, DesignationsOK
<1>5. DesignationsOK(db)' = DesignationsOK(db)
  BY <1>1 DEF DesignationsOK
<1>6. \A q \in Requests \ Used(Requests) : caller'[q] = None
  BY <1>1 DEF SerialInv
<1> QED
  BY <1>1, <1>2, <1>4, <1>5, <1>6 DEF SerialInv

\* The end of a transaction.
LEMMA SerialDone ==
  ASSUME AccountsInv, SerialInv, NEW r \in Used(Requests), Done(r), UNCHANGED scope,
         db' = db \/ db' = Written(r)
  PROVE  SerialInv'
<1>1. r \in Requests /\ Serial' = Serial /\ Used(Requests)' = Used(Requests)
  BY DEF Serial, Used
<1>2. /\ caller'[r] = None /\ loaded'[r] = Nothing /\ write'[r] = Nothing
      /\ \A q \in Requests \ {r} : /\ caller'[q] = caller[q] /\ loaded'[q] = loaded[q]
                                   /\ write'[q] = write[q]
  BY <1>1, DoneEffect DEF AccountsInv
<1>3. db' = [x \in Rows |-> db'[x]]
  BY DEF SerialInv, AccountsInv, Written
<1>4. \A q \in Requests \ Used(Requests) : caller'[q] = None
  BY <1>2 DEF SerialInv
<1>5. ASSUME Serial
      PROVE  /\ DesignationsOK(db')
             /\ \A q \in Requests : loaded'[q] = Nothing /\ write'[q] = Nothing
  <2>1. DesignationsOK(db')
    BY <1>1, <1>5 DEF SerialInv
  <2>2. \A q \in Requests \ {r} : caller[q] = None
    BY <1>5, SerialRequest DEF SerialInv
  <2> QED
    BY <1>2, <2>1, <2>2 DEF AccountsInv, CallersOK
<1>6. ASSUME Serial, NEW q \in Requests
      PROVE  Written(q)' = db'
  BY <1>3, <1>5, <1>6, MergedNothing DEF Written, Merged
<1>7. ASSUME Serial, NEW q \in Requests
      PROVE  DesignationsOK(Written(q))' /\ AdminsKept(Written(q))'
  BY <1>5, <1>6, <1>7
  DEF DesignationsOK, AdminsKept, HasAdmin, ActiveAdmin, AdminIn, Present
<1>8. DesignationsOK(db') = DesignationsOK(db)'
  BY DEF DesignationsOK
<1> QED
  BY <1>1, <1>3, <1>4, <1>5, <1>7, <1>8, NothingIsEmpty DEF SerialInv

LEMMA SerialCreateUser ==
  ASSUME AccountsInv, SerialInv, NEW r \in Requests, NEW u \in Users, NEW role \in UserRole,
         NEW o \in Orgs, NEW d \in MaybeNone(Designations), create_user(r, u, role, o, d),
         UNCHANGED scope
  PROVE  SerialInv'
<1> DEFINE w == NewUser(o, role, d)
           M == Merged(db, u :> w)
<1>1. /\ ~db[u].exists /\ Flush(r, u :> w)
      /\ d # None => Live(Loaded(r, d)) /\ Loaded(r, d).org = o
  BY DEF create_user, validate_designation
<1>2. ASSUME Serial
      PROVE  DesignationsOK(M) /\ AdminsKept(M)
  <2>1. /\ u \in Rows /\ WriteOK(u, w) /\ Insert(w)
        /\ w.org = o /\ w.designation = d
    BY NewUserWritten DEF MaybeNone, Rows, NewUser
  <2> HIDE DEF w
  <2>2. M[u] = w /\ \A y \in Rows \ {u} : M[y] = db[y]
    BY <1>1, <2>1, MergedOne, MergedInsert
  <2> HIDE DEF M
  <2>3. DesignationsOK(db)
    BY <1>2 DEF SerialInv
  <2>4. \A v \in Users \ {u} : M[v] = db[v]
    BY <2>2 DEF Rows
  <2>5. \A e \in Designations : M[e] = db[e]
    BY <2>2, Tables DEF Rows
  <2>6. d # None => d \in Designations /\ Live(db[d]) /\ db[d].org = o
    BY <1>1, <1>2, SerialLoaded DEF MaybeNone
  <2>7. \A p \in Orgs : ~ActiveAdmin(u, p)
    BY <1>1 DEF ActiveAdmin, Present, Live
  <2>8. DesignationsOK(M)
    BY <2>1, <2>2, <2>3, <2>4, <2>5, <2>6, DesignationsStay DEF Present
  <2>9. AdminsKept(M)
    BY <2>4, <2>7, AdminsStay
  <2> QED
    BY <2>8, <2>9
<1> HIDE DEF w
<1> QED
  BY <1>1, <1>2, SerialFlushOne

LEMMA SerialCreateUserAndDesignation ==
  ASSUME AccountsInv, SerialInv, NEW r \in Requests, NEW u \in Users, NEW role \in UserRole,
         NEW o \in Orgs, NEW d \in Designations, NEW name \in Names,
         create_user_and_designation(r, u, role, o, d, name), UNCHANGED scope
  PROVE  SerialInv'
<1> DEFINE w == NewUser(o, role, d)
           v == NewDesignation(o, name)
           rows == u :> w @@ d :> v
           M == Merged(db, rows)
<1>1. ~db[u].exists /\ ~db[d].exists /\ Flush(r, rows)
  BY DEF create_user_and_designation, NewId
<1>2. /\ u \in Rows /\ WriteOK(u, w) /\ Insert(w)
      /\ w.org = o /\ w.designation = d
  BY NewUserWritten DEF MaybeNone, Rows, NewUser
<1>3. /\ d \in Rows /\ WriteOK(d, v) /\ Insert(v)
      /\ v.org = o /\ Live(v)
  BY NewDesignationWritten DEF Rows, NewDesignation, Live
<1> HIDE DEF w, v
<1>4. DOMAIN rows = {u, d} /\ rows[u] = w /\ rows[d] = v
  BY Tables DEF :>, @@
<1> HIDE DEF rows
<1>5. ASSUME Serial
      PROVE  DesignationsOK(M) /\ AdminsKept(M)
  <2>1. /\ M[u] = w @@ db[u] /\ M[d] = v @@ db[d]
        /\ \A y \in Rows \ {u, d} : M[y] = db[y]
    BY <1>2, <1>3, <1>4 DEF Merged, AccountsInv
  <2>2. M[u] = w /\ M[d] = v
    BY <1>1, <1>2, <1>3, <2>1, MergedInsert
  <2> HIDE DEF M
  <2>3. DesignationsOK(db)
    BY <1>5 DEF SerialInv
  <2>4. \A x \in Users \ {u} : M[x] = db[x]
    BY <2>1, Tables DEF Rows
  <2>5. \A e \in Designations : Present(e) => M[e] = db[e]
    BY <1>1, <2>1, Tables DEF Rows, Present, Live
  <2>6. \A p \in Orgs : ~ActiveAdmin(u, p)
    BY <1>1 DEF ActiveAdmin, Present, Live
  <2>7. DesignationsOK(M)
    BY <1>2, <1>3, <2>2, <2>3, <2>4, <2>5, DesignationsStay DEF Present
  <2>8. AdminsKept(M)
    BY <2>4, <2>6, AdminsStay
  <2> QED
    BY <2>7, <2>8
<1>6. \A x \in DOMAIN rows : ~db[x].exists
  BY <1>1, <1>4
<1> QED
  BY <1>1, <1>5, <1>6, SerialFlush

LEMMA SerialUpdateUser ==
  ASSUME AccountsInv, SerialInv, NEW r \in Requests, NEW u \in Users, NEW role \in UserRole,
         NEW status \in {"active", "suspended"}, NEW d \in MaybeNone(Designations),
         update_user(r, u, role, status, d), UNCHANGED scope
  PROVE  SerialInv'
<1> DEFINE row == Loaded(r, u)
           new == [role |-> role, status |-> status, designation |-> d]
           w == Changes(row, new)
           M == Merged(db, u :> w)
<1>1. /\ Live(row) /\ Flush(r, u :> w)
      /\ (role # row.role \/ status # row.status) /\ (role # "admin" \/ status # "active")
           => assert_not_last_admin(u, row)
      /\ d \notin {None, row.designation} => Live(Loaded(r, d)) /\ Loaded(r, d).org = row.org
  BY DEF update_user, validate_designation
<1>2. DOMAIN new = {"role", "status", "designation"}
  OBVIOUS
<1>3. new.role = role /\ new.status = status /\ new.designation = d
  OBVIOUS
<1> HIDE DEF new, row
<1>4. /\ DOMAIN w = {f \in DOMAIN new : new[f] # row[f]}
      /\ \A f \in DOMAIN w : w[f] = new[f]
  BY DEF Changes
<1>5. ~Insert(w)
  BY <1>2, <1>4 DEF Insert
<1> HIDE DEF w
<1>6. ASSUME Serial
      PROVE  DesignationsOK(M) /\ AdminsKept(M)
  <2>1. row = db[u] /\ u \in Rows /\ db[u].exists
    BY <1>1, <1>6, SerialLoaded DEF row, Rows, Live
  <2>2. DOMAIN db[u] = {"exists", "deleted", "org", "role", "status", "designation"}
    BY <2>1, ExistingRow, RowFields
  <2>3. M[u] = w @@ db[u] /\ \A y \in Rows \ {u} : M[y] = db[y]
    BY <2>1, MergedOne
  <2> HIDE DEF M
  <2>4. /\ M[u].role = role /\ M[u].status = status /\ M[u].designation = d
        /\ M[u].org = db[u].org
    BY <1>2, <1>3, <1>4, <2>1, <2>2, <2>3 DEF @@
  <2>5. Live(M[u])
    <3>1. M[u].exists = db[u].exists /\ M[u].deleted = db[u].deleted
      BY <1>2, <1>4, <2>2, <2>3 DEF @@
    <3> QED
      BY <1>1, <2>1, <3>1 DEF Live
  <2>6. DesignationsOK(db)
    BY <1>6 DEF SerialInv
  <2>7. \A v \in Users \ {u} : M[v] = db[v]
    BY <2>3 DEF Rows
  <2>8. \A e \in Designations : M[e] = db[e]
    BY <2>3, Tables DEF Rows
  <2>9. d # None => d \in Designations /\ Live(db[d]) /\ db[d].org = db[u].org
    <3>1. CASE d = db[u].designation
      BY <1>1, <2>1, <2>6, <3>1 DEF DesignationsOK, MaybeNone
    <3>2. CASE d # db[u].designation
      BY <1>1, <1>6, <2>1, <3>2, SerialLoaded DEF MaybeNone
    <3> QED
      BY <3>1, <3>2
  <2>10. DesignationsOK(M)
    BY <2>4, <2>6, <2>7, <2>8, <2>9, DesignationsStay DEF Present
  <2>11. ASSUME NEW o \in Orgs, ActiveAdmin(u, o)
         PROVE  AdminIn(M, u, o) \/ \E v \in Users \ {u} : ActiveAdmin(v, o)
    <3>1. row.org = o /\ row.role = "admin" /\ row.status = "active"
      BY <2>1, <2>11 DEF ActiveAdmin
    <3>2. CASE role = "admin" /\ status = "active"
      BY <2>1, <2>4, <2>5, <3>1, <3>2 DEF AdminIn
    <3>3. CASE role # "admin" \/ status # "active"
      <4>1. assert_not_last_admin(u, row)
        BY <1>1, <3>1, <3>3
      <4> QED
        BY <3>1, <4>1, AnotherAdmin
    <3> QED
      BY <3>2, <3>3
  <2>12. AdminsKept(M)
    BY <2>7, <2>11, AdminsStay
  <2> QED
    BY <2>10, <2>12
<1> QED
  BY <1>1, <1>5, <1>6, SerialFlushOne

LEMMA SerialDeleteUser ==
  ASSUME AccountsInv, SerialInv, NEW r \in Requests, NEW u \in Users, delete_user(r, u),
         UNCHANGED scope
  PROVE  SerialInv'
<1> DEFINE w == [deleted |-> TRUE]
           M == Merged(db, u :> w)
<1>1. /\ db[u].exists /\ Flush(r, u :> w)
      /\ assert_not_last_admin(u, db[u])
  BY DEF delete_user, Present, Live
<1>2. DOMAIN w = {"deleted"} /\ w.deleted = TRUE /\ ~Insert(w)
  BY DEF Insert
<1> HIDE DEF w
<1>3. ASSUME Serial
      PROVE  DesignationsOK(M) /\ AdminsKept(M)
  <2>1. u \in Rows /\ M[u] = w @@ db[u] /\ \A y \in Rows \ {u} : M[y] = db[y]
    BY MergedOne DEF Rows
  <2> HIDE DEF M
  <2>2. ~Live(M[u])
    BY <1>2, <2>1 DEF @@, Live
  <2>3. DesignationsOK(db)
    BY <1>3 DEF SerialInv
  <2>4. \A v \in Users \ {u} : M[v] = db[v]
    BY <2>1 DEF Rows
  <2>5. \A e \in Designations : M[e] = db[e]
    BY <2>1, Tables DEF Rows
  <2>6. DesignationsOK(M)
    BY <2>2, <2>3, <2>4, <2>5, DesignationsStay DEF Present
  <2>7. ASSUME NEW o \in Orgs, ActiveAdmin(u, o)
        PROVE  \E v \in Users \ {u} : ActiveAdmin(v, o)
    BY <1>1, <2>7, AnotherAdmin DEF ActiveAdmin
  <2>8. AdminsKept(M)
    BY <2>4, <2>7, AdminsStay
  <2> QED
    BY <2>6, <2>8
<1> QED
  BY <1>1, <1>2, <1>3, SerialFlushOne

\* A designation or an organization changes, and no designation that a user has
\* goes.
LEMMA UsersStay ==
  ASSUME AccountsInv, SerialInv, Serial, NEW x \in Designations \union Orgs, NEW w,
         x \in Designations /\ Present(x)
           => \/ Live(w @@ db[x]) /\ (w @@ db[x]).org = db[x].org
              \/ \A u \in Users : ~(Present(u) /\ db[u].designation = x)
  PROVE  DesignationsOK(Merged(db, x :> w)) /\ AdminsKept(Merged(db, x :> w))
<1> DEFINE M == Merged(db, x :> w)
<1>1. x \in Rows /\ None \notin Users
  BY Tables DEF Rows
<1>2. M[x] = w @@ db[x] /\ \A y \in Rows \ {x} : M[y] = db[y]
  BY <1>1, MergedOne
<1> HIDE DEF M
<1>3. \A v \in Users : M[v] = db[v]
  BY <1>2, Tables DEF Rows
<1>4. ASSUME NEW e \in Designations, Present(e),
             NEW v \in Users, Present(v), db[v].designation = e
      PROVE  Live(M[e]) /\ M[e].org = db[e].org
  <2>1. CASE e = x
    BY <1>2, <1>4, <2>1
  <2>2. CASE e # x
    BY <1>2, <1>4, <2>2 DEF Rows, Present
  <2> QED
    BY <2>1, <2>2
<1>5. DesignationsOK(M)
  <2>1. DesignationsOK(db)
    BY DEF SerialInv
  <2>2. \A v \in Users \ {None} : M[v] = db[v]
    BY <1>3
  <2>3. \A e \in Designations :
          Present(e) /\ (\E v \in Users \ {None} : Present(v) /\ db[v].designation = e)
            => Live(M[e]) /\ M[e].org = db[e].org
    BY <1>4
  <2> QED
    BY <1>1, <2>1, <2>2, <2>3, DesignationsStay
<1>6. AdminsKept(M)
  BY <1>1, <1>3, AdminsStay
<1> QED
  BY <1>5, <1>6 DEF M

LEMMA SerialCreateDesignation ==
  ASSUME AccountsInv, SerialInv, NEW r \in Requests, NEW d \in Designations,
         NEW name \in Names, create_designation(r, d, name), UNCHANGED scope
  PROVE  SerialInv'
<1> DEFINE w == NewDesignation(Me(r).org, name)
<1>1. ~db[d].exists /\ Flush(r, d :> w)
  BY DEF create_designation, NewId
<1> HIDE DEF w
<1>2. Serial => DesignationsOK(Merged(db, d :> w)) /\ AdminsKept(Merged(db, d :> w))
  BY <1>1, UsersStay DEF Present, Live
<1> QED
  BY <1>1, <1>2, SerialFlushOne

LEMMA SerialUpdateDesignation ==
  ASSUME AccountsInv, SerialInv, NEW r \in Requests, NEW d \in Designations,
         NEW name \in Names, update_designation(r, d, name), UNCHANGED scope
  PROVE  SerialInv'
<1> DEFINE w == [name |-> name]
<1>1. Present(d) /\ Flush(r, d :> w)
  BY DEF update_designation
<1>2. DOMAIN w = {"name"} /\ ~Insert(w)
  BY DEF Insert
<1> HIDE DEF w
<1>3. DOMAIN db[d] = {"exists", "deleted", "org", "name"}
  BY <1>1, ExistingRow, RowFields DEF Present, Live, Rows
<1>4. (w @@ db[d]).org = db[d].org
  BY <1>2, <1>3 DEF @@
<1>5. (w @@ db[d]).exists = db[d].exists /\ (w @@ db[d]).deleted = db[d].deleted
  BY <1>2, <1>3 DEF @@
<1>6. Live(w @@ db[d])
  BY <1>1, <1>5 DEF Live, Present
<1>7. Serial => DesignationsOK(Merged(db, d :> w)) /\ AdminsKept(Merged(db, d :> w))
  BY <1>4, <1>6, UsersStay
<1> QED
  BY <1>1, <1>2, <1>7, SerialFlushOne

LEMMA SerialDeleteDesignation ==
  ASSUME AccountsInv, SerialInv, NEW r \in Requests, NEW d \in Designations,
         delete_designation(r, d), UNCHANGED scope
  PROVE  SerialInv'
<1> DEFINE w == [deleted |-> TRUE]
<1>1. count_assigned_users(d) = 0 /\ Flush(r, d :> w)
  BY DEF delete_designation
<1>2. ~Insert(w)
  BY DEF Insert
<1> HIDE DEF w
<1>3. \A u \in Users : ~(Present(u) /\ db[u].designation = d)
  BY <1>1, Unassigned
<1>4. Serial => DesignationsOK(Merged(db, d :> w)) /\ AdminsKept(Merged(db, d :> w))
  BY <1>3, UsersStay
<1> QED
  BY <1>1, <1>2, <1>4, SerialFlushOne

LEMMA SerialCreateOrganization ==
  ASSUME AccountsInv, SerialInv, NEW r \in Requests, NEW o \in Orgs,
         NEW u \in MaybeNone(Users), create_organization(r, o, u), UNCHANGED scope
  PROVE  SerialInv'
<1> DEFINE w == NewUser(o, "admin", None)
           rows == [x \in {o, u} \ {None} |-> IF x = o THEN NewOrg ELSE w]
           M == Merged(db, rows)
<1>1. ~db[o].exists /\ (u # None => ~db[u].exists) /\ Flush(r, rows)
  BY DEF create_organization
<1>2. DOMAIN rows = {o, u} \ {None} /\ (u # None /\ u # o => rows[u] = w)
  OBVIOUS
<1>3. ASSUME u # None
      PROVE  /\ u \in Rows /\ u \in Users /\ u # o /\ WriteOK(u, w) /\ Insert(w)
             /\ w.designation = None
  BY <1>3, NewUserWritten, Tables DEF MaybeNone, UserRole, Rows, NewUser
<1> HIDE DEF w, rows
<1>4. ASSUME Serial
      PROVE  DesignationsOK(M) /\ AdminsKept(M)
  <2>1. \A y \in Rows \ {o, u} : M[y] = db[y]
    BY <1>2 DEF Merged, AccountsInv
  <2>2. u # None => M[u] = w @@ db[u]
    BY <1>2, <1>3 DEF Merged, AccountsInv
  <2>3. u # None => M[u].designation = None
    BY <1>1, <1>3, <2>2, MergedInsert
  <2> HIDE DEF M
  <2>4. DesignationsOK(db)
    BY <1>4 DEF SerialInv
  <2>5. \A v \in Users \ {u} : M[v] = db[v]
    BY <2>1, Tables DEF Rows
  <2>6. \A e \in Designations : M[e] = db[e]
    BY <2>1, Tables DEF Rows, MaybeNone
  <2>7. u \in Users => u # None /\ \A p \in Orgs : ~ActiveAdmin(u, p)
    BY <1>1, Tables DEF ActiveAdmin, Present, Live, Rows
  <2>8. DesignationsOK(M)
    BY <2>3, <2>4, <2>5, <2>6, <2>7, DesignationsStay DEF Present
  <2>9. AdminsKept(M)
    BY <2>5, <2>7, AdminsStay
  <2> QED
    BY <2>8, <2>9
<1>5. \A x \in DOMAIN rows : ~db[x].exists
  BY <1>1, <1>2
<1> QED
  BY <1>1, <1>4, <1>5, SerialFlush

LEMMA SerialUpdateOrganization ==
  ASSUME AccountsInv, SerialInv, NEW r \in Requests, NEW o \in Orgs,
         NEW status \in {"active", "suspended"}, update_organization(r, o, status),
         UNCHANGED scope
  PROVE  SerialInv'
<1> DEFINE w == [status |-> status]
<1>1. Flush(r, o :> w)
  BY DEF update_organization
<1>2. ~Insert(w)
  BY DEF Insert
<1> HIDE DEF w
<1>3. Serial => DesignationsOK(Merged(db, o :> w)) /\ AdminsKept(Merged(db, o :> w))
  BY Tables, UsersStay
<1> QED
  BY <1>1, <1>2, <1>3, SerialFlushOne

LEMMA SerialDeleteOrganization ==
  ASSUME AccountsInv, SerialInv, NEW r \in Requests, NEW o \in Orgs,
         delete_organization(r, o), UNCHANGED scope
  PROVE  SerialInv'
<1> DEFINE w == [deleted |-> TRUE]
<1>1. Flush(r, o :> w)
  BY DEF delete_organization
<1>2. ~Insert(w)
  BY DEF Insert
<1> HIDE DEF w
<1>3. Serial => DesignationsOK(Merged(db, o :> w)) /\ AdminsKept(Merged(db, o :> w))
  BY Tables, UsersStay
<1> QED
  BY <1>1, <1>2, <1>3, SerialFlushOne

LEMMA SerialStep ==
  AccountsInv /\ SerialInv /\ [Next /\ UNCHANGED scope]_vars => SerialInv'
<1> SUFFICES ASSUME AccountsInv, SerialInv, [Next /\ UNCHANGED scope]_vars
             PROVE  SerialInv'
  OBVIOUS
<1>1. CASE UNCHANGED vars
  <2>1. /\ db' = db /\ caller' = caller /\ loaded' = loaded /\ write' = write
        /\ Used(Requests)' = Used(Requests) /\ Serial' = Serial
    BY <1>1 DEF vars, Used, Serial
  <2>2. \A q \in Requests : Written(q)' = Written(q)
    BY <2>1 DEF Written
  <2>3. \A q \in Requests : /\ AdminsKept(Written(q))' = AdminsKept(Written(q))
                            /\ DesignationsOK(Written(q))' = DesignationsOK(Written(q))
    BY <2>1, <2>2 DEF AdminsKept, HasAdmin, ActiveAdmin, AdminIn, Present, DesignationsOK
  <2>4. DesignationsOK(db)' = DesignationsOK(db)
    BY <2>1 DEF DesignationsOK
  <2> QED
    BY <2>1, <2>3, <2>4 DEF SerialInv
<1>2. CASE Next /\ UNCHANGED scope
  <2>1. ASSUME NEW r \in Used(Requests), commit(r) \/ rollback(r)
        PROVE  SerialInv'
    BY <1>2, <2>1, SerialDone DEF commit, rollback
  <2>2. ASSUME NEW r \in Used(Requests), NEW u \in Users, authenticate(r, u)
        PROVE  SerialInv'
    BY <1>2, <2>2, SerialAuthenticate
  <2> QED
    BY <1>2, <2>1, <2>2, SerialCreateUser, SerialCreateUserAndDesignation, SerialUpdateUser,
       SerialDeleteUser, SerialCreateDesignation, SerialUpdateDesignation,
       SerialDeleteDesignation, SerialCreateOrganization, SerialUpdateOrganization,
       SerialDeleteOrganization, AccountsAssumption
    DEF Next, Used, MaybeNone
<1> QED
  BY <1>1, <1>2

LEMMA SerialHolds == Spec => [](AccountsInv /\ SerialInv)
BY AccountsInitially, AccountsStep, SerialInitially, SerialStep, PTL DEF Spec

\* Unless requests interleave, no user is left with a designation that is deleted
\* or another organization's.
THEOREM DesignationsStayAssigned == Spec => []NoDanglingDesignation
<1>1. SerialInv => NoDanglingDesignation
  BY DEF SerialInv, NoDanglingDesignation, DesignationsOK, Present
<1> QED
  BY <1>1, SerialHolds, PTL

\* The last active admin of an organization is lost only when requests
\* interleave.
THEOREM LastAdminLost == Spec => LastAdminLostOnlyByRace
<1>1. ASSUME AccountsInv, SerialInv, [Next /\ UNCHANGED scope]_vars,
             NEW o \in Orgs, HasAdmin(o), ~HasAdmin(o)', Serial
      PROVE  FALSE
  <2>1. CASE db' = db
    BY <1>1, <2>1 DEF HasAdmin, ActiveAdmin, Present
  <2>2. ASSUME NEW r \in Requests, commit(r)
        PROVE  FALSE
    <3>1. AdminsKept(db')
      BY <1>1, <2>2 DEF commit, SerialInv
    <3> QED
      BY <1>1, <3>1 DEF AdminsKept, HasAdmin, ActiveAdmin, AdminIn, Present
  <2> QED
    BY <1>1, <2>1, <2>2, OnlyCommits
<1>2. AccountsInv /\ SerialInv /\ [Next /\ UNCHANGED scope]_vars
        => [\A o \in Orgs : HasAdmin(o) /\ ~HasAdmin(o)' => ~Serial]_vars
  BY <1>1
<1> QED
  BY <1>2, SerialHolds, PTL DEF Spec, LastAdminLostOnlyByRace
===============================================================================

---------------------------- MODULE WorkspaceProofs ----------------------------
(***************************************************************************)
(* The work of an organization and its files, for any users, rows, keys    *)
(* and number of requests.                                                 *)
(***************************************************************************)
EXTENDS Attachments, OrmProofs, FiniteSetTheorems

\* The rows with properties: all but those of email_outbox.
Tabled == UNION {Projects, Features, Tasks, Activities, TimeLogs, Links, Attachments}

\* The columns of the tables and what they hold.
ProjectColumns == [exists |-> {TRUE}, deleted |-> BOOLEAN, start_date |-> MaybeNone(Dates),
                   end_date |-> MaybeNone(Dates)]
FeatureColumns == [exists |-> {TRUE}, deleted |-> BOOLEAN, project |-> Projects]
TaskColumns == [exists |-> {TRUE}, deleted |-> BOOLEAN, feature |-> MaybeNone(Features),
                project |-> MaybeNone(Projects), created_by |-> Users]
ActivityColumns == [exists |-> {TRUE}, deleted |-> BOOLEAN, project |-> MaybeNone(Projects),
                    created_by |-> Users, updated_by |-> MaybeNone(Users)]
TimeLogColumns == [exists |-> {TRUE}, deleted |-> BOOLEAN, of |-> Tasks \union Activities,
                   user |-> Users, minutes |-> Minutes]
LinkColumns == [exists |-> {TRUE}, deleted |-> BOOLEAN, user |-> Users,
                of |-> UNION {Projects, Features, Tasks, Activities}]
AttachmentColumns == [exists |-> {TRUE}, deleted |-> BOOLEAN, s3_key |-> Keys,
                      size_bytes |-> Sizes, uploaded_by |-> Users,
                      of |-> UNION {Projects, Features, Tasks, Activities}]

Columns(x) == CASE x \in Projects -> ProjectColumns
                [] x \in Features -> FeatureColumns
                [] x \in Tasks -> TaskColumns
                [] x \in Activities -> ActivityColumns
                [] x \in TimeLogs -> TimeLogColumns
                [] x \in Links -> LinkColumns
                [] x \in Attachments -> AttachmentColumns

RowOK(x, row) == /\ row = [f \in DOMAIN Columns(x) |-> row[f]]
                 /\ \A f \in DOMAIN Columns(x) : row[f] \in Columns(x)[f]

RowsOK == \A x \in Tabled : db[x] = Absent \/ RowOK(x, db[x])

\* The rows that a row refers to by a foreign key that is never NULL, or that
\* decides access.
RefersTo(x, row, y) == \/ x \in Features /\ y = row.project
                       \/ x \in Tasks /\ y = row.feature /\ y # None
                       \/ x \in Links \union TimeLogs /\ y = row.of

RefsOK == \A x, y \in Tabled : db[x].exists /\ RefersTo(x, db[x], y) => db[y].exists

Insert(w) == "exists" \in DOMAIN w

\* What an update writes: a task may move to a feature that exists, everything
\* else stays where it is.
ColumnsOK(x, w) ==
  \A f \in DOMAIN w :
    /\ f \in DOMAIN Columns(x) /\ w[f] \in Columns(x)[f]
    /\ f \notin {"exists", "of", "s3_key"} /\ (f = "project" => x \notin Features)
    /\ x \in Tasks /\ f = "feature" /\ w[f] # None => db[w[f]].exists

\* A request inserts rows that are not there, or updates rows that are.
WriteOK(x, rows) ==
  IF Insert(rows[x])
  THEN /\ ~db[x].exists /\ RowOK(x, rows[x])
       /\ \A y \in Tabled : RefersTo(x, rows[x], y)
                              => db[y].exists \/ (y \in DOMAIN rows /\ Insert(rows[y]))
  ELSE db[x].exists /\ ColumnsOK(x, rows[x])

WritesOK == \A r \in Requests : \A x \in Tabled \intersect DOMAIN write[r] : WriteOK(x, write[r])

\* Nobody else writes to a row that a request inserts.
Apart(r, rows) == \A x \in Tabled \intersect DOMAIN rows :
                    Insert(rows[x]) => \A q \in Requests \ {r} : x \notin DOMAIN write[q]

WritesApart == \A r \in Requests : Apart(r, write[r])

CallersOK == \A r \in Requests : /\ caller[r] \in MaybeNone(Users)
                                 /\ caller[r] = None => write[r] = Nothing

WorkInv == /\ OpenSessions /\ DOMAIN db = Rows \union Attachments
           /\ RowsOK /\ RefsOK /\ WritesOK /\ WritesApart /\ CallersOK

-------------------------------------------------------------------------------
(* One request at a time                                                   *)

\* A database with the columns of some rows written to it.
Merged(D, rows) == [x \in DOMAIN D |-> IF x \in DOMAIN rows THEN rows[x] @@ D[x] ELSE D[x]]

\* What a database should be.
FeaturesIn(D) == \A f \in Features : Live(D[f]) => Live(D[D[f].project])
TasksIn(D) == \A t \in Tasks : Live(D[t]) /\ D[t].feature # None => Live(D[D[t].feature])
DatesIn(D) == \A p \in Projects : Live(D[p]) => check_dates(D[p].start_date, D[p].end_date)
FilesIn(D) == \A a \in Attachments : D[a].exists =>
                /\ objects[D[a].s3_key] # 0
                /\ \A b \in Attachments \ {a} : D[b].exists => D[b].s3_key # D[a].s3_key

InOrder(D) == FeaturesIn(D) /\ TasksIn(D) /\ DatesIn(D) /\ FilesIn(D)

\* A request moves tasks between its caller's projects.
MovesOK(r, rows) ==
  \A t \in Tasks \intersect DOMAIN rows :
    db[t].exists /\ "feature" \in DOMAIN rows[t]
      => \A f \in {db[t].feature, rows[t].feature} \ {None} : AdminOrMember(r, db[f].project)

\* Requests outside the bound do nothing; and what the request is about to
\* write leaves the database in order.
SerialInv ==
  /\ db = [x \in Rows \union Attachments |-> db[x]]
  /\ DOMAIN objects = Keys
  /\ \A r \in Requests \ Used(Requests) : caller[r] = None
  /\ Serial => /\ InOrder(db)
               /\ \A r \in Requests : InOrder(Written(r)) /\ MovesOK(r, write[r])

AllInv == WorkInv /\ SerialInv

-------------------------------------------------------------------------------
(* Rows                                                                    *)

LEMMA Tables ==
  /\ \A x \in Projects : x \notin UNION {Features, Tasks, Activities, TimeLogs, Links, Emails}
  /\ \A x \in Features : x \notin UNION {Projects, Tasks, Activities, TimeLogs, Links, Emails}
  /\ \A x \in Tasks : x \notin UNION {Projects, Features, Activities, TimeLogs, Links, Emails}
  /\ \A x \in Activities : x \notin UNION {Projects, Features, Tasks, TimeLogs, Links, Emails}
  /\ \A x \in TimeLogs : x \notin UNION {Projects, Features, Tasks, Activities, Links, Emails}
  /\ \A x \in Links : x \notin UNION {Projects, Features, Tasks, Activities, TimeLogs, Emails}
  /\ \A x \in Attachments : x \notin UNION {Projects, Features, Tasks, Activities, TimeLogs,
                                            Links, Emails}
  /\ Tabled \subseteq Rows \union Attachments
<1>1. \A x \in Attachments : x \notin Rows
  BY AttachmentsAssumption
<1> QED
  BY <1>1, WorkspaceAssumption DEF Rows, Tabled

LEMMA ColumnsOf ==
  ASSUME NEW x \in Tabled
  PROVE  /\ x \in Projects => Columns(x) = ProjectColumns
         /\ x \in Features => Columns(x) = FeatureColumns
         /\ x \in Tasks => Columns(x) = TaskColumns
         /\ x \in Activities => Columns(x) = ActivityColumns
         /\ x \in TimeLogs => Columns(x) = TimeLogColumns
         /\ x \in Links => Columns(x) = LinkColumns
         /\ x \in Attachments => Columns(x) = AttachmentColumns
<1>1. x \in Projects => Columns(x) = ProjectColumns
  BY Tables DEF Columns
<1>2. x \in Features => Columns(x) = FeatureColumns
  BY Tables DEF Columns
<1>3. x \in Tasks => Columns(x) = TaskColumns
  BY Tables DEF Columns
<1>4. x \in Activities => Columns(x) = ActivityColumns
  BY Tables DEF Columns
<1>5. x \in TimeLogs => Columns(x) = TimeLogColumns
  BY Tables DEF Columns
<1>6. x \in Links => Columns(x) = LinkColumns
  BY Tables DEF Columns
<1>7. x \in Attachments => Columns(x) = AttachmentColumns
  BY Tables DEF Columns
<1> QED
  BY <1>1, <1>2, <1>3, <1>4, <1>5, <1>6, <1>7

\* Every row has these columns.
LEMMA RowExists ==
  ASSUME NEW x \in Tabled
  PROVE  /\ "exists" \in DOMAIN Columns(x) /\ Columns(x)["exists"] = {TRUE}
         /\ "deleted" \in DOMAIN Columns(x) /\ Columns(x)["deleted"] = BOOLEAN
<1> DEFINE Has(C) == /\ "exists" \in DOMAIN C /\ C["exists"] = {TRUE}
                     /\ "deleted" \in DOMAIN C /\ C["deleted"] = BOOLEAN
<1>1. Has(ProjectColumns) /\ Has(FeatureColumns)
  BY DEF ProjectColumns, FeatureColumns
<1>2. Has(TaskColumns) /\ Has(ActivityColumns)
  BY DEF TaskColumns, ActivityColumns
<1>3. Has(TimeLogColumns) /\ Has(LinkColumns)
  BY DEF TimeLogColumns, LinkColumns
<1>4. Has(AttachmentColumns)
  BY DEF AttachmentColumns
<1> HIDE DEF Has
<1>5. Has(Columns(x))
  BY <1>1, <1>2, <1>3, <1>4, ColumnsOf DEF Tabled
<1> QED
  BY <1>5 DEF Has

LEMMA AbsentFields == Absent.exists = FALSE /\ DOMAIN Absent = {"exists"}
BY DEF Absent

\* An update leaves a row of the table that refers to the same rows, unless a
\* task moves.
LEMMA UpdatedRow ==
  ASSUME NEW x \in Tabled, NEW row, RowOK(x, row), NEW w, ~Insert(w), ColumnsOK(x, w)
  PROVE  /\ RowOK(x, w @@ row)
         /\ (w @@ row).exists = TRUE
         /\ \A f \in DOMAIN w : (w @@ row)[f] = w[f]
         /\ \A f \in DOMAIN row \ DOMAIN w : (w @@ row)[f] = row[f]
<1> DEFINE new == w @@ row
<1>1. /\ DOMAIN new = DOMAIN w \union DOMAIN row
      /\ \A f \in DOMAIN w : new[f] = w[f]
      /\ \A f \in DOMAIN row \ DOMAIN w : new[f] = row[f]
  BY Over
<1>2. new = [f \in DOMAIN new |-> new[f]]
  BY DEF @@
<1> HIDE DEF new
<1>3. DOMAIN row = DOMAIN Columns(x)
  BY DEF RowOK
<1>4. \A f \in DOMAIN w : f \in DOMAIN Columns(x) /\ w[f] \in Columns(x)[f]
  BY DEF ColumnsOK
<1>5. DOMAIN new = DOMAIN Columns(x)
  BY <1>1, <1>3, <1>4
<1>6. \A f \in DOMAIN Columns(x) : new[f] \in Columns(x)[f]
  BY <1>1, <1>3, <1>4 DEF RowOK
<1>7. RowOK(x, new)
  BY <1>2, <1>5, <1>6 DEF RowOK
<1>8. new["exists"] = TRUE
  BY <1>6, RowExists
<1> QED
  BY <1>1, <1>7, <1>8 DEF new

\* An insert leaves the row that is inserted.
LEMMA InsertedRow ==
  ASSUME NEW x \in Tabled, NEW w, RowOK(x, w)
  PROVE  w @@ Absent = w /\ w.exists = TRUE
<1>1. /\ w = [f \in DOMAIN Columns(x) |-> w[f]]
      /\ "exists" \in DOMAIN Columns(x) /\ w["exists"] = TRUE
  BY RowExists DEF RowOK
<1>2. DOMAIN w \union DOMAIN Absent = DOMAIN w
  BY <1>1, AbsentFields
<1>3. w @@ Absent = [f \in DOMAIN w |-> w[f]]
  BY <1>2 DEF @@
<1> QED
  BY <1>1, <1>3

LEMMA UpdatedRefs ==
  ASSUME NEW x \in Tabled, NEW row, RowOK(x, row), NEW w, ~Insert(w), ColumnsOK(x, w),
         NEW y, RefersTo(x, w @@ row, y)
  PROVE  RefersTo(x, row, y) \/ db[y].exists
<1> DEFINE new == w @@ row
<1>1. /\ \A f \in DOMAIN w : new[f] = w[f]
      /\ \A f \in DOMAIN row \ DOMAIN w : new[f] = row[f]
  BY Over
<1> HIDE DEF new
<1>2. DOMAIN row = DOMAIN Columns(x)
  BY DEF RowOK
<1>3. CASE x \in Features
  <2>1. "project" \in DOMAIN row /\ "project" \notin DOMAIN w
    BY <1>2, <1>3, ColumnsOf DEF ColumnsOK, FeatureColumns
  <2> QED
    BY <1>1, <1>3, <2>1, Tables DEF RefersTo, new
<1>4. CASE x \in Tasks
  <2>1. "feature" \in DOMAIN row
    BY <1>2, <1>4, ColumnsOf DEF TaskColumns
  <2>2. y = new["feature"] /\ y # None
    BY <1>4, Tables DEF RefersTo, new
  <2>3. CASE "feature" \in DOMAIN w
    BY <1>1, <1>4, <2>2, <2>3 DEF ColumnsOK
  <2>4. CASE "feature" \notin DOMAIN w
    BY <1>1, <1>4, <2>1, <2>2, <2>4 DEF RefersTo
  <2> QED
    BY <2>3, <2>4
<1>5. CASE x \in Links \union TimeLogs
  <2>1. "of" \in DOMAIN row /\ "of" \notin DOMAIN w
    BY <1>2, <1>5, ColumnsOf DEF ColumnsOK, LinkColumns, TimeLogColumns
  <2> QED
    BY <1>1, <1>5, <2>1, Tables DEF RefersTo, new
<1> QED
  BY <1>3, <1>4, <1>5 DEF RefersTo

-------------------------------------------------------------------------------
(* The steps of a request                                                  *)

LEMMA WorkInitially == WorkInit => WorkInv
<1> SUFFICES ASSUME WorkInit PROVE WorkInv
  OBVIOUS
<1>1. DOMAIN db = Rows \union Attachments /\ \A x \in Tabled : db[x] = Absent
  BY Tables DEF WorkInit
<1>2. \A r \in Requests : caller[r] = None /\ write[r] = Nothing
  BY DEF WorkInit, Idle
<1>3. OpenSessions
  BY DEF WorkInit, Idle, OpenSessions
<1> QED
  BY <1>1, <1>2, <1>3, AbsentFields, NothingIsEmpty
  DEF WorkInv, RowsOK, RefsOK, WritesOK, WritesApart, Apart, CallersOK, MaybeNone

LEMMA AuthenticateStep ==
  ASSUME WorkInv, NEW r \in Requests, NEW u \in Users, authenticate(r, u)
  PROVE  WorkInv'
<1>1. /\ db' = db /\ write' = write /\ loaded' = loaded
      /\ caller'[r] = u /\ DOMAIN caller' = Requests
      /\ \A q \in Requests \ {r} : caller'[q] = caller[q]
  BY DEF WorkInv, OpenSessions, authenticate
<1>2. WritesOK' /\ WritesApart' /\ RowsOK' /\ RefsOK'
  BY <1>1
  DEF WorkInv, WritesOK, WriteOK, ColumnsOK, WritesApart, Apart, RowsOK, RefsOK
<1>3. u # None
  BY WorkspaceAssumption
<1> QED
  BY <1>1, <1>2, <1>3 DEF WorkInv, OpenSessions, CallersOK, MaybeNone

LEMMA Flushed ==
  ASSUME OpenSessions, NEW r \in Requests, NEW rows, Flush(r, rows) \/ FlushLink(r, rows)
  PROVE  /\ OpenSessions' /\ db' = db /\ caller' = caller
         /\ write'[r] = rows
         /\ \A q \in Requests \ {r} : write'[q] = write[q] /\ loaded'[q] = loaded[q]
BY DEF OpenSessions, Flush, FlushLink

LEMMA FlushStep ==
  ASSUME WorkInv, NEW r \in Requests, caller[r] # None, NEW rows,
         Flush(r, rows) \/ FlushLink(r, rows),
         \A x \in Tabled \intersect DOMAIN rows : WriteOK(x, rows), Apart(r, rows)
  PROVE  WorkInv'
<1>0. OpenSessions /\ RowsOK /\ RefsOK /\ WritesOK /\ WritesApart /\ CallersOK
  BY DEF WorkInv
<1>1. /\ OpenSessions' /\ db' = db /\ caller' = caller
      /\ write'[r] = rows
      /\ \A q \in Requests \ {r} : write'[q] = write[q]
  BY <1>0, Flushed
<1>2. WritesOK'
  <2> SUFFICES ASSUME NEW q \in Requests, NEW x \in Tabled \intersect DOMAIN write'[q]
               PROVE  WriteOK(x, write[q])'
    BY DEF WritesOK
  <2>1. WriteOK(x, write'[q])
    BY <1>0, <1>1 DEF WritesOK
  <2> QED
    BY <1>1, <2>1 DEF WriteOK, ColumnsOK
<1>3. WritesApart'
  <2> SUFFICES ASSUME NEW p \in Requests, NEW x \in Tabled \intersect DOMAIN write'[p],
                      Insert(write'[p][x]), NEW q \in Requests \ {p}
               PROVE  x \notin DOMAIN write'[q]
    BY DEF WritesApart, Apart
  <2>1. CASE p = r
    BY <1>1, <2>1 DEF Apart
  <2>2. CASE p # r /\ q # r
    BY <1>0, <1>1, <2>2 DEF WritesApart, Apart
  <2>3. CASE p # r /\ q = r
    <3>1. Insert(write[p][x]) /\ WriteOK(x, write[p]) /\ x \in DOMAIN write[p]
      BY <1>0, <1>1, <2>3 DEF WritesOK
    <3>2. SUFFICES ASSUME x \in DOMAIN rows PROVE FALSE
      BY <1>1, <2>3
    <3>3. Insert(rows[x])
      BY <3>1, <3>2 DEF WriteOK
    <3> QED
      BY <2>3, <3>1, <3>2, <3>3 DEF Apart
  <2> QED
    BY <2>1, <2>2, <2>3
<1>4. CallersOK' /\ RowsOK' /\ RefsOK'
  BY <1>0, <1>1 DEF CallersOK, RowsOK, RefsOK
<1> QED
  BY <1>1, <1>2, <1>3, <1>4 DEF WorkInv

\* The end of a transaction that changes nothing.
LEMMA EndStep ==
  ASSUME WorkInv, NEW r \in Requests, Done(r), UNCHANGED db
  PROVE  WorkInv'
<1>0. OpenSessions /\ RowsOK /\ RefsOK /\ WritesOK /\ WritesApart /\ CallersOK
  BY DEF WorkInv
<1>1. /\ OpenSessions' /\ db' = db
      /\ caller'[r] = None /\ write'[r] = Nothing
      /\ \A q \in Requests \ {r} : caller'[q] = caller[q] /\ write'[q] = write[q]
  BY <1>0, DoneEffect
<1>2. \A q \in Requests : DOMAIN write'[q] # {} => q # r /\ write'[q] = write[q]
  BY <1>1, NothingIsEmpty
<1>3. WritesOK'
  BY <1>0, <1>1, <1>2 DEF WritesOK, WriteOK, ColumnsOK
<1>4. WritesApart'
  BY <1>0, <1>1, <1>2 DEF WritesApart, Apart
<1>5. CallersOK' /\ RowsOK' /\ RefsOK'
  BY <1>0, <1>1 DEF CallersOK, MaybeNone, RowsOK, RefsOK
<1> QED
  BY <1>1, <1>3, <1>4, <1>5 DEF WorkInv

\* What request r makes of a row when it commits.
LEMMA WrittenRow ==
  ASSUME WorkInv, NEW r \in Requests, NEW x \in Tabled
  PROVE  /\ x \notin DOMAIN write[r] => Written(r)[x] = db[x]
         /\ x \in DOMAIN write[r] /\ Insert(write[r][x])
              => db[x] = Absent /\ Written(r)[x] = write[r][x]
         /\ x \in DOMAIN write[r] /\ ~Insert(write[r][x])
              => /\ Written(r)[x] = write[r][x] @@ db[x]
                 /\ db[x].exists /\ RowOK(x, db[x])
                 /\ ColumnsOK(x, write[r][x])
<1>0. x \in DOMAIN db /\ RowsOK /\ WritesOK
  BY Tables DEF WorkInv
<1>1. /\ x \in DOMAIN write[r] => Written(r)[x] = write[r][x] @@ db[x]
      /\ x \notin DOMAIN write[r] => Written(r)[x] = db[x]
  BY <1>0, WrittenRows
<1>2. x \in DOMAIN write[r] => WriteOK(x, write[r])
  BY <1>0 DEF WritesOK
<1>3. db[x] = Absent \/ (RowOK(x, db[x]) /\ db[x].exists = TRUE)
  BY <1>0, InsertedRow DEF RowsOK
<1>4. ASSUME x \in DOMAIN write[r], Insert(write[r][x])
      PROVE  db[x] = Absent /\ Written(r)[x] = write[r][x]
  BY <1>1, <1>2, <1>3, <1>4, InsertedRow DEF WriteOK
<1>5. ASSUME x \in DOMAIN write[r], ~Insert(write[r][x])
      PROVE  db[x].exists /\ RowOK(x, db[x]) /\ ColumnsOK(x, write[r][x])
  BY <1>2, <1>3, <1>5, AbsentFields DEF WriteOK
<1> QED
  BY <1>1, <1>4, <1>5

\* A commit leaves rows of their tables that refer to rows that exist, and takes
\* no row away.
LEMMA WrittenTypes ==
  ASSUME WorkInv, NEW r \in Requests, NEW x \in Tabled
  PROVE  /\ Written(r)[x] = Absent \/ RowOK(x, Written(r)[x])
         /\ db[x].exists => Written(r)[x].exists
<1>0. RowsOK /\ WritesOK
  BY DEF WorkInv
<1>1. CASE x \notin DOMAIN write[r]
  BY <1>0, <1>1, WrittenRow DEF RowsOK
<1>2. CASE x \in DOMAIN write[r] /\ Insert(write[r][x])
  <2>1. db[x] = Absent /\ Written(r)[x] = write[r][x]
    BY <1>2, WrittenRow
  <2>2. RowOK(x, write[r][x])
    BY <1>0, <1>2 DEF WritesOK, WriteOK
  <2> QED
    BY <2>1, <2>2, AbsentFields
<1>3. CASE x \in DOMAIN write[r] /\ ~Insert(write[r][x])
  <2>1. /\ Written(r)[x] = write[r][x] @@ db[x]
        /\ RowOK(x, db[x]) /\ ColumnsOK(x, write[r][x])
    BY <1>3, WrittenRow
  <2>2. RowOK(x, Written(r)[x])
    BY <1>3, <2>1, UpdatedRow
  <2>3. Written(r)[x].exists = TRUE
    BY <2>2, InsertedRow
  <2> QED
    BY <2>2, <2>3
<1> QED
  BY <1>1, <1>2, <1>3

LEMMA WrittenRefs ==
  ASSUME WorkInv, NEW r \in Requests, NEW x \in Tabled, NEW y \in Tabled,
         Written(r)[x].exists, RefersTo(x, Written(r)[x], y)
  PROVE  Written(r)[y].exists
<1>0. RowsOK /\ RefsOK /\ WritesOK
  BY DEF WorkInv
<1>1. SUFFICES \/ db[y].exists
               \/ y \in DOMAIN write[r] /\ Insert(write[r][y])
  <2>1. ASSUME y \in DOMAIN write[r], Insert(write[r][y])
        PROVE  Written(r)[y].exists
    <3>1. Written(r)[y] = write[r][y] /\ RowOK(y, write[r][y])
      <4>1. Written(r)[y] = write[r][y]
        BY <2>1, WrittenRow
      <4>2. RowOK(y, write[r][y])
        BY <1>0, <2>1 DEF WritesOK, WriteOK
      <4> QED
        BY <4>1, <4>2
    <3> QED
      BY <3>1, InsertedRow
  <2> QED
    BY <2>1, WrittenTypes
<1>2. CASE x \notin DOMAIN write[r]
  BY <1>0, <1>2, WrittenRow DEF RefsOK
<1>3. CASE x \in DOMAIN write[r] /\ Insert(write[r][x])
  <2>1. Written(r)[x] = write[r][x] /\ WriteOK(x, write[r])
    BY <1>0, <1>3, WrittenRow DEF WritesOK
  <2> QED
    BY <1>3, <2>1 DEF WriteOK
<1>4. CASE x \in DOMAIN write[r] /\ ~Insert(write[r][x])
  <2>1. /\ Written(r)[x] = write[r][x] @@ db[x] /\ db[x].exists
        /\ RowOK(x, db[x]) /\ ColumnsOK(x, write[r][x])
    BY <1>4, WrittenRow
  <2>2. RefersTo(x, db[x], y) \/ db[y].exists
    BY <1>4, <2>1, UpdatedRefs
  <2> QED
    BY <1>0, <2>1, <2>2 DEF RefsOK
<1> QED
  BY <1>2, <1>3, <1>4

LEMMA CommitStep ==
  ASSUME WorkInv, NEW r \in Requests, commit(r)
  PROVE  WorkInv'
<1>0. OpenSessions /\ RowsOK /\ RefsOK /\ WritesOK /\ WritesApart /\ CallersOK
  BY DEF WorkInv
<1>1. /\ OpenSessions' /\ db' = Written(r)
      /\ caller'[r] = None /\ write'[r] = Nothing
      /\ \A q \in Requests \ {r} : caller'[q] = caller[q] /\ write'[q] = write[q]
  BY <1>0, DoneEffect DEF commit
<1>2. \A q \in Requests : DOMAIN write'[q] # {} => q # r /\ write'[q] = write[q]
  BY <1>1, NothingIsEmpty
<1>3. DOMAIN db' = Rows \union Attachments
  BY WrittenRows DEF commit, WorkInv
<1>4. RowsOK' /\ RefsOK'
  BY <1>1, WrittenTypes, WrittenRefs DEF RowsOK, RefsOK
<1>5. WritesOK'
  <2> SUFFICES ASSUME NEW q \in Requests, NEW x \in Tabled \intersect DOMAIN write'[q]
               PROVE  WriteOK(x, write[q])'
    BY DEF WritesOK
  <2>1. q # r /\ write'[q] = write[q] /\ WriteOK(x, write[q])
    BY <1>0, <1>2 DEF WritesOK
  <2>2. \A y \in Tabled : db[y].exists => db'[y].exists
    BY <1>1, WrittenTypes
  <2>3. CASE Insert(write[q][x])
    <3>1. ~db[x].exists
      BY <2>1, <2>3 DEF WriteOK
    <3>2. x \notin DOMAIN write[r]
      <4>1. SUFFICES ASSUME x \in DOMAIN write[r] PROVE FALSE
        OBVIOUS
      <4>2. Insert(write[r][x])
        BY <1>0, <3>1, <4>1 DEF WritesOK, WriteOK
      <4> QED
        BY <1>0, <2>1, <4>1, <4>2 DEF WritesApart, Apart
    <3>3. db'[x] = db[x]
      BY <1>1, <3>2, WrittenRow
    <3> QED
      BY <2>1, <2>2, <2>3, <3>1, <3>3 DEF WriteOK
  <2>4. CASE ~Insert(write[q][x])
    <3>1. db[x].exists /\ ColumnsOK(x, write[q][x])
      BY <2>1, <2>4 DEF WriteOK
    <3>2. ColumnsOK(x, write[q][x])'
      <4> SUFFICES ASSUME NEW f \in DOMAIN write[q][x], x \in Tasks, f = "feature",
                          write[q][x][f] # None
                   PROVE  db'[write[q][x][f]].exists
        BY <2>1, <3>1 DEF ColumnsOK
      <4>1. Columns(x)["feature"] = MaybeNone(Features)
        <5>1. Columns(x) = TaskColumns
          BY ColumnsOf
        <5> QED
          BY <5>1 DEF TaskColumns
      <4>2. write[q][x][f] \in Columns(x)["feature"] /\ db[write[q][x][f]].exists
        BY <3>1 DEF ColumnsOK
      <4> QED
        BY <2>2, <4>1, <4>2 DEF Tabled, MaybeNone
    <3> QED
      BY <2>1, <2>2, <2>4, <3>1, <3>2 DEF WriteOK
  <2> QED
    BY <2>3, <2>4
<1>6. WritesApart'
  BY <1>0, <1>1, <1>2 DEF WritesApart, Apart
<1>7. CallersOK'
  BY <1>0, <1>1 DEF CallersOK, MaybeNone
<1> QED
  BY <1>1, <1>3, <1>4, <1>5, <1>6, <1>7 DEF WorkInv

-------------------------------------------------------------------------------
(* The database in order                                                   *)

LEMMA MergedNothing ==
  ASSUME NEW D, NEW S, D = [x \in S |-> D[x]]
  PROVE  Merged(D, Nothing) = D
BY NothingIsEmpty DEF Merged

LEMMA ProjectOfFeature ==
  ASSUME WorkInv, NEW f \in Features, db[f].exists
  PROVE  db[f].project \in Projects
<1>1. RowOK(f, db[f])
  BY AbsentFields DEF WorkInv, RowsOK, Tabled
<1>2. Columns(f) = FeatureColumns
  BY ColumnsOf DEF Tabled
<1> QED
  BY <1>1, <1>2 DEF RowOK, FeatureColumns

LEMMA FeatureOfTask ==
  ASSUME WorkInv, NEW t \in Tasks, db[t].exists
  PROVE  db[t].feature \in MaybeNone(Features)
<1>1. RowOK(t, db[t])
  BY AbsentFields DEF WorkInv, RowsOK, Tabled
<1>2. Columns(t) = TaskColumns
  BY ColumnsOf DEF Tabled
<1> QED
  BY <1>1, <1>2 DEF RowOK, TaskColumns

\* The rows that order is about.
Ordered == UNION {Projects, Features, Tasks, Attachments}

\* A row that may take the place of x: a live project stays, with its dates in
\* order; a feature has a live project, and no task when it goes; a task has a
\* live feature.
Fits(x, v) ==
  /\ x \in Projects => /\ Present(x) => Live(v)
                       /\ Live(v) => check_dates(v.start_date, v.end_date)
  /\ x \in Features => /\ Live(v) => v.project \in Projects /\ Present(v.project)
                       /\ Present(x) => Live(v) \/ TasksOf(x) = {}
  /\ x \in Tasks /\ Live(v) /\ v.feature # None
       => v.feature \in Features /\ Present(v.feature)

LEMMA InOrderExcept ==
  ASSUME WorkInv, InOrder(db), NEW M, NEW x,
         \A y \in Ordered \ {x} : M[y] = db[y],
         Fits(x, M[x]),
         x \in Attachments => FilesIn(M)
  PROVE  InOrder(M)
<1> USE DEF Fits
<1>0. FeaturesIn(db) /\ TasksIn(db) /\ DatesIn(db) /\ FilesIn(db)
  BY DEF InOrder
<1>1. \A p \in Projects : Present(p) => Live(M[p])
  BY DEF Ordered, Present
<1>2. FeaturesIn(M)
  <2> SUFFICES ASSUME NEW f \in Features, Live(M[f]) PROVE Live(M[M[f].project])
    BY DEF FeaturesIn
  <2>1. CASE f = x
    BY <1>1, <2>1
  <2>2. CASE f # x
    <3>1. M[f] = db[f] /\ Live(db[f]) /\ db[f].exists
      BY <2>2 DEF Ordered, Live
    <3>2. db[f].project \in Projects /\ Present(db[f].project)
      BY <1>0, <3>1, ProjectOfFeature DEF FeaturesIn, Present
    <3> QED
      BY <1>1, <3>1, <3>2
  <2> QED
    BY <2>1, <2>2
<1>3. TasksIn(M)
  <2> SUFFICES ASSUME NEW t \in Tasks, Live(M[t]), M[t].feature # None
               PROVE  Live(M[M[t].feature])
    BY DEF TasksIn
  <2>1. CASE t = x
    <3>1. M[t].feature \in Features /\ Present(M[t].feature) /\ M[t].feature # x
      BY <2>1, Tables
    <3> QED
      BY <3>1 DEF Ordered, Present
  <2>2. CASE t # x
    <3>1. M[t] = db[t] /\ Present(t) /\ db[t].exists
      BY <2>2 DEF Ordered, Live, Present
    <3>2. db[t].feature \in Features
      BY <3>1, FeatureOfTask DEF MaybeNone
    <3>3. Present(db[t].feature)
      BY <1>0, <3>1 DEF TasksIn, Present
    <3>4. CASE db[t].feature = x
      BY <3>1, <3>2, <3>3, <3>4 DEF TasksOf
    <3>5. CASE db[t].feature # x
      BY <3>1, <3>2, <3>3, <3>5 DEF Ordered, Present
    <3> QED
      BY <3>4, <3>5
  <2> QED
    BY <2>1, <2>2
<1>4. DatesIn(M)
  BY <1>0 DEF DatesIn, Ordered
<1>5. FilesIn(M)
  <2>1. CASE x \in Attachments
    BY <2>1
  <2>2. CASE x \notin Attachments
    BY <1>0, <2>2 DEF FilesIn, Ordered
  <2> QED
    BY <2>1, <2>2
<1> QED
  BY <1>2, <1>3, <1>4, <1>5 DEF InOrder

-------------------------------------------------------------------------------
(* What a request writes                                                   *)

LEMMA FlushRows ==
  ASSUME AllInv, NEW r \in Requests, caller[r] # None, NEW rows,
         Flush(r, rows) \/ FlushLink(r, rows), UNCHANGED <<objects, scope>>,
         \A x \in Tabled \intersect DOMAIN rows : WriteOK(x, rows), Apart(r, rows),
         Serial => InOrder(Merged(db, rows)) /\ MovesOK(r, rows)
  PROVE  AllInv'
<1>1. /\ db' = db /\ caller' = caller /\ write'[r] = rows
      /\ \A q \in Requests \ {r} : write'[q] = write[q]
  BY Flushed DEF AllInv, WorkInv
<1>2. WorkInv'
  BY FlushStep DEF AllInv
<1>3. Serial' = Serial /\ Used(Requests)' = Used(Requests) /\ objects' = objects
  BY DEF Serial, Used
<1>4. \A q \in Requests \ {r} : Written(q)' = Written(q)
  BY <1>1 DEF Written
<1>5. Written(r)' = Merged(db, rows)
  BY <1>1 DEF Written, Merged
<1>6. /\ InOrder(db)' <=> InOrder(db)
      /\ \A q \in Requests \ {r} : InOrder(Written(q))' <=> InOrder(Written(q))
      /\ InOrder(Written(r))' <=> InOrder(Merged(db, rows))
  BY <1>1, <1>3, <1>4, <1>5 DEF InOrder, FeaturesIn, TasksIn, DatesIn, FilesIn
<1>7. ASSUME NEW q \in Requests
      PROVE  MovesOK(q, write[q])' <=> MovesOK(q, write'[q])
  BY <1>1 DEF MovesOK, AdminOrMember, is_member, Linked, Present
<1>8. ASSUME Serial, NEW q \in Requests
      PROVE  InOrder(Written(q))' /\ MovesOK(q, write[q])'
  <2>1. CASE q = r
    BY <1>1, <1>6, <1>7, <1>8, <2>1
  <2>2. CASE q # r
    BY <1>1, <1>6, <1>7, <1>8, <2>2 DEF AllInv, SerialInv
  <2> QED
    BY <2>1, <2>2
<1>9. SerialInv'
  BY <1>1, <1>3, <1>6, <1>8 DEF AllInv, SerialInv
<1> QED
  BY <1>2, <1>9 DEF AllInv

LEMMA MergedOne ==
  ASSUME AllInv, NEW x \in Tabled, NEW w
  PROVE  /\ \A y \in Ordered \ {x} : Merged(db, x :> w)[y] = db[y]
         /\ Merged(db, x :> w)[x] = w @@ db[x]
<1>1. x \in DOMAIN db /\ Ordered \subseteq DOMAIN db
  BY Tables DEF AllInv, WorkInv, Ordered, Tabled
<1> QED
  BY <1>1 DEF Merged, :>

\* A request that inserts one row.
LEMMA InsertOne ==
  ASSUME AllInv, NEW r \in Requests, caller[r] # None, NEW x \in Tabled, NEW w,
         Flush(r, x :> w) \/ FlushLink(r, x :> w), UNCHANGED <<objects, scope>>, NewId(x), Insert(w), RowOK(x, w),
         \A y \in Tabled : RefersTo(x, w, y) => db[y].exists,
         Serial => Fits(x, w),
         Serial /\ x \in Attachments => FilesIn(Merged(db, x :> w))
  PROVE  AllInv'
<1> DEFINE rows == x :> w
           M == Merged(db, rows)
<1>1. DOMAIN rows = {x} /\ rows[x] = w
  BY OneRow
<1>2. \A y \in Ordered \ {x} : M[y] = db[y]
  BY MergedOne
<1>3. M[x] = w
  <2>1. db[x] = Absent
    <3>1. ~db[x].exists /\ (db[x] = Absent \/ RowOK(x, db[x]))
      BY DEF NewId, AllInv, WorkInv, RowsOK
    <3> QED
      BY <3>1, InsertedRow
  <2> QED
    BY <2>1, MergedOne, InsertedRow
<1>4. (Flush(r, rows) \/ FlushLink(r, rows)) /\ (Serial /\ x \in Attachments => FilesIn(M))
  OBVIOUS
<1> HIDE DEF rows, M
<1>5. \A y \in Tabled \intersect DOMAIN rows : WriteOK(y, rows)
  BY <1>1 DEF WriteOK, NewId
<1>6. Apart(r, rows)
  BY <1>1 DEF Apart, NewId
<1>7. Serial => InOrder(M)
  BY <1>2, <1>3, <1>4, InOrderExcept DEF AllInv, SerialInv
<1>8. MovesOK(r, rows)
  BY <1>1 DEF MovesOK, NewId
<1> QED
  BY <1>4, <1>5, <1>6, <1>7, <1>8, FlushRows DEF M

\* A request that updates one row.
LEMMA UpdateOne ==
  ASSUME AllInv, NEW r \in Requests, caller[r] # None, NEW x \in Tabled, NEW w,
         Flush(r, x :> w), UNCHANGED <<objects, scope>>, db[x].exists, ~Insert(w),
         ColumnsOK(x, w),
         Serial => Fits(x, w @@ db[x]),
         Serial /\ x \in Tasks /\ "feature" \in DOMAIN w
           => \A f \in {db[x].feature, w.feature} \ {None} : AdminOrMember(r, db[f].project)
  PROVE  AllInv'
<1> DEFINE rows == x :> w
           M == Merged(db, rows)
<1>1. DOMAIN rows = {x} /\ rows[x] = w
  BY OneRow
<1>2. /\ \A y \in Ordered \ {x} : M[y] = db[y]
      /\ M[x] = w @@ db[x]
  BY MergedOne
<1>3. Flush(r, rows)
  OBVIOUS
<1> HIDE DEF rows, M
<1>4. \A y \in Tabled \intersect DOMAIN rows : WriteOK(y, rows)
  BY <1>1 DEF WriteOK
<1>5. Apart(r, rows)
  BY <1>1 DEF Apart
<1>6. RowOK(x, db[x])
  BY AbsentFields DEF AllInv, WorkInv, RowsOK
<1>7. ASSUME Serial, x \in Attachments
      PROVE  FilesIn(M)
  <2>1. /\ "exists" \in DOMAIN db[x] /\ "s3_key" \in DOMAIN db[x]
        /\ "exists" \notin DOMAIN w /\ "s3_key" \notin DOMAIN w
    <3>1. Columns(x) = AttachmentColumns
      BY <1>7, ColumnsOf
    <3> QED
      BY <1>6, <3>1 DEF RowOK, ColumnsOK, AttachmentColumns
  <2>2. M[x]["exists"] = db[x]["exists"] /\ M[x]["s3_key"] = db[x]["s3_key"]
    BY <1>2, <2>1 DEF @@
  <2>3. FilesIn(db)
    BY <1>7 DEF AllInv, SerialInv, InOrder
  <2>4. \A a \in Attachments : M[a].exists = db[a].exists /\ M[a].s3_key = db[a].s3_key
    BY <1>2, <2>2 DEF Ordered
  <2> QED
    BY <2>3, <2>4 DEF FilesIn
<1>8. Serial => InOrder(M)
  BY <1>2, <1>7, InOrderExcept DEF AllInv, SerialInv
<1>9. Serial => MovesOK(r, rows)
  BY <1>1 DEF MovesOK
<1> QED
  BY <1>3, <1>4, <1>5, <1>8, <1>9, FlushRows DEF M

\* A request that deletes one row.
LEMMA DeleteOne ==
  ASSUME AllInv, NEW r \in Requests, caller[r] # None, NEW x \in Tabled \ Projects,
         Flush(r, x :> [deleted |-> TRUE]), UNCHANGED <<objects, scope>>, db[x].exists,
         x \in Features => TasksOf(x) = {}
  PROVE  AllInv'
<1> DEFINE w == [deleted |-> TRUE]
<1>1. DOMAIN w = {"deleted"} /\ w["deleted"] = TRUE /\ Flush(r, x :> w)
  OBVIOUS
<1> HIDE DEF w
<1>2. ~Insert(w) /\ ColumnsOK(x, w)
  BY <1>1, RowExists DEF Insert, ColumnsOK
<1>3. ~Live(w @@ db[x])
  BY <1>1 DEF @@, Live
<1>4. Fits(x, w @@ db[x])
  BY <1>3 DEF Fits
<1> QED
  BY <1>1, <1>2, <1>4, UpdateOne

-------------------------------------------------------------------------------
(* New rows                                                                *)

LEMMA NewProjectRow ==
  ASSUME NEW p \in Projects, NEW s \in MaybeNone(Dates), NEW e \in MaybeNone(Dates)
  PROVE  Insert(NewProject(s, e)) /\ RowOK(p, NewProject(s, e))
<1> DEFINE w == NewProject(s, e)
<1> SUFFICES Insert(w) /\ RowOK(p, w)
  OBVIOUS
<1>1. Columns(p) = ProjectColumns
  BY ColumnsOf DEF Tabled
<1>2. DOMAIN w = {"exists", "deleted", "start_date", "end_date"} /\ DOMAIN ProjectColumns = DOMAIN w
  BY DEF NewProject, ProjectColumns
<1>3. w = [c \in DOMAIN w |-> w[c]]
  BY DEF NewProject
<1>4. w["exists"] \in ProjectColumns["exists"] /\ w["deleted"] \in ProjectColumns["deleted"]
  BY DEF NewProject, ProjectColumns
<1>5. /\ w["start_date"] \in ProjectColumns["start_date"]
      /\ w["end_date"] \in ProjectColumns["end_date"]
  BY DEF NewProject, ProjectColumns
<1>6. Insert(w)
  BY DEF NewProject, Insert
<1> HIDE DEF w
<1>7. \A c \in DOMAIN ProjectColumns : w[c] \in ProjectColumns[c]
  BY <1>2, <1>4, <1>5
<1> QED
  BY <1>1, <1>2, <1>3, <1>6, <1>7 DEF RowOK

LEMMA NewFeatureRow ==
  ASSUME NEW f \in Features, NEW p \in Projects
  PROVE  Insert(NewFeature(p)) /\ RowOK(f, NewFeature(p))
<1> DEFINE w == NewFeature(p)
<1> SUFFICES Insert(w) /\ RowOK(f, w)
  OBVIOUS
<1>1. Columns(f) = FeatureColumns
  BY ColumnsOf DEF Tabled
<1>2. DOMAIN w = {"exists", "deleted", "project"} /\ DOMAIN FeatureColumns = DOMAIN w
  BY DEF NewFeature, FeatureColumns
<1>3. w = [c \in DOMAIN w |-> w[c]]
  BY DEF NewFeature
<1>4. w["exists"] \in FeatureColumns["exists"] /\ w["deleted"] \in FeatureColumns["deleted"]
  BY DEF NewFeature, FeatureColumns
<1>5. /\ w["project"] \in FeatureColumns["project"]
  BY DEF NewFeature, FeatureColumns
<1>6. Insert(w)
  BY DEF NewFeature, Insert
<1> HIDE DEF w
<1>7. \A c \in DOMAIN FeatureColumns : w[c] \in FeatureColumns[c]
  BY <1>2, <1>4, <1>5
<1> QED
  BY <1>1, <1>2, <1>3, <1>6, <1>7 DEF RowOK

LEMMA NewTaskRow ==
  ASSUME NEW t \in Tasks, NEW f \in MaybeNone(Features), NEW p \in MaybeNone(Projects),
         NEW u \in Users
  PROVE  Insert(NewTask(f, p, u)) /\ RowOK(t, NewTask(f, p, u))
<1> DEFINE w == NewTask(f, p, u)
<1> SUFFICES Insert(w) /\ RowOK(t, w)
  OBVIOUS
<1>1. Columns(t) = TaskColumns
  BY ColumnsOf DEF Tabled
<1>2. DOMAIN w = {"exists", "deleted", "feature", "project", "created_by"} /\ DOMAIN TaskColumns = DOMAIN w
  BY DEF NewTask, TaskColumns
<1>3. w = [c \in DOMAIN w |-> w[c]]
  BY DEF NewTask
<1>4. w["exists"] \in TaskColumns["exists"] /\ w["deleted"] \in TaskColumns["deleted"]
  BY DEF NewTask, TaskColumns
<1>5. /\ w["feature"] \in TaskColumns["feature"]
      /\ w["project"] \in TaskColumns["project"]
      /\ w["created_by"] \in TaskColumns["created_by"]
  BY DEF NewTask, TaskColumns
<1>6. Insert(w)
  BY DEF NewTask, Insert
<1> HIDE DEF w
<1>7. \A c \in DOMAIN TaskColumns : w[c] \in TaskColumns[c]
  BY <1>2, <1>4, <1>5
<1> QED
  BY <1>1, <1>2, <1>3, <1>6, <1>7 DEF RowOK

LEMMA NewActivityRow ==
  ASSUME NEW a \in Activities, NEW p \in MaybeNone(Projects), NEW u \in Users
  PROVE  Insert(NewActivity(p, u)) /\ RowOK(a, NewActivity(p, u))
<1> DEFINE w == NewActivity(p, u)
<1> SUFFICES Insert(w) /\ RowOK(a, w)
  OBVIOUS
<1>1. Columns(a) = ActivityColumns
  BY ColumnsOf DEF Tabled
<1>2. DOMAIN w = {"exists", "deleted", "project", "created_by", "updated_by"} /\ DOMAIN ActivityColumns = DOMAIN w
  BY DEF NewActivity, ActivityColumns
<1>3. w = [c \in DOMAIN w |-> w[c]]
  BY DEF NewActivity
<1>4. w["exists"] \in ActivityColumns["exists"] /\ w["deleted"] \in ActivityColumns["deleted"]
  BY DEF NewActivity, ActivityColumns
<1>5. /\ w["project"] \in ActivityColumns["project"]
      /\ w["created_by"] \in ActivityColumns["created_by"]
      /\ w["updated_by"] \in ActivityColumns["updated_by"]
  BY DEF NewActivity, ActivityColumns, MaybeNone
<1>6. Insert(w)
  BY DEF NewActivity, Insert
<1> HIDE DEF w
<1>7. \A c \in DOMAIN ActivityColumns : w[c] \in ActivityColumns[c]
  BY <1>2, <1>4, <1>5
<1> QED
  BY <1>1, <1>2, <1>3, <1>6, <1>7 DEF RowOK

LEMMA NewTimeLogRow ==
  ASSUME NEW tl \in TimeLogs, NEW x \in Tasks \union Activities, NEW u \in Users,
         NEW n \in Minutes
  PROVE  Insert(NewTimeLog(x, u, n)) /\ RowOK(tl, NewTimeLog(x, u, n))
<1> DEFINE w == NewTimeLog(x, u, n)
<1> SUFFICES Insert(w) /\ RowOK(tl, w)
  OBVIOUS
<1>1. Columns(tl) = TimeLogColumns
  BY ColumnsOf DEF Tabled
<1>2. DOMAIN w = {"exists", "deleted", "of", "user", "minutes"} /\ DOMAIN TimeLogColumns = DOMAIN w
  BY DEF NewTimeLog, TimeLogColumns
<1>3. w = [c \in DOMAIN w |-> w[c]]
  BY DEF NewTimeLog
<1>4. w["exists"] \in TimeLogColumns["exists"] /\ w["deleted"] \in TimeLogColumns["deleted"]
  BY DEF NewTimeLog, TimeLogColumns
<1>5. /\ w["of"] \in TimeLogColumns["of"]
      /\ w["user"] \in TimeLogColumns["user"]
      /\ w["minutes"] \in TimeLogColumns["minutes"]
  BY DEF NewTimeLog, TimeLogColumns
<1>6. Insert(w)
  BY DEF NewTimeLog, Insert
<1> HIDE DEF w
<1>7. \A c \in DOMAIN TimeLogColumns : w[c] \in TimeLogColumns[c]
  BY <1>2, <1>4, <1>5
<1> QED
  BY <1>1, <1>2, <1>3, <1>6, <1>7 DEF RowOK

LEMMA NewLinkRow ==
  ASSUME NEW l \in Links, NEW x \in UNION {Projects, Features, Tasks, Activities},
         NEW u \in Users
  PROVE  Insert(NewLink(x, u)) /\ RowOK(l, NewLink(x, u)) /\ NewLink(x, u).of = x
<1> DEFINE w == NewLink(x, u)
<1> SUFFICES Insert(w) /\ RowOK(l, w) /\ w.of = x
  OBVIOUS
<1>1. Columns(l) = LinkColumns
  BY ColumnsOf DEF Tabled
<1>2. DOMAIN w = {"exists", "deleted", "of", "user"} /\ DOMAIN LinkColumns = DOMAIN w
  BY DEF NewLink, LinkColumns
<1>3. w = [c \in DOMAIN w |-> w[c]]
  BY DEF NewLink
<1>4. w["exists"] \in LinkColumns["exists"] /\ w["deleted"] \in LinkColumns["deleted"]
  BY DEF NewLink, LinkColumns
<1>5. /\ w["of"] \in LinkColumns["of"]
      /\ w["user"] \in LinkColumns["user"]
  BY DEF NewLink, LinkColumns
<1>6. Insert(w) /\ w.of = x
  BY DEF NewLink, Insert
<1> HIDE DEF w
<1>7. \A c \in DOMAIN LinkColumns : w[c] \in LinkColumns[c]
  BY <1>2, <1>4, <1>5
<1> QED
  BY <1>1, <1>2, <1>3, <1>6, <1>7 DEF RowOK

LEMMA NewAttachmentRow ==
  ASSUME NEW a \in Attachments, NEW k \in Keys, NEW n \in Sizes,
         NEW x \in UNION {Projects, Features, Tasks, Activities}, NEW u \in Users
  PROVE  Insert(NewAttachment(k, n, x, u)) /\ RowOK(a, NewAttachment(k, n, x, u))
<1> DEFINE w == NewAttachment(k, n, x, u)
<1> SUFFICES Insert(w) /\ RowOK(a, w)
  OBVIOUS
<1>1. Columns(a) = AttachmentColumns
  BY ColumnsOf DEF Tabled
<1>2. DOMAIN w = {"exists", "deleted", "s3_key", "size_bytes", "of", "uploaded_by"} /\ DOMAIN AttachmentColumns = DOMAIN w
  BY DEF NewAttachment, AttachmentColumns
<1>3. w = [c \in DOMAIN w |-> w[c]]
  BY DEF NewAttachment
<1>4. w["exists"] \in AttachmentColumns["exists"] /\ w["deleted"] \in AttachmentColumns["deleted"]
  BY DEF NewAttachment, AttachmentColumns
<1>5. /\ w["s3_key"] \in AttachmentColumns["s3_key"]
      /\ w["size_bytes"] \in AttachmentColumns["size_bytes"]
      /\ w["of"] \in AttachmentColumns["of"]
      /\ w["uploaded_by"] \in AttachmentColumns["uploaded_by"]
  BY DEF NewAttachment, AttachmentColumns
<1>6. Insert(w)
  BY DEF NewAttachment, Insert
<1> HIDE DEF w
<1>7. \A c \in DOMAIN AttachmentColumns : w[c] \in AttachmentColumns[c]
  BY <1>2, <1>4, <1>5
<1> QED
  BY <1>1, <1>2, <1>3, <1>6, <1>7 DEF RowOK

\* A request adds a member or an assignee.
LEMMA LinkOne ==
  ASSUME AllInv, NEW r \in Requests, caller[r] # None, NEW l \in Links,
         NEW x \in UNION {Projects, Features, Tasks, Activities}, db[x].exists,
         NEW u \in Users, FlushLink(r, l :> NewLink(x, u)), UNCHANGED <<objects, scope>>,
         NewId(l)
  PROVE  AllInv'
<1> DEFINE w == NewLink(x, u)
<1>1. Insert(w) /\ RowOK(l, w) /\ w.of = x /\ FlushLink(r, l :> w)
  BY NewLinkRow
<1> HIDE DEF w
<1>2. \A y \in Tabled : RefersTo(l, w, y) => db[y].exists
  BY <1>1, Tables DEF RefersTo
<1>3. Fits(l, w) /\ l \notin Attachments /\ l \in Tabled
  BY Tables DEF Fits, Tabled
<1> QED
  BY <1>1, <1>2, <1>3, InsertOne

\* The caller of a request is a user.
LEMMA CallerIsUser ==
  ASSUME AllInv, NEW r \in Requests, caller[r] # None
  PROVE  caller[r] \in Users
BY DEF AllInv, WorkInv, CallersOK, MaybeNone

\* A request that inserts a row, and with it rows that order is not about.
LEMMA InsertMore ==
  ASSUME AllInv, NEW r \in Requests, caller[r] # None, NEW rows,
         Flush(r, rows) \/ FlushLink(r, rows), UNCHANGED <<objects, scope>>,
         NEW x \in Tabled \ Attachments, x \in DOMAIN rows,
         \A y \in Tabled \intersect DOMAIN rows :
           /\ y = x \/ y \in Links
           /\ NewId(y) /\ Insert(rows[y]) /\ RowOK(y, rows[y])
           /\ \A z \in Tabled : RefersTo(y, rows[y], z)
                                  => db[z].exists \/ (z \in DOMAIN rows /\ Insert(rows[z])),
         Serial => Fits(x, rows[x])
  PROVE  AllInv'
<1> DEFINE M == Merged(db, rows)
<1>1. \A y \in Tabled \intersect DOMAIN rows : WriteOK(y, rows)
  BY DEF WriteOK, NewId
<1>2. Apart(r, rows)
  BY DEF Apart, NewId
<1>3. \A y \in Ordered : y \in DOMAIN db /\ y \in Tabled /\ y \notin Links
  BY Tables DEF AllInv, WorkInv, Ordered, Tabled
<1>4. \A y \in Ordered \ {x} : M[y] = db[y]
  <2>1. \A y \in Ordered \ {x} : y \notin DOMAIN rows
    BY <1>3
  <2> QED
    BY <1>3, <2>1 DEF Merged
<1>5. M[x] = rows[x]
  <2>1. ~db[x].exists /\ (db[x] = Absent \/ RowOK(x, db[x])) /\ RowOK(x, rows[x])
    BY DEF NewId, AllInv, WorkInv, RowsOK
  <2>2. db[x] = Absent /\ rows[x] @@ Absent = rows[x]
    BY <2>1, InsertedRow
  <2>3. x \in DOMAIN db
    BY Tables DEF AllInv, WorkInv
  <2> QED
    BY <2>2, <2>3 DEF Merged
<1>6. Serial => InOrder(M)
  <2> HIDE DEF M
  <2> QED
    BY <1>4, <1>5, InOrderExcept DEF AllInv, SerialInv
<1>7. MovesOK(r, rows)
  BY DEF MovesOK, NewId, Tabled
<1> QED
  BY <1>1, <1>2, <1>6, <1>7, FlushRows

-------------------------------------------------------------------------------
(* Projects                                                                *)

LEMMA CreateProjectStep ==
  ASSUME AllInv, NEW r \in Requests, NEW p \in Projects, NEW s \in MaybeNone(Dates),
         NEW e \in MaybeNone(Dates), NEW l \in Links, create_project(r, p, s, e, l),
         UNCHANGED <<objects, scope>>
  PROVE  AllInv'
<1> DEFINE rows == p :> NewProject(s, e) @@ l :> NewLink(p, caller[r])
<1>1. /\ caller[r] # None /\ check_dates(s, e) /\ NewId(p) /\ NewId(l)
      /\ Flush(r, rows)
  BY DEF create_project, Serving
<1>2. p # l /\ p \in Tabled /\ l \in Tabled /\ p \notin Attachments
  BY Tables DEF Tabled
<1>3. /\ DOMAIN rows = {p, l}
      /\ rows[p] = NewProject(s, e) /\ rows[l] = NewLink(p, caller[r])
  BY <1>2 DEF :>, @@
<1> HIDE DEF rows
<1>4. Insert(rows[p]) /\ RowOK(p, rows[p])
  BY <1>3, NewProjectRow
<1>5. Insert(rows[l]) /\ RowOK(l, rows[l]) /\ rows[l].of = p
  BY <1>1, <1>3, NewLinkRow, CallerIsUser
<1>6. Fits(p, rows[p])
  <2>1. rows[p].start_date = s /\ rows[p].end_date = e /\ Live(rows[p])
    BY <1>3 DEF NewProject, Live
  <2> QED
    BY <1>1, <2>1, Tables DEF Fits
<1>7. \A y \in Tabled : RefersTo(p, rows[p], y) => FALSE
  BY Tables DEF RefersTo
<1>8. \A y \in Tabled : RefersTo(l, rows[l], y) => y = p
  BY <1>5, Tables DEF RefersTo
<1> QED
  BY <1>1, <1>2, <1>3, <1>4, <1>5, <1>6, <1>7, <1>8, InsertMore

LEMMA CreateProjectMemberStep ==
  ASSUME AllInv, NEW r \in Requests, NEW p \in Projects, NEW u \in Users,
         NEW l \in Links, create_project_member(r, p, u, l), UNCHANGED <<objects, scope>>
  PROVE  AllInv'
<1> DEFINE rows == l :> NewLink(p, u) @@ Email(l) :> NewEmail(u)
<1>1. /\ caller[r] # None /\ Present(p) /\ NewId(l)
      /\ FlushLink(r, rows)
  BY DEF create_project_member, Serving
<1>2. l \in Tabled /\ l \notin Attachments /\ Email(l) \notin Tabled /\ l # Email(l)
  <2>1. Email(l) \in Emails /\ Email(l) \in Rows
    BY DEF Emails, Rows
  <2> QED
    BY <2>1, Tables, WorkspaceAssumption, AttachmentsAssumption DEF Tabled
<1>3. DOMAIN rows = {l, Email(l)} /\ rows[l] = NewLink(p, u)
  BY <1>2 DEF :>, @@
<1> HIDE DEF rows
<1>4. Insert(rows[l]) /\ RowOK(l, rows[l]) /\ rows[l].of = p
  BY <1>3, NewLinkRow
<1>5. \A y \in Tabled : RefersTo(l, rows[l], y) => db[y].exists
  BY <1>1, <1>4, Tables DEF RefersTo, Present, Live
<1>6. Fits(l, rows[l])
  BY Tables DEF Fits
<1> QED
  BY <1>1, <1>2, <1>3, <1>4, <1>5, <1>6, InsertMore

LEMMA UpdateProjectStep ==
  ASSUME AllInv, NEW r \in Requests, NEW p \in Projects, NEW s \in MaybeNone(Dates),
         NEW e \in MaybeNone(Dates), update_project(r, p, s, e), UNCHANGED <<objects, scope>>
  PROVE  AllInv'
<1> DEFINE new == [start_date |-> s, end_date |-> e]
           w == Changes(db[p], new)
<1>1. /\ caller[r] # None /\ Present(p) /\ check_dates(s, e)
      /\ Flush(r, p :> w)
  BY DEF update_project, Serving
<1>2. p \in Tabled /\ Columns(p) = ProjectColumns /\ RowOK(p, db[p])
  BY <1>1, ColumnsOf, AbsentFields DEF Tabled, Present, Live, AllInv, WorkInv, RowsOK
<1>3. DOMAIN new = {"start_date", "end_date"} /\ new["start_date"] = s /\ new["end_date"] = e
  OBVIOUS
<1>4. /\ DOMAIN ProjectColumns = {"exists", "deleted", "start_date", "end_date"}
      /\ ProjectColumns["start_date"] = MaybeNone(Dates)
      /\ ProjectColumns["end_date"] = MaybeNone(Dates)
  BY DEF ProjectColumns
<1>5. DOMAIN db[p] = {"exists", "deleted", "start_date", "end_date"}
  BY <1>2, <1>4 DEF RowOK
<1> HIDE DEF new
<1>6. DOMAIN w \subseteq DOMAIN new /\ \A f \in DOMAIN w : w[f] = new[f]
  BY DEF Changes
<1>7. /\ (w @@ db[p])["start_date"] = s /\ (w @@ db[p])["end_date"] = e
      /\ (w @@ db[p])["exists"] = db[p]["exists"] /\ (w @@ db[p])["deleted"] = db[p]["deleted"]
  BY <1>3, <1>5, ChangedRow
<1> HIDE DEF w
<1>8. ~Insert(w)
  BY <1>3, <1>6 DEF Insert
<1>9. ColumnsOK(p, w)
  BY <1>2, <1>3, <1>4, <1>6, Tables DEF ColumnsOK
<1>10. Fits(p, w @@ db[p])
  BY <1>1, <1>7, Tables DEF Fits, Present, Live
<1>11. p \notin Tasks
  BY Tables
<1>12. db[p].exists
  BY <1>1 DEF Present, Live
<1> QED
  BY <1>1, <1>2, <1>8, <1>9, <1>10, <1>11, <1>12, UpdateOne

\* A project without tasks goes with its features.
LEMMA EmptyFeatures ==
  ASSUME NEW p, count_active_tasks(p) = 0, NEW f \in list_active_by_project(p)
  PROVE  TasksOf(f) = {}
<1> DEFINE T == UNION {TasksOf(g) : g \in list_active_by_project(p)}
<1>1. T \subseteq Tasks
  BY DEF TasksOf
<1>2. IsFiniteSet(T) /\ Cardinality(T) = 0
  BY <1>1, WorkspaceAssumption, FS_Subset DEF count_active_tasks
<1>3. T = {}
  BY <1>2, FS_EmptySet
<1> QED
  BY <1>3

LEMMA DeleteProjectStep ==
  ASSUME AllInv, NEW r \in Requests, NEW p \in Projects, delete_project(r, p),
         UNCHANGED <<objects, scope>>
  PROVE  AllInv'
<1> DEFINE gone == list_active_by_project(p)
           w == [deleted |-> TRUE]
           rows == [x \in {p} \union gone |-> w]
           M == Merged(db, rows)
<1>1. /\ caller[r] # None /\ Present(p) /\ count_active_tasks(p) = 0
      /\ Flush(r, rows)
  BY DEF delete_project, Serving
<1>2. /\ gone \subseteq Features
      /\ \A f \in gone : Present(f) /\ db[f].project = p /\ TasksOf(f) = {}
  BY <1>1, EmptyFeatures DEF list_active_by_project
<1>3. DOMAIN rows = {p} \union gone /\ \A x \in DOMAIN rows : rows[x] = w
  OBVIOUS
<1>4. DOMAIN w = {"deleted"} /\ w["deleted"] = TRUE
  OBVIOUS
<1>5. \A f \in Features : Present(f) /\ db[f].project = p => f \in gone
  BY DEF list_active_by_project
<1> HIDE DEF gone, rows, w
<1>6. \A x \in DOMAIN rows : x \in Tabled /\ db[x].exists
  BY <1>1, <1>2, <1>3 DEF Tabled, Present, Live
<1>7. ASSUME NEW x \in Tabled \intersect DOMAIN rows
      PROVE  WriteOK(x, rows)
  <2>1. ColumnsOK(x, w) /\ ~Insert(w)
    BY <1>4, RowExists DEF ColumnsOK, Insert
  <2> QED
    BY <1>3, <1>6, <2>1 DEF WriteOK
<1>8. Apart(r, rows)
  BY <1>3, <1>4 DEF Apart, Insert
<1>9. \A y \in Ordered : y \in DOMAIN db
  BY Tables DEF AllInv, WorkInv, Ordered, Tabled
<1>10. \A y \in Ordered : IF y \in {p} \union gone THEN M[y] = w @@ db[y] ELSE M[y] = db[y]
  BY <1>3, <1>9 DEF Merged
<1>11. \A row : ~Live(w @@ row)
  BY <1>4 DEF @@, Live
<1> HIDE DEF M
<1>12. \A y \in Ordered \intersect ({p} \union gone) : ~Live(M[y])
  BY <1>10, <1>11
<1>13. ASSUME InOrder(db) PROVE InOrder(M)
  <2>1. FeaturesIn(M)
    <3> SUFFICES ASSUME NEW f \in Features, Live(M[f]) PROVE Live(M[M[f].project])
      BY DEF FeaturesIn
    <3>1. f \notin gone /\ M[f] = db[f] /\ Present(f)
      BY <1>10, <1>12, Tables DEF Ordered, Present
    <3>2. db[f].project \in Projects /\ Live(db[db[f].project]) /\ db[f].project # p
      BY <1>5, <1>13, <3>1, ProjectOfFeature DEF AllInv, InOrder, FeaturesIn, Present, Live
    <3>3. db[f].project \notin gone
      BY <1>2, <3>2, Tables
    <3> QED
      BY <1>10, <3>1, <3>2, <3>3 DEF Ordered
  <2>2. TasksIn(M)
    <3> SUFFICES ASSUME NEW t \in Tasks, Live(M[t]), M[t].feature # None
                 PROVE  Live(M[M[t].feature])
      BY DEF TasksIn
    <3>1. M[t] = db[t] /\ Present(t) /\ db[t].exists
      BY <1>2, <1>10, <1>12, Tables DEF Ordered, Present, Live
    <3>2. db[t].feature \in Features /\ Live(db[db[t].feature])
      BY <1>13, <3>1, FeatureOfTask DEF AllInv, InOrder, TasksIn, Present, MaybeNone
    <3>3. db[t].feature \notin gone /\ db[t].feature # p
      BY <1>2, <3>1, <3>2, Tables DEF TasksOf
    <3> QED
      BY <1>10, <3>1, <3>2, <3>3 DEF Ordered
  <2>3. DatesIn(M)
    <3>1. \A q \in Projects : Live(M[q]) => M[q] = db[q]
      BY <1>10, <1>12 DEF Ordered
    <3> QED
      BY <1>13, <3>1 DEF InOrder, DatesIn
  <2>4. FilesIn(M)
    <3>1. \A a \in Attachments : M[a] = db[a]
      BY <1>2, <1>10, Tables DEF Ordered
    <3> QED
      BY <1>13, <3>1 DEF InOrder, FilesIn
  <2> QED
    BY <2>1, <2>2, <2>3, <2>4 DEF InOrder
<1>14. MovesOK(r, rows)
  <2>1. \A t \in Tasks : t \notin DOMAIN rows
    BY <1>2, <1>3, Tables
  <2> QED
    BY <2>1 DEF MovesOK
<1>15. Serial => InOrder(Merged(db, rows))
  BY <1>13 DEF M, AllInv, SerialInv
<1> QED
  BY <1>1, <1>7, <1>8, <1>14, <1>15, FlushRows

LEMMA DeleteProjectMemberStep ==
  ASSUME AllInv, NEW r \in Requests, NEW l \in Links, delete_project_member(r, l),
         UNCHANGED <<objects, scope>>
  PROVE  AllInv'
<1>1. l \in Tabled \ Projects /\ l \notin Features
  BY Tables DEF Tabled
<1> QED
  BY <1>1, DeleteOne DEF delete_project_member, Serving, Present, Live

-------------------------------------------------------------------------------
(* Features and tasks                                                      *)

LEMMA CreateFeatureStep ==
  ASSUME AllInv, NEW r \in Requests, NEW f \in Features, NEW p \in Projects,
         create_feature(r, f, p), UNCHANGED <<objects, scope>>
  PROVE  AllInv'
<1> DEFINE w == NewFeature(p)
<1>1. /\ caller[r] # None /\ Present(p) /\ NewId(f)
      /\ Flush(r, f :> w)
  BY DEF create_feature, Serving
<1>2. Insert(w) /\ RowOK(f, w) /\ w.project = p
  BY NewFeatureRow DEF NewFeature
<1> HIDE DEF w
<1>3. f \in Tabled /\ f \notin Attachments
  BY Tables DEF Tabled
<1>4. \A y \in Tabled : RefersTo(f, w, y) => db[y].exists
  BY <1>1, <1>2, Tables DEF RefersTo, Present, Live
<1>5. Fits(f, w)
  BY <1>1, <1>2, Tables DEF Fits, NewId, Present, Live
<1> QED
  BY <1>1, <1>2, <1>3, <1>4, <1>5, InsertOne

LEMMA DeleteFeatureStep ==
  ASSUME AllInv, NEW r \in Requests, NEW f \in Features, delete_feature(r, f),
         UNCHANGED <<objects, scope>>
  PROVE  AllInv'
<1>1. f \in Tabled \ Projects
  BY Tables DEF Tabled
<1> QED
  BY <1>1, DeleteOne DEF delete_feature, Serving, Present, Live

LEMMA CreateFeatureMemberStep ==
  ASSUME AllInv, NEW r \in Requests, NEW f \in Features, NEW u \in Users, NEW l \in Links,
         create_feature_member(r, f, u, l), UNCHANGED <<objects, scope>>
  PROVE  AllInv'
BY LinkOne DEF create_feature_member, Serving, get_usable_feature, Present, Live

LEMMA DeleteFeatureMemberStep ==
  ASSUME AllInv, NEW r \in Requests, NEW l \in Links, delete_feature_member(r, l),
         UNCHANGED <<objects, scope>>
  PROVE  AllInv'
<1>1. l \in Tabled \ Projects /\ l \notin Features
  BY Tables DEF Tabled
<1> QED
  BY <1>1, DeleteOne DEF delete_feature_member, Serving, Present, Live

LEMMA CreateTaskStep ==
  ASSUME AllInv, NEW r \in Requests, NEW t \in Tasks, NEW f \in MaybeNone(Features),
         NEW p \in MaybeNone(Projects), create_task(r, t, f, p), UNCHANGED <<objects, scope>>
  PROVE  AllInv'
<1> DEFINE w == NewTask(f, p, caller[r])
<1>1. /\ caller[r] # None /\ NewId(t) /\ Flush(r, t :> w)
      /\ f # None => get_usable_feature(f)
  BY DEF create_task, Serving
<1>2. Insert(w) /\ RowOK(t, w) /\ w.feature = f
  BY <1>1, NewTaskRow, CallerIsUser DEF NewTask
<1> HIDE DEF w
<1>3. t \in Tabled /\ t \notin Attachments
  BY Tables DEF Tabled
<1>4. \A y \in Tabled : RefersTo(t, w, y) => db[y].exists
  BY <1>1, <1>2, Tables DEF RefersTo, get_usable_feature, Present, Live
<1>5. Fits(t, w)
  BY <1>1, <1>2, Tables DEF Fits, get_usable_feature, MaybeNone
<1> QED
  BY <1>1, <1>2, <1>3, <1>4, <1>5, InsertOne

\* Who may move a task belongs to the project it comes from, and to the one it
\* goes to.
LEMMA MoveAllowed ==
  ASSUME NEW r, NEW t, NEW f, can_write(r, t, FALSE), authorize_move(r, f),
         NEW g \in {db[t].feature, f} \ {None}
  PROVE  AdminOrMember(r, db[g].project)
<1>1. caller[r] \in Admins \union Managers /\ caller[r] \notin Employees
  BY WorkspaceAssumption DEF authorize_move
<1>2. can_manage(r, t)
  BY <1>1 DEF can_write
<1>3. CASE g = f
  BY <1>3 DEF authorize_move
<1>4. CASE g = db[t].feature
  BY <1>2, <1>4 DEF can_manage, AdminOrMember
<1> QED
  BY <1>3, <1>4

LEMMA UpdateTaskStep ==
  ASSUME AllInv, NEW r \in Requests, NEW t \in Tasks, NEW f \in MaybeNone(Features),
         NEW p \in MaybeNone(Projects), update_task(r, t, f, p), UNCHANGED <<objects, scope>>
  PROVE  AllInv'
<1> DEFINE new == [feature |-> f, project |-> p]
           w == Changes(db[t], new)
<1>1. /\ caller[r] # None /\ Present(t) /\ can_write(r, t, FALSE)
      /\ f # db[t].feature => authorize_move(r, f)
      /\ Flush(r, t :> w)
  BY DEF update_task, Serving
<1>2. t \in Tabled /\ Columns(t) = TaskColumns /\ RowOK(t, db[t]) /\ db[t].exists
  BY <1>1, ColumnsOf, AbsentFields DEF Tabled, Present, Live, AllInv, WorkInv, RowsOK
<1>3. DOMAIN new = {"feature", "project"} /\ new["feature"] = f /\ new["project"] = p
  OBVIOUS
<1>4. /\ DOMAIN TaskColumns = {"exists", "deleted", "feature", "project", "created_by"}
      /\ TaskColumns["feature"] = MaybeNone(Features)
      /\ TaskColumns["project"] = MaybeNone(Projects)
  BY DEF TaskColumns
<1>5. DOMAIN db[t] = {"exists", "deleted", "feature", "project", "created_by"}
  BY <1>2, <1>4 DEF RowOK
<1> HIDE DEF new
<1>6. /\ DOMAIN w \subseteq DOMAIN new
      /\ \A c \in DOMAIN w : w[c] = new[c] /\ new[c] # db[t][c]
  BY DEF Changes
<1>7. (w @@ db[t])["feature"] = f
  BY <1>3, <1>5, ChangedRow
<1> HIDE DEF w
<1>8. ~Insert(w)
  BY <1>3, <1>6 DEF Insert
<1>9. f # db[t].feature /\ f # None => get_usable_feature(f)
  BY <1>1 DEF authorize_move
<1>10. ColumnsOK(t, w)
  <2>1. "feature" \in DOMAIN w /\ w["feature"] # None => db[w["feature"]].exists
    BY <1>3, <1>6, <1>9 DEF get_usable_feature, Present, Live
  <2> QED
    BY <1>2, <1>3, <1>4, <1>6, <2>1, Tables DEF ColumnsOK
<1>11. Serial => Fits(t, w @@ db[t])
  <2>1. SUFFICES ASSUME Serial, f # None
                 PROVE  f \in Features /\ Present(f)
    BY <1>7, Tables DEF Fits
  <2>2. f = db[t].feature => Present(f)
    BY <1>1, <2>1 DEF AllInv, SerialInv, InOrder, TasksIn, Present
  <2> QED
    BY <1>9, <2>1, <2>2 DEF get_usable_feature, MaybeNone
<1>12. "feature" \in DOMAIN w
         => \A g \in {db[t].feature, w.feature} \ {None} : AdminOrMember(r, db[g].project)
  <2> SUFFICES ASSUME "feature" \in DOMAIN w, NEW g \in {db[t].feature, w.feature} \ {None}
               PROVE  AdminOrMember(r, db[g].project)
    OBVIOUS
  <2>1. w.feature = f /\ f # db[t].feature
    BY <1>3, <1>6
  <2> QED
    BY <1>1, <2>1, MoveAllowed
<1> QED
  BY <1>1, <1>2, <1>8, <1>10, <1>11, <1>12, UpdateOne

LEMMA DeleteTaskStep ==
  ASSUME AllInv, NEW r \in Requests, NEW t \in Tasks, delete_task(r, t),
         UNCHANGED <<objects, scope>>
  PROVE  AllInv'
<1>1. t \in Tabled \ Projects /\ t \notin Features
  BY Tables DEF Tabled
<1> QED
  BY <1>1, DeleteOne DEF delete_task, Serving, Present, Live

LEMMA CreateAssigneeStep ==
  ASSUME AllInv, NEW r \in Requests, NEW t \in Tasks, NEW u \in Users, NEW l \in Links,
         create_assignee(r, t, u, l), UNCHANGED <<objects, scope>>
  PROVE  AllInv'
BY LinkOne DEF create_assignee, Serving, Present, Live

LEMMA DeleteAssigneeStep ==
  ASSUME AllInv, NEW r \in Requests, NEW l \in Links, delete_assignee(r, l),
         UNCHANGED <<objects, scope>>
  PROVE  AllInv'
<1>1. l \in Tabled \ Projects /\ l \notin Features
  BY Tables DEF Tabled
<1> QED
  BY <1>1, DeleteOne DEF delete_assignee, Serving, Present, Live

-------------------------------------------------------------------------------
(* Activities and time logs                                                *)

LEMMA CreateActivityStep ==
  ASSUME AllInv, NEW r \in Requests, NEW a \in Activities, NEW p \in MaybeNone(Projects),
         create_activity(r, a, p), UNCHANGED <<objects, scope>>
  PROVE  AllInv'
<1> DEFINE w == NewActivity(p, caller[r])
<1>1. caller[r] # None /\ NewId(a) /\ Flush(r, a :> w)
  BY DEF create_activity, Serving
<1>2. Insert(w) /\ RowOK(a, w)
  BY <1>1, NewActivityRow, CallerIsUser
<1> HIDE DEF w
<1>3. a \in Tabled /\ a \notin Attachments /\ Fits(a, w)
  BY Tables DEF Tabled, Fits
<1>4. \A y \in Tabled : ~RefersTo(a, w, y)
  BY Tables DEF RefersTo
<1> QED
  BY <1>1, <1>2, <1>3, <1>4, InsertOne

LEMMA UpdateActivityStep ==
  ASSUME AllInv, NEW r \in Requests, NEW a \in Activities, update_activity(r, a),
         UNCHANGED <<objects, scope>>
  PROVE  AllInv'
<1> DEFINE w == [updated_by |-> caller[r]]
<1>1. caller[r] # None /\ Present(a) /\ Flush(r, a :> w)
  BY DEF update_activity, Serving
<1>2. DOMAIN w = {"updated_by"} /\ w["updated_by"] = caller[r] /\ ~Insert(w)
  BY DEF Insert
<1> HIDE DEF w
<1>3. a \in Tabled /\ a \notin Tasks /\ db[a].exists
  BY <1>1, Tables DEF Tabled, Present, Live
<1>4. ColumnsOK(a, w)
  <2>1. Columns(a) = ActivityColumns
    BY <1>3, ColumnsOf
  <2>2. /\ "updated_by" \in DOMAIN ActivityColumns
        /\ ActivityColumns["updated_by"] = MaybeNone(Users)
    BY DEF ActivityColumns
  <2>3. caller[r] \in MaybeNone(Users)
    BY <1>1, CallerIsUser DEF MaybeNone
  <2> QED
    BY <1>2, <1>3, <2>1, <2>2, <2>3 DEF ColumnsOK
<1>5. Fits(a, w @@ db[a])
  BY Tables DEF Fits
<1> QED
  BY <1>1, <1>2, <1>3, <1>4, <1>5, UpdateOne

LEMMA DeleteActivityStep ==
  ASSUME AllInv, NEW r \in Requests, NEW a \in Activities, delete_activity(r, a),
         UNCHANGED <<objects, scope>>
  PROVE  AllInv'
<1>1. a \in Tabled \ Projects /\ a \notin Features
  BY Tables DEF Tabled
<1> QED
  BY <1>1, DeleteOne DEF delete_activity, Serving, Present, Live

LEMMA CreateActivityAssigneeStep ==
  ASSUME AllInv, NEW r \in Requests, NEW a \in Activities, NEW u \in Users, NEW l \in Links,
         create_activity_assignee(r, a, u, l), UNCHANGED <<objects, scope>>
  PROVE  AllInv'
BY LinkOne DEF create_activity_assignee, Serving, Present, Live

LEMMA DeleteActivityAssigneeStep ==
  ASSUME AllInv, NEW r \in Requests, NEW l \in Links, delete_activity_assignee(r, l),
         UNCHANGED <<objects, scope>>
  PROVE  AllInv'
<1>1. l \in Tabled \ Projects /\ l \notin Features
  BY Tables DEF Tabled
<1> QED
  BY <1>1, DeleteOne DEF delete_activity_assignee, Serving, Present, Live

LEMMA CreateTimeLogStep ==
  ASSUME AllInv, NEW r \in Requests, NEW tl \in TimeLogs, NEW x \in Tasks \union Activities,
         NEW n \in Minutes, create_time_log(r, tl, x, n), UNCHANGED <<objects, scope>>
  PROVE  AllInv'
<1> DEFINE w == NewTimeLog(x, caller[r], n)
<1>1. caller[r] # None /\ Present(x) /\ NewId(tl) /\ Flush(r, tl :> w)
  BY DEF create_time_log, require_assigned_target, Serving
<1>2. Insert(w) /\ RowOK(tl, w) /\ w.of = x
  BY <1>1, NewTimeLogRow, CallerIsUser DEF NewTimeLog
<1> HIDE DEF w
<1>3. tl \in Tabled /\ tl \notin Attachments /\ Fits(tl, w)
  BY Tables DEF Tabled, Fits
<1>4. \A y \in Tabled : RefersTo(tl, w, y) => db[y].exists
  BY <1>1, <1>2, Tables DEF RefersTo, Present, Live
<1> QED
  BY <1>1, <1>2, <1>3, <1>4, InsertOne

LEMMA UpdateTimeLogStep ==
  ASSUME AllInv, NEW r \in Requests, NEW tl \in TimeLogs, NEW n \in Minutes,
         update_time_log(r, tl, n), UNCHANGED <<objects, scope>>
  PROVE  AllInv'
<1> DEFINE w == [minutes |-> n]
<1>1. caller[r] # None /\ Present(tl) /\ Flush(r, tl :> w)
  BY DEF update_time_log, get_own_time_log, Serving
<1>2. DOMAIN w = {"minutes"} /\ w["minutes"] = n /\ ~Insert(w)
  BY DEF Insert
<1> HIDE DEF w
<1>3. tl \in Tabled /\ tl \notin Tasks /\ db[tl].exists
  BY <1>1, Tables DEF Tabled, Present, Live
<1>4. ColumnsOK(tl, w)
  <2>1. Columns(tl) = TimeLogColumns
    BY <1>3, ColumnsOf
  <2>2. "minutes" \in DOMAIN TimeLogColumns /\ TimeLogColumns["minutes"] = Minutes
    BY DEF TimeLogColumns
  <2> QED
    BY <1>2, <1>3, <2>1, <2>2 DEF ColumnsOK
<1>5. Fits(tl, w @@ db[tl])
  BY Tables DEF Fits
<1> QED
  BY <1>1, <1>2, <1>3, <1>4, <1>5, UpdateOne

LEMMA DeleteTimeLogStep ==
  ASSUME AllInv, NEW r \in Requests, NEW tl \in TimeLogs, delete_time_log(r, tl),
         UNCHANGED <<objects, scope>>
  PROVE  AllInv'
<1>1. tl \in Tabled \ Projects /\ tl \notin Features
  BY Tables DEF Tabled
<1> QED
  BY <1>1, DeleteOne DEF delete_time_log, get_own_time_log, Serving, Present, Live

-------------------------------------------------------------------------------
(* Attachments                                                             *)

LEMMA CreateAttachmentStep ==
  ASSUME AllInv, NEW r \in Requests, NEW a \in Attachments, NEW k \in Keys, NEW n \in Sizes,
         NEW x \in UNION {Projects, Features, Tasks, Activities},
         create_attachment(r, a, k, n, x), UNCHANGED scope
  PROVE  AllInv'
<1> DEFINE w == NewAttachment(k, n, x, caller[r])
           M == Merged(db, a :> w)
<1>1. /\ caller[r] # None /\ NewId(a) /\ Flush(r, a :> w) /\ objects[k] # 0
      /\ ~s3_key_exists(k) /\ UNCHANGED <<objects, scope>>
  BY DEF create_attachment, CanRegister, Serving, files
<1>2. Insert(w) /\ RowOK(a, w) /\ w.s3_key = k
  BY <1>1, NewAttachmentRow, CallerIsUser DEF NewAttachment
<1> HIDE DEF w
<1>3. a \in Tabled /\ Fits(a, w)
  BY Tables DEF Tabled, Fits
<1>4. \A y \in Tabled : ~RefersTo(a, w, y)
  BY Tables DEF RefersTo
<1>5. M[a] = w /\ \A b \in Attachments \ {a} : M[b] = db[b]
  <2>1. ~db[a].exists /\ (db[a] = Absent \/ RowOK(a, db[a]))
    BY <1>1, <1>3 DEF NewId, AllInv, WorkInv, RowsOK
  <2>2. db[a] = Absent
    BY <1>3, <2>1, InsertedRow
  <2>3. M[a] = w @@ db[a]
    BY <1>3, MergedOne
  <2>4. w @@ Absent = w
    BY <1>2, <1>3, InsertedRow
  <2>5. \A y \in Ordered \ {a} : M[y] = db[y]
    BY <1>3, MergedOne
  <2> QED
    BY <2>2, <2>3, <2>4, <2>5 DEF Ordered
<1>6. ASSUME Serial PROVE FilesIn(M)
  <2> HIDE DEF M
  <2>1. FilesIn(db)
    BY <1>6 DEF AllInv, SerialInv, InOrder
  <2>2. \A b \in Attachments : db[b].exists => db[b].s3_key # k
    BY <1>1 DEF s3_key_exists
  <2> QED
    BY <1>1, <1>2, <1>5, <2>1, <2>2 DEF FilesIn
<1> QED
  BY <1>1, <1>2, <1>3, <1>4, <1>6, InsertOne

LEMMA DeleteAttachmentStep ==
  ASSUME AllInv, NEW r \in Requests, NEW a \in Attachments, delete_attachment(r, a),
         UNCHANGED scope
  PROVE  AllInv'
<1>1. a \in Tabled \ Projects /\ a \notin Features
  BY Tables DEF Tabled
<1>2. UNCHANGED <<objects, scope>>
  BY DEF delete_attachment, files
<1> QED
  BY <1>1, <1>2, DeleteOne DEF delete_attachment, Serving, Present, Live

\* When requests do not interleave, the one that ends leaves nobody who is about
\* to write.
LEMMA EndOrder ==
  ASSUME AllInv, NEW r \in Used(Requests), Done(r), UNCHANGED scope, DOMAIN objects' = Keys,
         db' = [x \in Rows \union Attachments |-> db'[x]],
         Serial => InOrder(db)'
  PROVE  SerialInv'
<1>1. r \in Requests /\ OpenSessions /\ CallersOK /\ SerialInv
  BY DEF Used, AllInv, WorkInv
<1>2. /\ caller'[r] = None /\ write'[r] = Nothing
      /\ \A q \in Requests \ {r} : caller'[q] = caller[q] /\ write'[q] = write[q]
  BY <1>1, DoneEffect
<1>3. Serial' = Serial /\ Used(Requests)' = Used(Requests)
  BY DEF Serial, Used
<1>4. \A q \in Requests \ Used(Requests) : caller'[q] = None
  BY <1>1, <1>2 DEF SerialInv
<1>5. ASSUME Serial, NEW q \in Requests PROVE write'[q] = Nothing
  <2>1. CASE q = r
    BY <1>2, <2>1
  <2>2. CASE q # r
    <3>1. q \notin Used(Requests)
      BY <1>5, <2>2, SerialRequest
    <3> QED
      BY <1>1, <1>2, <2>2, <3>1 DEF SerialInv, CallersOK
  <2> QED
    BY <2>1, <2>2
<1>6. ASSUME Serial, NEW q \in Requests
      PROVE  InOrder(Written(q))' /\ MovesOK(q, write[q])'
  <2>1. write'[q] = Nothing
    BY <1>5, <1>6
  <2>2. Written(q)' = Merged(db', Nothing)
    BY <2>1 DEF Written, Merged
  <2>3. Written(q)' = db'
    BY <2>2, MergedNothing
  <2>4. InOrder(Written(q))'
    BY <1>6, <2>3 DEF InOrder, FeaturesIn, TasksIn, DatesIn, FilesIn
  <2>5. MovesOK(q, write[q])'
    BY <2>1, NothingIsEmpty DEF MovesOK
  <2> QED
    BY <2>4, <2>5
<1> QED
  BY <1>3, <1>4, <1>6 DEF SerialInv

LEMMA UnchangedEnd ==
  ASSUME AllInv, NEW r \in Used(Requests), Done(r), UNCHANGED <<db, objects, scope>>
  PROVE  AllInv'
<1>1. WorkInv'
  BY EndStep DEF AllInv, Used
<1>2. InOrder(db)' <=> InOrder(db)
  BY DEF InOrder, FeaturesIn, TasksIn, DatesIn, FilesIn
<1>3. Serial => InOrder(db)'
  BY <1>2 DEF AllInv, SerialInv
<1>4. db' = [x \in Rows \union Attachments |-> db'[x]] /\ DOMAIN objects' = Keys
  BY DEF AllInv, SerialInv
<1>5. SerialInv'
  BY <1>3, <1>4, EndOrder
<1> QED
  BY <1>1, <1>5 DEF AllInv

LEMMA RefuseAttachmentStep ==
  ASSUME AllInv, NEW r \in Used(Requests), NEW k \in Keys, NEW n, NEW x,
         refuse_attachment(r, k, n, x), UNCHANGED scope
  PROVE  AllInv'
<1>1. /\ Done(r) /\ db' = db /\ ~s3_key_exists(k)
      /\ objects' = [objects EXCEPT ![k] = 0]
  BY DEF refuse_attachment, CanRegister
<1>2. WorkInv'
  BY <1>1, EndStep DEF AllInv, Used
<1>3. db' = [y \in Rows \union Attachments |-> db'[y]] /\ DOMAIN objects' = Keys
  BY <1>1 DEF AllInv, SerialInv
<1>4. ASSUME InOrder(db) PROVE InOrder(db)'
  <2>1. \A a \in Attachments : db[a].exists => objects'[db[a].s3_key] = objects[db[a].s3_key]
    BY <1>1 DEF s3_key_exists, AllInv, SerialInv
  <2>2. FilesIn(db)'
    BY <1>1, <1>4, <2>1 DEF InOrder, FilesIn
  <2> QED
    BY <1>1, <1>4, <2>2 DEF InOrder, FeaturesIn, TasksIn, DatesIn
<1>5. SerialInv'
  BY <1>1, <1>3, <1>4, EndOrder DEF AllInv, SerialInv
<1> QED
  BY <1>2, <1>5 DEF AllInv

\* An attachment has a key of the storage.
LEMMA KeyOfAttachment ==
  ASSUME WorkInv, NEW a \in Attachments, NEW row, row.exists, row = Absent \/ RowOK(a, row)
  PROVE  row.s3_key \in Keys
<1>1. RowOK(a, row)
  BY AbsentFields
<1>2. Columns(a) = AttachmentColumns
  BY ColumnsOf DEF Tabled
<1> QED
  BY <1>1, <1>2 DEF RowOK, AttachmentColumns

LEMMA WorkInvUnchanged ==
  ASSUME WorkInv, UNCHANGED vars
  PROVE  WorkInv'
<1>1. OpenSessions' /\ RowsOK' /\ RefsOK'
  BY DEF vars, WorkInv, OpenSessions, RowsOK, RefsOK
<1>2. WritesOK' /\ WritesApart' /\ CallersOK'
  BY DEF vars, WorkInv, WritesOK, WriteOK, ColumnsOK, WritesApart, Apart, CallersOK
<1> QED
  BY <1>1, <1>2 DEF WorkInv, vars

\* Steps of the client and the storage.
LEMMA StorageStep ==
  ASSUME AllInv, UNCHANGED vars, DOMAIN objects' = Keys,
         \A k \in Keys : objects'[k] = 0 => objects[k] = 0
  PROVE  AllInv'
<1>1. WorkInv'
  BY WorkInvUnchanged DEF AllInv
<1>2. db' = db /\ caller' = caller /\ write' = write /\ scope' = scope
  BY DEF vars
<1>3. Serial' = Serial /\ Used(Requests)' = Used(Requests)
  BY <1>2 DEF Serial, Used
<1>4. ASSUME NEW D, InOrder(D), \A a \in Attachments : D[a].exists => D[a].s3_key \in Keys
      PROVE  FeaturesIn(D) /\ TasksIn(D) /\ DatesIn(D)
             /\ \A a \in Attachments : D[a].exists =>
                  /\ objects'[D[a].s3_key] # 0
                  /\ \A b \in Attachments \ {a} : D[b].exists => D[b].s3_key # D[a].s3_key
  BY <1>4 DEF InOrder, FilesIn
<1>5. Serial => InOrder(db)'
  <2>1. Serial => InOrder(db)
    BY DEF AllInv, SerialInv
  <2>2. \A a \in Attachments : db[a].exists => db[a].s3_key \in Keys
    BY KeyOfAttachment DEF AllInv, WorkInv, RowsOK, Tabled
  <2> QED
    BY <1>2, <1>4, <2>1, <2>2 DEF InOrder, FilesIn, FeaturesIn, TasksIn, DatesIn
<1>6. ASSUME Serial, NEW r \in Requests
      PROVE  InOrder(Written(r))' /\ MovesOK(r, write[r])'
  <2>1. Written(r)' = Written(r)
    BY <1>2 DEF Written
  <2>2. InOrder(Written(r)) /\ MovesOK(r, write[r])
    BY <1>6 DEF AllInv, SerialInv
  <2>3. \A a \in Attachments : Written(r)[a].exists => Written(r)[a].s3_key \in Keys
    BY WrittenTypes, KeyOfAttachment DEF AllInv, Tabled
  <2>4. InOrder(Written(r))'
    BY <1>4, <2>1, <2>2, <2>3 DEF InOrder, FilesIn, FeaturesIn, TasksIn, DatesIn
  <2>5. MovesOK(r, write[r])'
    BY <1>2, <2>2 DEF MovesOK, AdminOrMember, is_member, Linked, Present
  <2> QED
    BY <2>4, <2>5
<1> QED
  BY <1>1, <1>2, <1>3, <1>5, <1>6 DEF AllInv, SerialInv

LEMMA AuthenticateOrder ==
  ASSUME AllInv, NEW r \in Used(Requests), NEW u \in Users, authenticate(r, u),
         UNCHANGED <<objects, scope>>
  PROVE  AllInv'
<1>1. /\ r \in Requests /\ OpenSessions /\ caller[r] = None
      /\ db' = db /\ write' = write /\ objects' = objects
      /\ caller' = [caller EXCEPT ![r] = u]
  BY DEF Used, AllInv, WorkInv, authenticate
<1>2. WorkInv'
  BY <1>1, AuthenticateStep DEF AllInv
<1>3. Serial' = Serial /\ Used(Requests)' = Used(Requests)
  BY DEF Serial, Used
<1>4. \A q \in Requests \ {r} : caller'[q] = caller[q]
  BY <1>1 DEF OpenSessions
<1>5. \A q \in Requests \ Used(Requests) : caller'[q] = None
  BY <1>4 DEF AllInv, SerialInv
<1>6. InOrder(db) <=> InOrder(db)'
  BY <1>1 DEF InOrder, FeaturesIn, TasksIn, DatesIn, FilesIn
<1>7. ASSUME Serial, NEW q \in Requests
      PROVE  InOrder(Written(q))' /\ MovesOK(q, write[q])'
  <2>1. InOrder(Written(q)) /\ MovesOK(q, write[q])
    BY <1>7 DEF AllInv, SerialInv
  <2>2. Written(q)' = Written(q)
    BY <1>1 DEF Written
  <2>3. InOrder(Written(q))'
    BY <1>1, <2>1, <2>2 DEF InOrder, FeaturesIn, TasksIn, DatesIn, FilesIn
  <2>4. CASE q = r
    <3>1. write[q] = Nothing
      BY <1>1, <2>4 DEF AllInv, WorkInv, CallersOK
    <3> QED
      BY <1>1, <2>3, <3>1, NothingIsEmpty DEF MovesOK
  <2>5. CASE q # r
    BY <1>1, <1>4, <2>1, <2>3, <2>5 DEF MovesOK, AdminOrMember, is_member, Linked, Present
  <2> QED
    BY <2>4, <2>5
<1> QED
  BY <1>1, <1>2, <1>3, <1>5, <1>6, <1>7 DEF AllInv, SerialInv

LEMMA CommitOrder ==
  ASSUME AllInv, NEW r \in Used(Requests), commit(r), UNCHANGED <<objects, scope>>
  PROVE  AllInv'
<1>1. r \in Requests /\ db' = Written(r) /\ Done(r)
  BY DEF Used, commit
<1>2. WorkInv'
  BY <1>1, CommitStep DEF AllInv
<1>3. db' = [x \in Rows \union Attachments |-> db'[x]]
  BY <1>1 DEF Written, AllInv, WorkInv
<1>4. Serial => InOrder(Written(r))
  BY <1>1 DEF AllInv, SerialInv
<1>5. Serial => InOrder(db)'
  BY <1>1, <1>4 DEF InOrder, FeaturesIn, TasksIn, DatesIn, FilesIn
<1>6. SerialInv'
  BY <1>1, <1>3, <1>5, EndOrder DEF AllInv, SerialInv
<1> QED
  BY <1>2, <1>6 DEF AllInv

-------------------------------------------------------------------------------
(* Every step                                                              *)

LEMMA Initially == WorkInit => AllInv
<1> SUFFICES ASSUME WorkInit PROVE AllInv
  OBVIOUS
<1>1. /\ db = [x \in Rows \union Attachments |-> Absent]
      /\ \A r \in Requests : caller[r] = None /\ write[r] = Nothing
      /\ DOMAIN objects = Keys
  BY DEF WorkInit, Idle
<1>2. \A x \in Rows \union Attachments : ~db[x].exists
  BY <1>1, AbsentFields
<1>3. Ordered \subseteq Rows \union Attachments
  BY DEF Ordered, Rows
<1>4. InOrder(db)
  BY <1>2, <1>3 DEF Ordered, InOrder, FeaturesIn, TasksIn, DatesIn, FilesIn, Live
<1>5. \A r \in Requests : Written(r) = db
  <2> SUFFICES ASSUME NEW r \in Requests PROVE Written(r) = db
    OBVIOUS
  <2>1. Written(r) = Merged(db, Nothing)
    BY <1>1 DEF Written, Merged
  <2> QED
    BY <1>1, <2>1, MergedNothing
<1>6. \A r \in Requests : MovesOK(r, write[r])
  BY <1>1, NothingIsEmpty DEF MovesOK
<1> QED
  BY <1>1, <1>4, <1>5, <1>6, WorkInitially DEF AllInv, SerialInv

LEMMA ProjectSteps ==
  ASSUME AllInv, UNCHANGED <<objects, scope>>, NEW r \in Used(Requests),
         NEW p \in Used(Projects),
         \/ \E s, e \in MaybeNone(Used(Dates)) :
              \/ \E l \in Used(Links) : create_project(r, p, s, e, l)
              \/ update_project(r, p, s, e)
         \/ delete_project(r, p)
         \/ \E u \in Used(Users), l \in Used(Links) : create_project_member(r, p, u, l)
         \/ \E f \in Used(Features) : create_feature(r, f, p)
  PROVE  AllInv'
<1>0. r \in Requests /\ p \in Projects
  BY DEF Used
<1>1. ASSUME NEW s \in MaybeNone(Used(Dates)), NEW e \in MaybeNone(Used(Dates)),
             NEW l \in Used(Links), create_project(r, p, s, e, l)
      PROVE  AllInv'
  <2>1. s \in MaybeNone(Dates) /\ e \in MaybeNone(Dates) /\ l \in Links
    BY DEF MaybeNone, Used
  <2> QED
    BY <1>0, <1>1, <2>1, CreateProjectStep
<1>2. ASSUME NEW s \in MaybeNone(Used(Dates)), NEW e \in MaybeNone(Used(Dates)),
             update_project(r, p, s, e)
      PROVE  AllInv'
  <2>1. s \in MaybeNone(Dates) /\ e \in MaybeNone(Dates)
    BY DEF MaybeNone, Used
  <2> QED
    BY <1>0, <1>2, <2>1, UpdateProjectStep
<1>3. CASE delete_project(r, p)
  BY <1>0, <1>3, DeleteProjectStep
<1>4. ASSUME NEW u \in Used(Users), NEW l \in Used(Links), create_project_member(r, p, u, l)
      PROVE  AllInv'
  <2>1. u \in Users /\ l \in Links
    BY DEF Used
  <2> QED
    BY <1>0, <1>4, <2>1, CreateProjectMemberStep
<1>5. ASSUME NEW f \in Used(Features), create_feature(r, f, p)
      PROVE  AllInv'
  <2>1. f \in Features
    BY DEF Used
  <2> QED
    BY <1>0, <1>5, <2>1, CreateFeatureStep
<1> QED
  BY <1>1, <1>2, <1>3, <1>4, <1>5

LEMMA TaskSteps ==
  ASSUME AllInv, UNCHANGED <<objects, scope>>, NEW r \in Used(Requests), NEW t \in Used(Tasks),
         \/ \E f \in MaybeNone(Used(Features)), p \in MaybeNone(Used(Projects)) :
              create_task(r, t, f, p) \/ update_task(r, t, f, p)
         \/ delete_task(r, t)
         \/ \E u \in Used(Users), l \in Used(Links) : create_assignee(r, t, u, l)
  PROVE  AllInv'
<1>0. r \in Requests /\ t \in Tasks
  BY DEF Used
<1>1. ASSUME NEW f \in MaybeNone(Used(Features)), NEW p \in MaybeNone(Used(Projects)),
             create_task(r, t, f, p) \/ update_task(r, t, f, p)
      PROVE  AllInv'
  <2>1. f \in MaybeNone(Features) /\ p \in MaybeNone(Projects)
    BY DEF MaybeNone, Used
  <2> QED
    BY <1>0, <1>1, <2>1, CreateTaskStep, UpdateTaskStep
<1>2. CASE delete_task(r, t)
  BY <1>0, <1>2, DeleteTaskStep
<1>3. ASSUME NEW u \in Used(Users), NEW l \in Used(Links), create_assignee(r, t, u, l)
      PROVE  AllInv'
  <2>1. u \in Users /\ l \in Links
    BY DEF Used
  <2> QED
    BY <1>0, <1>3, <2>1, CreateAssigneeStep
<1> QED
  BY <1>1, <1>2, <1>3

LEMMA FeatureSteps ==
  ASSUME AllInv, UNCHANGED <<objects, scope>>, NEW r \in Used(Requests),
         NEW f \in Used(Features),
         \/ delete_feature(r, f)
         \/ \E u \in Used(Users), l \in Used(Links) : create_feature_member(r, f, u, l)
  PROVE  AllInv'
<1>1. r \in Requests /\ f \in Features /\ Used(Users) \subseteq Users /\ Used(Links) \subseteq Links
  BY DEF Used
<1> QED
  BY <1>1, DeleteFeatureStep, CreateFeatureMemberStep

LEMMA LinkSteps ==
  ASSUME AllInv, UNCHANGED <<objects, scope>>, NEW r \in Used(Requests), NEW l \in Used(Links),
         \/ delete_project_member(r, l)
         \/ delete_feature_member(r, l)
         \/ delete_assignee(r, l)
         \/ delete_activity_assignee(r, l)
  PROVE  AllInv'
<1>1. r \in Requests /\ l \in Links
  BY DEF Used
<1> QED
  BY <1>1, DeleteProjectMemberStep, DeleteFeatureMemberStep, DeleteAssigneeStep,
     DeleteActivityAssigneeStep

LEMMA ActivitySteps ==
  ASSUME AllInv, UNCHANGED <<objects, scope>>, NEW r \in Used(Requests),
         NEW a \in Used(Activities),
         \/ \E p \in MaybeNone(Used(Projects)) : create_activity(r, a, p)
         \/ update_activity(r, a)
         \/ delete_activity(r, a)
         \/ \E u \in Used(Users), l \in Used(Links) : create_activity_assignee(r, a, u, l)
  PROVE  AllInv'
<1>1. /\ r \in Requests /\ a \in Activities
      /\ Used(Users) \subseteq Users /\ Used(Links) \subseteq Links
      /\ MaybeNone(Used(Projects)) \subseteq MaybeNone(Projects)
  BY DEF Used, MaybeNone
<1> QED
  BY <1>1, CreateActivityStep, UpdateActivityStep, DeleteActivityStep,
     CreateActivityAssigneeStep

LEMMA TimeLogSteps ==
  ASSUME AllInv, UNCHANGED <<objects, scope>>, NEW r \in Used(Requests),
         NEW tl \in Used(TimeLogs),
         \/ \E x \in Used(Tasks \union Activities), n \in Minutes : create_time_log(r, tl, x, n)
         \/ \E n \in Minutes : update_time_log(r, tl, n)
         \/ delete_time_log(r, tl)
  PROVE  AllInv'
<1>1. /\ r \in Requests /\ tl \in TimeLogs
      /\ Used(Tasks \union Activities) \subseteq Tasks \union Activities
  BY DEF Used
<1> QED
  BY <1>1, CreateTimeLogStep, UpdateTimeLogStep, DeleteTimeLogStep

LEMMA RequestSteps ==
  ASSUME AllInv, Next, UNCHANGED <<objects, scope>>
  PROVE  AllInv'
<1>1. PICK r \in Used(Requests) : Next!(r)
  BY DEF Next
<1>2. ASSUME NEW u \in Used(Users), authenticate(r, u)
      PROVE  AllInv'
  <2>1. u \in Users
    BY DEF Used
  <2> QED
    BY <1>2, <2>1, AuthenticateOrder
<1>3. CASE rollback(r)
  BY <1>3, UnchangedEnd DEF rollback
<1>4. CASE commit(r)
  BY <1>4, CommitOrder
<1> QED
  BY <1>1, <1>2, <1>3, <1>4, ProjectSteps, FeatureSteps, TaskSteps, LinkSteps, ActivitySteps,
     TimeLogSteps

LEMMA AttachmentSteps ==
  ASSUME AllInv, AttachmentNext, UNCHANGED scope
  PROVE  AllInv'
<1> DEFINE targets == UNION {Projects, Features, Tasks, Activities}
<1>0. /\ Used(Requests) \subseteq Requests /\ Used(Keys) \subseteq Keys
      /\ Used(Attachments) \subseteq Attachments /\ Used(targets) \subseteq targets
  BY DEF Used
<1>1. ASSUME NEW r \in Used(Requests), NEW k \in Used(Keys), NEW n \in Sizes,
             create_upload_url(r, k, n)
      PROVE  AllInv'
  BY <1>1, UnchangedEnd DEF create_upload_url
<1>2. ASSUME NEW r \in Used(Requests), NEW k \in Used(Keys), NEW n \in Sizes,
             NEW x \in Used(targets), NEW a \in Used(Attachments),
             create_attachment(r, a, k, n, x)
      PROVE  AllInv'
  BY <1>0, <1>2, CreateAttachmentStep
<1>3. ASSUME NEW r \in Used(Requests), NEW k \in Used(Keys), NEW n \in Sizes,
             NEW x \in Used(targets), refuse_attachment(r, k, n, x)
      PROVE  AllInv'
  BY <1>0, <1>3, RefuseAttachmentStep
<1>4. ASSUME NEW r \in Used(Requests), NEW a \in Used(Attachments), delete_attachment(r, a)
      PROVE  AllInv'
  BY <1>0, <1>4, DeleteAttachmentStep
<1>5. ASSUME NEW k \in Used(Keys), NEW n \in Sizes, put_object(k, n)
      PROVE  AllInv'
  <2>1. objects' = [objects EXCEPT ![k] = n] /\ UNCHANGED vars
    BY <1>5 DEF put_object, vars
  <2>2. DOMAIN objects = Keys /\ n # 0
    BY AttachmentsAssumption DEF AllInv, SerialInv
  <2> QED
    BY <2>1, <2>2, StorageStep
<1>6. ASSUME NEW k \in Used(Keys), expire_url(k)
      PROVE  AllInv'
  <2>1. objects' = objects /\ UNCHANGED vars
    BY <1>6 DEF expire_url, vars
  <2>2. DOMAIN objects = Keys
    BY DEF AllInv, SerialInv
  <2> QED
    BY <2>1, <2>2, StorageStep
<1> QED
  BY <1>1, <1>2, <1>3, <1>4, <1>5, <1>6 DEF AttachmentNext

LEMMA EveryStep ==
  ASSUME AllInv, [WorkNext /\ UNCHANGED scope]_<<vars, files>>
  PROVE  AllInv'
<1>1. CASE Next /\ UNCHANGED files /\ UNCHANGED scope
  BY <1>1, RequestSteps DEF files
<1>2. CASE AttachmentNext /\ UNCHANGED scope
  BY <1>2, AttachmentSteps
<1>3. CASE UNCHANGED <<vars, files>>
  <2>1. UNCHANGED vars /\ objects' = objects /\ DOMAIN objects = Keys
    BY <1>3 DEF files, AllInv, SerialInv
  <2> QED
    BY <2>1, StorageStep
<1> QED
  BY <1>1, <1>2, <1>3 DEF WorkNext

\* In every state, what requests are about to write keeps the tables well
\* formed, and unless requests interleave keeps them in order.
THEOREM WorkInvariant == WorkSpec => []AllInv
<1>1. WorkInit => AllInv
  BY Initially
<1>2. AllInv /\ [WorkNext /\ UNCHANGED scope]_<<vars, files>> => AllInv'
  BY EveryStep
<1> QED
  BY <1>1, <1>2, PTL DEF WorkSpec

\* Only a commit changes rows.
LEMMA CommitsOnly ==
  ASSUME [WorkNext /\ UNCHANGED scope]_<<vars, files>>
  PROVE  UNCHANGED db \/ \E r \in Used(Requests) : commit(r)
<1> USE DEF Flush, FlushLink, Done
<1>1. CASE UNCHANGED <<vars, files>>
  BY <1>1 DEF vars
<1>2. CASE AttachmentNext
  BY <1>2 DEF AttachmentNext, create_upload_url, create_attachment, refuse_attachment,
     delete_attachment, put_object, expire_url
<1>3. ASSUME NEW r \in Used(Requests), Next!(r)
      PROVE  UNCHANGED db \/ commit(r)
  BY <1>3
  DEF authenticate, create_project, update_project, delete_project, create_project_member,
      create_feature, delete_feature, create_feature_member, create_task, update_task,
      delete_task, create_assignee, delete_project_member, delete_feature_member,
      delete_assignee, delete_activity_assignee, create_activity, update_activity,
      delete_activity, create_activity_assignee, create_time_log, update_time_log,
      delete_time_log, rollback
<1> QED
  BY <1>1, <1>2, <1>3 DEF WorkNext, Next

-------------------------------------------------------------------------------
(* Links                                                                   *)

\* A link that a request inserts is of a project that it inserts too, or is not
\* among those that it found.
Looked(rows, found) ==
  \A l \in Links \intersect DOMAIN rows :
    Insert(rows[l]) =>
      \/ \E p \in Projects \intersect DOMAIN rows : Insert(rows[p]) /\ rows[l].of = p
      \/ /\ DOMAIN found = Links
         /\ \A m \in Links : Live(found[m]) => \/ found[m].of # rows[l].of
                                               \/ found[m].user # rows[l].user

LinksLooked == \A r \in Requests : Looked(write[r], loaded[r])

LEMMA FlushLooked ==
  ASSUME OpenSessions, LinksLooked, NEW r \in Requests, NEW rows,
         Flush(r, rows) \/ FlushLink(r, rows), Looked(rows, loaded'[r])
  PROVE  LinksLooked'
BY Flushed DEF LinksLooked

\* A request that writes to one row, and inserts no link.
LEMMA FlushOne ==
  ASSUME OpenSessions, LinksLooked, NEW r \in Requests, NEW x, NEW w, Flush(r, x :> w),
         x \notin Links \/ ~Insert(w)
  PROVE  LinksLooked'
<1> DEFINE rows == x :> w
<1>1. DOMAIN rows = {x} /\ rows[x] = w /\ Flush(r, rows)
  BY OneRow
<1> HIDE DEF rows
<1>2. Looked(rows, loaded'[r])
  BY <1>1 DEF Looked
<1> QED
  BY <1>1, <1>2, FlushLooked

\* A request that found no link of x and u inserts one.
LEMMA FlushNewLink ==
  ASSUME OpenSessions, LinksLooked, NEW r \in Requests, NEW rows, NEW l \in Links,
         NEW x, NEW u, FlushLink(r, rows), DOMAIN rows \intersect Links = {l},
         rows[l] = NewLink(x, u), ~Linked(x, u)
  PROVE  LinksLooked'
<1>1. loaded'[r] = [m \in Links |-> db[m]]
  BY DEF FlushLink, OpenSessions
<1>2. rows[l].of = x /\ rows[l].user = u
  BY DEF NewLink
<1>3. \A m \in Links : Live(db[m]) => db[m].of # x \/ db[m].user # u
  BY DEF Linked, Present
<1>4. Looked(rows, loaded'[r])
  BY <1>1, <1>2, <1>3 DEF Looked
<1> QED
  BY <1>4, FlushLooked

LEMMA NewLinkLooked ==
  ASSUME OpenSessions, LinksLooked, NEW r \in Requests, NEW l \in Links, NEW x, NEW u,
         FlushLink(r, l :> NewLink(x, u)), ~Linked(x, u)
  PROVE  LinksLooked'
<1> DEFINE rows == l :> NewLink(x, u)
<1>1. DOMAIN rows = {l} /\ rows[l] = NewLink(x, u) /\ FlushLink(r, rows)
  BY OneRow
<1> HIDE DEF rows
<1> QED
  BY <1>1, FlushNewLink

LEMMA MemberLooked ==
  ASSUME OpenSessions, LinksLooked, NEW r \in Requests, NEW p \in Projects, NEW u \in Users,
         NEW l \in Links, create_project_member(r, p, u, l)
  PROVE  LinksLooked'
<1> DEFINE rows == l :> NewLink(p, u) @@ Email(l) :> NewEmail(u)
<1>1. FlushLink(r, rows) /\ ~Linked(p, u)
  BY DEF create_project_member
<1>2. Email(l) \notin Links
  BY WorkspaceAssumption DEF Emails
<1>3. DOMAIN rows \intersect Links = {l} /\ rows[l] = NewLink(p, u)
  BY <1>2 DEF :>, @@
<1> HIDE DEF rows
<1> QED
  BY <1>1, <1>3, FlushNewLink

LEMMA CreatorLooked ==
  ASSUME OpenSessions, LinksLooked, NEW r \in Requests, NEW p \in Projects, NEW s, NEW e,
         NEW l \in Links, create_project(r, p, s, e, l)
  PROVE  LinksLooked'
<1> DEFINE rows == p :> NewProject(s, e) @@ l :> NewLink(p, caller[r])
<1>1. Flush(r, rows)
  BY DEF create_project
<1>2. p # l /\ p \notin Links
  BY Tables
<1>3. /\ DOMAIN rows = {p, l}
      /\ rows[p] = NewProject(s, e) /\ rows[l] = NewLink(p, caller[r])
  BY <1>2 DEF :>, @@
<1> HIDE DEF rows
<1>4. Insert(rows[p]) /\ rows[l].of = p
  BY <1>3 DEF Insert, NewProject, NewLink
<1>5. Looked(rows, loaded'[r])
  BY <1>2, <1>3, <1>4 DEF Looked
<1> QED
  BY <1>1, <1>5, FlushLooked

LEMMA ProjectLooked ==
  ASSUME OpenSessions, LinksLooked, NEW r \in Requests, NEW p \in Projects,
         delete_project(r, p)
  PROVE  LinksLooked'
<1> DEFINE gone == {p} \union list_active_by_project(p)
           rows == [x \in gone |-> [deleted |-> TRUE]]
<1>1. Flush(r, rows)
  BY DEF delete_project
<1>2. DOMAIN rows \intersect Links = {}
  BY Tables DEF list_active_by_project
<1> HIDE DEF rows
<1>3. Looked(rows, loaded'[r])
  BY <1>2 DEF Looked
<1> QED
  BY <1>1, <1>3, FlushLooked

LEMMA DeletedLooked ==
  ASSUME OpenSessions, LinksLooked, NEW r \in Requests, NEW x,
         Flush(r, x :> [deleted |-> TRUE])
  PROVE  LinksLooked'
<1>1. ~Insert([deleted |-> TRUE])
  BY DEF Insert
<1> QED
  BY <1>1, FlushOne

LEMMA EndLooked ==
  ASSUME OpenSessions, LinksLooked, NEW r \in Requests, Done(r)
  PROVE  LinksLooked'
<1>1. Looked(Nothing, loaded'[r])
  BY NothingIsEmpty DEF Looked
<1> QED
  BY <1>1, DoneEffect DEF LinksLooked

\* Whatever a request does, it looks before it links.
LEMMA RequestLooked ==
  ASSUME OpenSessions, LinksLooked, NEW r \in Used(Requests), Next!(r)
  PROVE  LinksLooked'
<1>0. /\ r \in Requests
      /\ Used(Projects) \subseteq Projects /\ Used(Features) \subseteq Features
      /\ Used(Tasks) \subseteq Tasks /\ Used(Activities) \subseteq Activities
      /\ Used(TimeLogs) \subseteq TimeLogs /\ Used(Links) \subseteq Links
      /\ Used(Users) \subseteq Users
  BY DEF Used
<1>1. \A x \in UNION {Projects, Features, Tasks, Activities, TimeLogs} : x \notin Links
  BY Tables
<1>2. CASE \E u \in Used(Users) : authenticate(r, u)
  BY <1>2 DEF authenticate, LinksLooked
<1>3. ASSUME NEW p \in Used(Projects),
             \/ \E s, e \in MaybeNone(Used(Dates)) :
                  \/ \E l \in Used(Links) : create_project(r, p, s, e, l)
                  \/ update_project(r, p, s, e)
             \/ delete_project(r, p)
             \/ \E u \in Used(Users), l \in Used(Links) : create_project_member(r, p, u, l)
             \/ \E f \in Used(Features) : create_feature(r, f, p)
      PROVE  LinksLooked'
  <2>1. ASSUME NEW s, NEW e, update_project(r, p, s, e)
        PROVE  LinksLooked'
    BY <1>0, <1>1, <2>1, FlushOne DEF update_project
  <2>2. ASSUME NEW f \in Used(Features), create_feature(r, f, p)
        PROVE  LinksLooked'
    BY <1>0, <1>1, <2>2, FlushOne DEF create_feature
  <2> QED
    BY <1>0, <1>3, <2>1, <2>2, CreatorLooked, ProjectLooked, MemberLooked
<1>4. ASSUME NEW f \in Used(Features),
             \/ delete_feature(r, f)
             \/ \E u \in Used(Users), l \in Used(Links) : create_feature_member(r, f, u, l)
      PROVE  LinksLooked'
  <2>1. CASE delete_feature(r, f)
    BY <1>0, <2>1, DeletedLooked DEF delete_feature
  <2>2. ASSUME NEW u, NEW l \in Used(Links), create_feature_member(r, f, u, l)
        PROVE  LinksLooked'
    BY <1>0, <2>2, NewLinkLooked DEF create_feature_member
  <2> QED
    BY <1>4, <2>1, <2>2
<1>5. ASSUME NEW t \in Used(Tasks),
             \/ \E f \in MaybeNone(Used(Features)), p \in MaybeNone(Used(Projects)) :
                  create_task(r, t, f, p) \/ update_task(r, t, f, p)
             \/ delete_task(r, t)
             \/ \E u \in Used(Users), l \in Used(Links) : create_assignee(r, t, u, l)
      PROVE  LinksLooked'
  <2>1. ASSUME NEW f, NEW p, create_task(r, t, f, p)
        PROVE  LinksLooked'
    BY <1>0, <1>1, <2>1, FlushOne DEF create_task
  <2>2. ASSUME NEW f, NEW p, update_task(r, t, f, p)
        PROVE  LinksLooked'
    BY <1>0, <1>1, <2>2, FlushOne DEF update_task
  <2>3. CASE delete_task(r, t)
    BY <1>0, <2>3, DeletedLooked DEF delete_task
  <2>4. ASSUME NEW u, NEW l \in Used(Links), create_assignee(r, t, u, l)
        PROVE  LinksLooked'
    BY <1>0, <2>4, NewLinkLooked DEF create_assignee
  <2> QED
    BY <1>5, <2>1, <2>2, <2>3, <2>4
<1>6. ASSUME NEW l \in Used(Links),
             \/ delete_project_member(r, l) \/ delete_feature_member(r, l)
             \/ delete_assignee(r, l) \/ delete_activity_assignee(r, l)
      PROVE  LinksLooked'
  BY <1>0, <1>6, DeletedLooked
  DEF delete_project_member, delete_feature_member, delete_assignee, delete_activity_assignee
<1>7. ASSUME NEW a \in Used(Activities),
             \/ \E p \in MaybeNone(Used(Projects)) : create_activity(r, a, p)
             \/ update_activity(r, a)
             \/ delete_activity(r, a)
             \/ \E u \in Used(Users), l \in Used(Links) : create_activity_assignee(r, a, u, l)
      PROVE  LinksLooked'
  <2>1. ASSUME NEW p, create_activity(r, a, p)
        PROVE  LinksLooked'
    BY <1>0, <1>1, <2>1, FlushOne DEF create_activity
  <2>2. CASE update_activity(r, a)
    BY <1>0, <1>1, <2>2, FlushOne DEF update_activity
  <2>3. CASE delete_activity(r, a)
    BY <1>0, <2>3, DeletedLooked DEF delete_activity
  <2>4. ASSUME NEW u, NEW l \in Used(Links), create_activity_assignee(r, a, u, l)
        PROVE  LinksLooked'
    BY <1>0, <2>4, NewLinkLooked DEF create_activity_assignee
  <2> QED
    BY <1>7, <2>1, <2>2, <2>3, <2>4
<1>8. ASSUME NEW tl \in Used(TimeLogs),
             \/ \E x \in Used(Tasks \union Activities), n \in Minutes : create_time_log(r, tl, x, n)
             \/ \E n \in Minutes : update_time_log(r, tl, n)
             \/ delete_time_log(r, tl)
      PROVE  LinksLooked'
  <2>1. ASSUME NEW x, NEW n, create_time_log(r, tl, x, n)
        PROVE  LinksLooked'
    BY <1>0, <1>1, <2>1, FlushOne DEF create_time_log
  <2>2. ASSUME NEW n, update_time_log(r, tl, n)
        PROVE  LinksLooked'
    BY <1>0, <1>1, <2>2, FlushOne DEF update_time_log
  <2>3. CASE delete_time_log(r, tl)
    BY <1>0, <2>3, DeletedLooked DEF delete_time_log
  <2> QED
    BY <1>8, <2>1, <2>2, <2>3
<1>9. CASE commit(r) \/ rollback(r)
  BY <1>0, <1>9, EndLooked DEF commit, rollback
<1> QED
  BY <1>2, <1>3, <1>4, <1>5, <1>6, <1>7, <1>8, <1>9

LEMMA LookedStep ==
  ASSUME OpenSessions, LinksLooked, [WorkNext /\ UNCHANGED scope]_<<vars, files>>
  PROVE  LinksLooked'
<1>1. CASE UNCHANGED <<write, loaded>>
  BY <1>1 DEF LinksLooked
<1>2. CASE Next
  BY <1>2, RequestLooked DEF Next
<1>3. CASE AttachmentNext
  <2>1. /\ Used(Requests) \subseteq Requests
        /\ \A a \in Used(Attachments) : a \notin Links
    BY Tables DEF Used
  <2>2. ASSUME NEW r \in Used(Requests), NEW k, NEW n, create_upload_url(r, k, n)
        PROVE  LinksLooked'
    BY <2>1, <2>2, EndLooked DEF create_upload_url
  <2>3. ASSUME NEW r \in Used(Requests), NEW k, NEW n, NEW x, NEW a \in Used(Attachments),
               create_attachment(r, a, k, n, x)
        PROVE  LinksLooked'
    BY <2>1, <2>3, FlushOne DEF create_attachment
  <2>4. ASSUME NEW r \in Used(Requests), NEW k, NEW n, NEW x, refuse_attachment(r, k, n, x)
        PROVE  LinksLooked'
    BY <2>1, <2>4, EndLooked DEF refuse_attachment
  <2>5. ASSUME NEW r \in Used(Requests), NEW a \in Used(Attachments), delete_attachment(r, a)
        PROVE  LinksLooked'
    BY <2>1, <2>5, DeletedLooked DEF delete_attachment
  <2>6. ASSUME NEW k, NEW n, put_object(k, n)
        PROVE  UNCHANGED <<write, loaded>>
    BY <2>6 DEF put_object
  <2>7. ASSUME NEW k, expire_url(k)
        PROVE  UNCHANGED <<write, loaded>>
    BY <2>7 DEF expire_url
  <2> QED
    BY <1>1, <1>3, <2>2, <2>3, <2>4, <2>5, <2>6, <2>7 DEF AttachmentNext
<1> QED
  BY <1>1, <1>2, <1>3 DEF WorkNext, vars

-------------------------------------------------------------------------------
(* Theorems                                                                *)

LEMMA RowTypes ==
  ASSUME WorkInv
  PROVE  /\ \A p \in Projects : db[p] \in Project \union {Absent}
         /\ \A f \in Features : db[f] \in Feature \union {Absent}
         /\ \A t \in Tasks : db[t] \in Task \union {Absent}
         /\ \A a \in Activities : db[a] \in Activity \union {Absent}
         /\ \A tl \in TimeLogs : db[tl] \in TimeLog \union {Absent}
         /\ \A l \in Links : db[l] \in Link \union {Absent}
<1>1. \A x \in Tabled : db[x] = Absent \/ RowOK(x, db[x])
  BY DEF WorkInv, RowsOK
<1>2. ASSUME NEW p \in Projects, RowOK(p, db[p]) PROVE db[p] \in Project
  <2> DEFINE row == db[p]
  <2>1. Columns(p) = ProjectColumns
    BY ColumnsOf DEF Tabled
  <2>2. /\ DOMAIN ProjectColumns = {"exists", "deleted", "start_date", "end_date"}
        /\ ProjectColumns["exists"] = {TRUE}
        /\ ProjectColumns["deleted"] = BOOLEAN
        /\ ProjectColumns["start_date"] = MaybeNone(Dates)
        /\ ProjectColumns["end_date"] = MaybeNone(Dates)
    BY DEF ProjectColumns
  <2>3. RowOK(p, row)
    BY <1>2
  <2> HIDE DEF row
  <2>4. row = [f \in {"exists", "deleted", "start_date", "end_date"} |-> row[f]]
    BY <2>1, <2>2, <2>3 DEF RowOK
  <2>5. /\ row["exists"] \in {TRUE}
        /\ row["deleted"] \in BOOLEAN
        /\ row["start_date"] \in MaybeNone(Dates)
        /\ row["end_date"] \in MaybeNone(Dates)
    BY <2>1, <2>2, <2>3 DEF RowOK
  <2>6. row \in Project
    BY <2>4, <2>5 DEF Project
  <2> QED
    BY <2>6 DEF row
<1>3. ASSUME NEW f \in Features, RowOK(f, db[f]) PROVE db[f] \in Feature
  <2> DEFINE row == db[f]
  <2>1. Columns(f) = FeatureColumns
    BY ColumnsOf DEF Tabled
  <2>2. /\ DOMAIN FeatureColumns = {"exists", "deleted", "project"}
        /\ FeatureColumns["exists"] = {TRUE}
        /\ FeatureColumns["deleted"] = BOOLEAN
        /\ FeatureColumns["project"] = Projects
    BY DEF FeatureColumns
  <2>3. RowOK(f, row)
    BY <1>3
  <2> HIDE DEF row
  <2>4. row = [c \in {"exists", "deleted", "project"} |-> row[c]]
    BY <2>1, <2>2, <2>3 DEF RowOK
  <2>5. /\ row["exists"] \in {TRUE}
        /\ row["deleted"] \in BOOLEAN
        /\ row["project"] \in Projects
    BY <2>1, <2>2, <2>3 DEF RowOK
  <2>6. row \in Feature
    BY <2>4, <2>5 DEF Feature
  <2> QED
    BY <2>6 DEF row
<1>4. ASSUME NEW t \in Tasks, RowOK(t, db[t]) PROVE db[t] \in Task
  <2> DEFINE row == db[t]
  <2>1. Columns(t) = TaskColumns
    BY ColumnsOf DEF Tabled
  <2>2. /\ DOMAIN TaskColumns = {"exists", "deleted", "feature", "project", "created_by"}
        /\ TaskColumns["exists"] = {TRUE}
        /\ TaskColumns["deleted"] = BOOLEAN
        /\ TaskColumns["feature"] = MaybeNone(Features)
        /\ TaskColumns["project"] = MaybeNone(Projects)
        /\ TaskColumns["created_by"] = Users
    BY DEF TaskColumns
  <2>3. RowOK(t, row)
    BY <1>4
  <2> HIDE DEF row
  <2>4. row = [f \in {"exists", "deleted", "feature", "project", "created_by"} |-> row[f]]
    BY <2>1, <2>2, <2>3 DEF RowOK
  <2>5. /\ row["exists"] \in {TRUE}
        /\ row["deleted"] \in BOOLEAN
        /\ row["feature"] \in MaybeNone(Features)
        /\ row["project"] \in MaybeNone(Projects)
        /\ row["created_by"] \in Users
    BY <2>1, <2>2, <2>3 DEF RowOK
  <2>6. row \in Task
    BY <2>4, <2>5 DEF Task
  <2> QED
    BY <2>6 DEF row
<1>5. ASSUME NEW a \in Activities, RowOK(a, db[a]) PROVE db[a] \in Activity
  <2> DEFINE row == db[a]
  <2>1. Columns(a) = ActivityColumns
    BY ColumnsOf DEF Tabled
  <2>2. /\ DOMAIN ActivityColumns = {"exists", "deleted", "project", "created_by", "updated_by"}
        /\ ActivityColumns["exists"] = {TRUE}
        /\ ActivityColumns["deleted"] = BOOLEAN
        /\ ActivityColumns["project"] = MaybeNone(Projects)
        /\ ActivityColumns["created_by"] = Users
        /\ ActivityColumns["updated_by"] = MaybeNone(Users)
    BY DEF ActivityColumns
  <2>3. RowOK(a, row)
    BY <1>5
  <2> HIDE DEF row
  <2>4. row = [f \in {"exists", "deleted", "project", "created_by", "updated_by"} |-> row[f]]
    BY <2>1, <2>2, <2>3 DEF RowOK
  <2>5. /\ row["exists"] \in {TRUE}
        /\ row["deleted"] \in BOOLEAN
        /\ row["project"] \in MaybeNone(Projects)
        /\ row["created_by"] \in Users
        /\ row["updated_by"] \in MaybeNone(Users)
    BY <2>1, <2>2, <2>3 DEF RowOK
  <2>6. row \in Activity
    BY <2>4, <2>5 DEF Activity
  <2> QED
    BY <2>6 DEF row
<1>6. ASSUME NEW tl \in TimeLogs, RowOK(tl, db[tl]) PROVE db[tl] \in TimeLog
  <2> DEFINE row == db[tl]
  <2>1. Columns(tl) = TimeLogColumns
    BY ColumnsOf DEF Tabled
  <2>2. /\ DOMAIN TimeLogColumns = {"exists", "deleted", "of", "user", "minutes"}
        /\ TimeLogColumns["exists"] = {TRUE}
        /\ TimeLogColumns["deleted"] = BOOLEAN
        /\ TimeLogColumns["of"] = Tasks \union Activities
        /\ TimeLogColumns["user"] = Users
        /\ TimeLogColumns["minutes"] = Minutes
    BY DEF TimeLogColumns
  <2>3. RowOK(tl, row)
    BY <1>6
  <2> HIDE DEF row
  <2>4. row = [f \in {"exists", "deleted", "of", "user", "minutes"} |-> row[f]]
    BY <2>1, <2>2, <2>3 DEF RowOK
  <2>5. /\ row["exists"] \in {TRUE}
        /\ row["deleted"] \in BOOLEAN
        /\ row["of"] \in Tasks \union Activities
        /\ row["user"] \in Users
        /\ row["minutes"] \in Minutes
    BY <2>1, <2>2, <2>3 DEF RowOK
  <2>6. row \in TimeLog
    BY <2>4, <2>5 DEF TimeLog
  <2> QED
    BY <2>6 DEF row
<1>7. ASSUME NEW l \in Links, RowOK(l, db[l]) PROVE db[l] \in Link
  <2> DEFINE row == db[l]
  <2>1. Columns(l) = LinkColumns
    BY ColumnsOf DEF Tabled
  <2>2. /\ DOMAIN LinkColumns = {"exists", "deleted", "user", "of"}
        /\ LinkColumns["exists"] = {TRUE}
        /\ LinkColumns["deleted"] = BOOLEAN
        /\ LinkColumns["user"] = Users
        /\ LinkColumns["of"] = UNION {Projects, Features, Tasks, Activities}
    BY DEF LinkColumns
  <2>3. RowOK(l, row)
    BY <1>7
  <2> HIDE DEF row
  <2>4. row = [f \in {"exists", "deleted", "user", "of"} |-> row[f]]
    BY <2>1, <2>2, <2>3 DEF RowOK
  <2>5. /\ row["exists"] \in {TRUE}
        /\ row["deleted"] \in BOOLEAN
        /\ row["user"] \in Users
        /\ row["of"] \in UNION {Projects, Features, Tasks, Activities}
    BY <2>1, <2>2, <2>3 DEF RowOK
  <2>6. row \in Link
    BY <2>4, <2>5 DEF Link
  <2> QED
    BY <2>6 DEF row
<1> QED
  BY <1>1, <1>2, <1>3, <1>4, <1>5, <1>6, <1>7 DEF Tabled

LEMMA TypesFromInv == WorkInv => TypeOK
<1> SUFFICES ASSUME WorkInv PROVE TypeOK
  OBVIOUS
<1>1. ASSUME NEW f \in Features, db[f].exists
      PROVE  db[db[f].project].exists
  <2>1. db[f].project \in Tabled /\ f \in Tabled
    BY <1>1, ProjectOfFeature DEF Tabled
  <2>2. RefersTo(f, db[f], db[f].project)
    BY DEF RefersTo
  <2> QED
    BY <1>1, <2>1, <2>2 DEF WorkInv, RefsOK
<1>2. ASSUME NEW t \in Tasks, db[t].exists, db[t].feature # None
      PROVE  db[db[t].feature].exists
  <2>1. db[t].feature \in Tabled /\ t \in Tabled
    BY <1>2, FeatureOfTask DEF Tabled, MaybeNone
  <2>2. RefersTo(t, db[t], db[t].feature)
    BY <1>2 DEF RefersTo
  <2> QED
    BY <1>2, <2>1, <2>2 DEF WorkInv, RefsOK
<1>3. ASSUME NEW x \in Links \union TimeLogs, db[x].exists
      PROVE  db[db[x].of].exists
  <2>1. db[x].of \in Tabled /\ x \in Tabled
    <3>1. db[x] \in Link \union TimeLog
      BY <1>3, RowTypes, AbsentFields
    <3> QED
      BY <3>1 DEF Link, TimeLog, Tabled
  <2>2. RefersTo(x, db[x], db[x].of)
    BY DEF RefersTo
  <2> QED
    BY <1>3, <2>1, <2>2 DEF WorkInv, RefsOK
<1>4. \A r \in Requests : write[r] # Nothing => caller[r] \in Users
  BY DEF WorkInv, CallersOK, MaybeNone
<1> QED
  BY RowTypes, <1>1, <1>2, <1>3, <1>4 DEF TypeOK

\* Every row keeps the columns and types of its table and refers to rows that
\* exist, and only a request with a caller writes.
THEOREM WorkTyped == WorkSpec => []TypeOK
<1>1. AllInv => TypeOK
  BY TypesFromInv DEF AllInv
<1> QED
  BY <1>1, WorkInvariant, PTL

\* Unless requests interleave, a live feature has a live project and a live task
\* of a feature a live feature: delete_project and delete_feature look at what
\* they would leave behind.
THEOREM NothingLeftBehind == WorkSpec => []NothingOrphaned
<1>1. AllInv => NothingOrphaned
  BY DEF AllInv, SerialInv, InOrder, FeaturesIn, TasksIn, NothingOrphaned, Present
<1> QED
  BY <1>1, WorkInvariant, PTL

\* Unless requests interleave, no project ends before it starts, whichever of
\* its dates update_project changes.
THEOREM DatesInOrder == WorkSpec => []DatesCrossOnlyByRace
<1>1. AllInv => DatesCrossOnlyByRace
  BY DEF AllInv, SerialInv, InOrder, DatesIn, DatesCrossOnlyByRace, Present
<1> QED
  BY <1>1, WorkInvariant, PTL

\* Unless requests interleave, the file of an attachment stays in the storage
\* under a key of its own, whatever create_attachment refuses later.
THEOREM FilesStay == WorkSpec => []FilesKept
<1>1. AllInv => FilesKept
  BY DEF AllInv, SerialInv, InOrder, FilesIn, FilesKept
<1> QED
  BY <1>1, WorkInvariant, PTL

\* A link that is inserted though it is there already was looked for, and was
\* something else then: every service that adds a member or an assignee looks
\* first, and nobody is linked yet to a project that is being created.
THEOREM AddedTwiceByRace == WorkSpec => []AddedTwiceOnlyByRace
<1>1. WorkInit => LinksLooked
  BY NothingIsEmpty DEF WorkInit, Idle, LinksLooked, Looked
<1>2. AllInv /\ LinksLooked /\ [WorkNext /\ UNCHANGED scope]_<<vars, files>> => LinksLooked'
  BY LookedStep DEF AllInv, WorkInv
<1>3. AllInv /\ LinksLooked => AddedTwiceOnlyByRace
  <2> SUFFICES ASSUME AllInv, LinksLooked, NEW r \in Requests, NEW l \in Links, NEW m \in Links,
                      l \in Inserted(r), Present(m), db[m].of = write[r][l].of,
                      db[m].user = write[r][l].user
               PROVE  m \in DOMAIN loaded[r] /\ loaded[r][m] # db[m]
    BY DEF AddedTwiceOnlyByRace
  <2>1. l \in DOMAIN write[r] /\ Insert(write[r][l]) /\ Looked(write[r], loaded[r])
    BY DEF Inserted, Insert, LinksLooked
  <2>2. ASSUME NEW p \in Projects \intersect DOMAIN write[r], Insert(write[r][p]),
               write[r][l].of = p
        PROVE  FALSE
    <3>1. p \in Tabled /\ m \in Tabled
      BY DEF Tabled
    <3>2. ~db[p].exists
      BY <2>2, <3>1 DEF AllInv, WorkInv, WritesOK, WriteOK
    <3>3. db[m].exists /\ RefersTo(m, db[m], p)
      BY <2>2 DEF Present, Live, RefersTo
    <3> QED
      BY <3>1, <3>2, <3>3 DEF AllInv, WorkInv, RefsOK
  <2>3. /\ DOMAIN loaded[r] = Links
        /\ Live(loaded[r][m]) => \/ loaded[r][m].of # write[r][l].of
                                 \/ loaded[r][m].user # write[r][l].user
    BY <2>1, <2>2 DEF Looked
  <2> QED
    BY <2>3 DEF Present
<1>4. WorkSpec => []LinksLooked
  <2>1. WorkSpec => []AllInv
    BY WorkInvariant
  <2> QED
    BY <1>1, <1>2, <2>1, PTL DEF WorkSpec
<1> QED
  BY <1>3, <1>4, WorkInvariant, PTL

\* Unless requests interleave, a task moves only when the one who moves it is an
\* admin or belongs to the projects that it leaves and enters.
THEOREM MovesWithinProjects == WorkSpec => MovesWithinMyProjects
<1> DEFINE Moved(t) == db[t].exists /\ db'[t].feature # db[t].feature
           Allowed(t) == ~Serial \/ \E r \in Requests :
                           /\ t \in DOMAIN write[r]
                           /\ \A f \in {db[t].feature, db'[t].feature} \ {None} :
                                AdminOrMember(r, db[f].project)
<1>1. ASSUME AllInv, [WorkNext /\ UNCHANGED scope]_<<vars, files>>, NEW t \in Tasks,
             Moved(t), Serial
      PROVE  Allowed(t)
  <2>1. PICK r \in Requests : commit(r)
    BY <1>1, CommitsOnly DEF Used
  <2>2. t \in Tabled /\ db' = Written(r)
    BY <2>1 DEF Tabled, commit
  <2>3. t \in DOMAIN write[r]
    BY <1>1, <2>2, WrittenRow DEF AllInv
  <2>4. ~Insert(write[r][t]) /\ RowOK(t, db[t])
    BY <1>1, <2>2, <2>3, WrittenRow, AbsentFields DEF AllInv
  <2>5. db'[t] = write[r][t] @@ db[t]
    BY <1>1, <2>2, <2>3, <2>4, WrittenRow DEF AllInv
  <2>6. "feature" \in DOMAIN db[t]
    BY <2>2, <2>4, ColumnsOf DEF RowOK, TaskColumns
  <2>7. "feature" \in DOMAIN write[r][t]
    <3>1. ASSUME "feature" \notin DOMAIN write[r][t]
          PROVE  db'[t]["feature"] = db[t]["feature"]
      BY <2>5, <2>6, <3>1 DEF @@
    <3> QED
      BY <1>1, <3>1
  <2>8. db'[t]["feature"] = write[r][t]["feature"]
    BY <2>5, <2>7 DEF @@
  <2>9. MovesOK(r, write[r])
    BY <1>1 DEF AllInv, SerialInv
  <2> QED
    BY <1>1, <2>3, <2>7, <2>8, <2>9 DEF MovesOK
<1>2. AllInv /\ [WorkNext /\ UNCHANGED scope]_<<vars, files>>
        => [\A t \in Tasks : Moved(t) => Allowed(t)]_vars
  BY <1>1
<1> QED
  BY <1>2, WorkInvariant, PTL DEF WorkSpec, MovesWithinMyProjects
===============================================================================

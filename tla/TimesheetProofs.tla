---------------------------- MODULE TimesheetProofs ----------------------------
(***************************************************************************)
(* Leave and the calendar, for any users, rows, days, times and number of  *)
(* requests.                                                               *)
(***************************************************************************)
EXTENDS Timesheet, OrmProofs, FiniteSetTheorems, WellFoundedInduction

\* The columns of the tables and what they hold.
LeaveColumns == [exists |-> {TRUE}, deleted |-> BOOLEAN, user |-> Users, start_date |-> Days,
                 end_date |-> Days, total_days |-> Nat]
DayRowColumns == [exists |-> {TRUE}, deleted |-> BOOLEAN, user |-> Users,
                  portion |-> {"full", "half"}, half_slot |-> HalfSlot \union {None},
                  slot |-> SUBSET {0, 1}]
EventColumns == [exists |-> {TRUE}, deleted |-> BOOLEAN, organization |-> BOOLEAN,
                 event_type |-> EventType, start_time |-> Times, end_time |-> Times,
                 created_by |-> Users]

RowOK(C, row) == /\ row = [f \in DOMAIN C |-> row[f]]
                 /\ \A f \in DOMAIN C : row[f] \in C[f]

Insert(w) == "exists" \in DOMAIN w

\* What an update writes.
ColumnsOK(C, w) == \A f \in DOMAIN w : f \in DOMAIN C /\ w[f] \in C[f]

\* The portion, the half and the slot of a day go together.
DayFits(row) == /\ \/ row.portion = "full" /\ row.half_slot = None
                   \/ row.portion = "half" /\ row.half_slot \in HalfSlot
                /\ row.slot = build_slot(row)

\* What is written of them fits the rest of the row, whoever wrote that, or is
\* refused by chk_leave_log_days_portion_half_slot.
ChangeFits(w) ==
  \/ {"portion", "half_slot", "slot"} \intersect DOMAIN w = {}
  \/ {"portion", "half_slot", "slot"} \subseteq DOMAIN w /\ DayFits(w)
  \/ /\ "portion" \notin DOMAIN w /\ {"half_slot", "slot"} \subseteq DOMAIN w
     /\ w.half_slot \in HalfSlot
     /\ w.slot = IF w.half_slot = first THEN {0} ELSE {1}

DaysFit == \A log \in LeaveLogs, d \in Days :
             db[LeaveDay(log, d)].exists => DayFits(db[LeaveDay(log, d)])

\* A request inserts rows of its own, or updates rows that are there.
LeaveWriteOK(log, w) ==
  IF Insert(w) THEN RowOK(LeaveColumns, w) ELSE db[log].exists /\ ColumnsOK(LeaveColumns, w)

DayWriteOK(log, x, rows) ==
  IF Insert(rows[x])
  THEN /\ RowOK(DayRowColumns, rows[x]) /\ DayFits(rows[x])
       /\ db[log].exists \/ (log \in DOMAIN rows /\ Insert(rows[log]))
  ELSE db[x].exists /\ ColumnsOK(DayRowColumns, rows[x]) /\ ChangeFits(rows[x])

EventWriteOK(ev, w) ==
  IF Insert(w) THEN RowOK(EventColumns, w)
  ELSE db[ev].exists /\ ColumnsOK(EventColumns, w) /\ "organization" \notin DOMAIN w

WriteOK(rows) ==
  /\ \A log \in LeaveLogs \intersect DOMAIN rows : LeaveWriteOK(log, rows[log])
  /\ \A log \in LeaveLogs, d \in Days :
       LeaveDay(log, d) \in DOMAIN rows => DayWriteOK(log, LeaveDay(log, d), rows)
  /\ \A ev \in Events \intersect DOMAIN rows : EventWriteOK(ev, rows[ev])

CallersOK == \A r \in Requests : /\ caller[r] \in Users \union {None}
                                 /\ caller[r] = None => write[r] = Nothing

\* A request updates days that it has read, and those that had begun only for a
\* scheduler.
BegunOK(r) ==
  \A log \in LeaveLogs, d \in Days :
    LET x == LeaveDay(log, d)
    IN  x \in DOMAIN write[r] /\ ~Insert(write[r][x])
          => /\ x \in DOMAIN loaded[r]
             /\ Live(loaded[r][x]) => \/ Scheduler(caller[r])
                                      \/ get_period_start(d, loaded[r][x]) > at[r]

\* AgreesWithDays of any rows.
ActiveDays(D, log) ==
  [d \in {e \in Days : Live(D[LeaveDay(log, e)])} |-> D[LeaveDay(log, d)]]
Agrees(D, log) ==
  LET days == ActiveDays(D, log)
  IN  D[log].exists =>
        IF D[log].deleted THEN days = Nothing
        ELSE /\ days # Nothing
             /\ D[log].start_date = Min(DOMAIN days) /\ D[log].end_date = Max(DOMAIN days)
             /\ D[log].total_days = calculate_total_days(days)

LeaveRows(log) == {log} \union DaysOf(log)

\* The rows as a request that writes them expects to leave them.
Seen(r, x) == IF x \in DOMAIN loaded[r] THEN loaded[r][x] ELSE Absent
Expected(r) == [x \in Rows |-> IF x \in DOMAIN write[r] THEN write[r][x] @@ Seen(r, x)
                               ELSE Seen(r, x)]

\* A request that writes to a leave inserts it or has read it with its days; and
\* expects to leave the two in agreement.
PlanOK(r) ==
  \A log \in LeaveLogs :
    DOMAIN write[r] \intersect LeaveRows(log) # {}
      => /\ log \in Inserted(r) \/ LeaveRows(log) \subseteq DOMAIN loaded[r]
         /\ Agrees(Expected(r), log)

TimeInv == /\ OpenSessions /\ DOMAIN at = Requests /\ clock \in Nat
           /\ DOMAIN db = Rows /\ TypeOK /\ DaysFit /\ CallersOK
           /\ \A r \in Requests : WriteOK(write[r]) /\ BegunOK(r) /\ PlanOK(r)

-------------------------------------------------------------------------------
(* The first and the last of days                                          *)

LEMMA FirstOf ==
  ASSUME NEW S, S \subseteq Nat, S # {}
  PROVE  Min(S) \in S /\ \A y \in S : Min(S) <= y
<1> DEFINE Smaller == OpToRel(<, Nat)
<1>1. IsWellFoundedOn(Smaller, Nat)
  BY NatLessThanWellFounded
<1>2. \A y, m \in Nat : y < m => <<y, m>> \in Smaller
  BY DEF OpToRel
<1> HIDE DEF Smaller
<1>3. PICK m \in S : \A y \in S : <<y, m>> \notin Smaller
  BY <1>1, WFMin
<1>4. ASSUME NEW y \in S
      PROVE  m <= y
  <2>1. y \in Nat /\ m \in Nat /\ <<y, m>> \notin Smaller
    BY <1>3
  <2>2. ~(y < m)
    BY <1>2, <2>1
  <2> QED
    BY <2>1, <2>2
<1> QED
  BY <1>4 DEF Min

\* A set without a last element has a smaller one without.
LEMMA LastOf ==
  ASSUME NEW S, S \subseteq Nat, S # {}, IsFiniteSet(S)
  PROVE  Max(S) \in S /\ \A y \in S : Max(S) >= y
<1> DEFINE HasLast(U) == \E x \in U : \A y \in U : x >= y
           Bad == {U \in SUBSET S : U # {} /\ ~HasLast(U)}
<1>1. SUFFICES ASSUME Bad # {} PROVE FALSE
  <2>1. HasLast(S)
    BY <1>1
  <2> QED
    BY <2>1 DEF Max
<1>2. IsWellFoundedOn(StrictSubsetOrdering(S), SUBSET S)
  BY FS_StrictSubsetOrderingWellFounded, FS_FiniteSubsetsOfFinite
<1>3. Bad \subseteq SUBSET S
  OBVIOUS
<1> HIDE DEF Bad
<1>4. PICK U \in Bad : \A V \in Bad : <<V, U>> \notin StrictSubsetOrdering(S)
  BY <1>1, <1>2, <1>3, WFMin
<1> USE DEF Bad
<1>5. PICK x \in U : TRUE
  BY <1>4
<1> DEFINE V == U \ {x}
<1>6. V \in SUBSET S /\ V # U /\ V \subseteq U
  BY <1>4, <1>5
<1>7. <<V, U>> \in StrictSubsetOrdering(S)
  BY <1>4, <1>6 DEF StrictSubsetOrdering
<1>8. V \notin Bad
  BY <1>4, <1>7
<1>9. CASE V = {}
  <2>1. U = {x}
    BY <1>5, <1>9
  <2>2. x >= x
    BY <1>4, <1>5
  <2> QED
    BY <1>4, <2>1, <2>2
<1>10. CASE V # {}
  <2>1. PICK m \in V : \A y \in V : m >= y
    BY <1>6, <1>8, <1>10
  <2>2. m \in Nat /\ x \in Nat /\ m \in U /\ \A y \in U : y \in V \/ y = x
    BY <1>4, <1>5, <2>1
  <2>3. CASE m >= x
    BY <1>4, <2>1, <2>2, <2>3
  <2>4. CASE ~(m >= x)
    <3>1. \A y \in V : y \in Nat /\ m >= y
      BY <1>4, <2>1
    <3>2. \A y \in U : x >= y
      BY <2>2, <2>4, <3>1
    <3> QED
      BY <1>4, <1>5, <3>2
  <2> QED
    BY <2>3, <2>4
<1> QED
  BY <1>9, <1>10

-------------------------------------------------------------------------------
(* Rows                                                                    *)

LEMMA Tables ==
  /\ \A log \in LeaveLogs : log \in Rows /\ log \notin Events
  /\ \A ev \in Events : ev \in Rows /\ ev \notin LeaveLogs
  /\ \A log \in LeaveLogs, d \in Days :
       /\ LeaveDay(log, d) \in Rows /\ LeaveDay(log, d) \in DaysOf(log)
       /\ LeaveDay(log, d) \notin LeaveLogs \union Events
  /\ \A log, m \in LeaveLogs, d, e \in Days : LeaveDay(log, d) = LeaveDay(m, e) => log = m /\ d = e
  /\ \A log, d : LeaveDay(log, d)[2] = d
<1>1. ASSUME NEW log \in LeaveLogs, NEW d \in Days
      PROVE  /\ LeaveDay(log, d) \in Rows /\ LeaveDay(log, d) \in DaysOf(log)
             /\ LeaveDay(log, d) \notin LeaveLogs \union Events
  <2>1. LeaveDay(log, d) \in LeaveLogs \X Days
    BY DEF LeaveDay
  <2>2. LeaveDay(log, d) \in DaysOf(log)
    BY DEF DaysOf
  <2> QED
    BY <2>1, <2>2, TimesheetAssumption DEF Rows, LeaveDays
<1>2. \A log, m \in LeaveLogs, d, e \in Days : LeaveDay(log, d) = LeaveDay(m, e) => log = m /\ d = e
  BY DEF LeaveDay
<1>3. \A log, d : LeaveDay(log, d)[2] = d
  BY DEF LeaveDay
<1>4. /\ \A log \in LeaveLogs : log \in Rows /\ log \notin Events
      /\ \A ev \in Events : ev \in Rows /\ ev \notin LeaveLogs
  BY TimesheetAssumption DEF Rows
<1> QED
  BY <1>1, <1>2, <1>3, <1>4

LEMMA AbsentFields == Absent.exists = FALSE /\ DOMAIN Absent = {"exists"}
BY DEF Absent

LEMMA LeaveFields ==
  /\ DOMAIN LeaveColumns = {"exists", "deleted", "user", "start_date", "end_date", "total_days"}
  /\ LeaveColumns["exists"] = {TRUE} /\ LeaveColumns["deleted"] = BOOLEAN
  /\ LeaveColumns["user"] = Users /\ LeaveColumns["total_days"] = Nat
  /\ LeaveColumns["start_date"] = Days /\ LeaveColumns["end_date"] = Days
BY DEF LeaveColumns

LEMMA DayRowFields ==
  /\ DOMAIN DayRowColumns = {"exists", "deleted", "user", "portion", "half_slot", "slot"}
  /\ DayRowColumns["exists"] = {TRUE} /\ DayRowColumns["deleted"] = BOOLEAN
  /\ DayRowColumns["user"] = Users /\ DayRowColumns["portion"] = {"full", "half"}
  /\ DayRowColumns["half_slot"] = HalfSlot \union {None}
  /\ DayRowColumns["slot"] = SUBSET {0, 1}
BY DEF DayRowColumns

LEMMA EventFields ==
  /\ DOMAIN EventColumns = {"exists", "deleted", "organization", "event_type", "start_time",
                            "end_time", "created_by"}
  /\ EventColumns["exists"] = {TRUE} /\ EventColumns["deleted"] = BOOLEAN
  /\ EventColumns["organization"] = BOOLEAN /\ EventColumns["event_type"] = EventType
  /\ EventColumns["start_time"] = Times /\ EventColumns["end_time"] = Times
  /\ EventColumns["created_by"] = Users
BY DEF EventColumns

LEMMA LeaveRecord ==
  ASSUME NEW row
  PROVE  RowOK(LeaveColumns, row) <=> row \in LeaveLog
<1> DEFINE names == {"exists", "deleted", "user", "start_date", "end_date", "total_days"}
<1>1. ASSUME row \in LeaveLog
      PROVE  RowOK(LeaveColumns, row)
  <2>1. row = [f \in names |-> row[f]]
    BY <1>1 DEF LeaveLog
  <2>2. /\ row["exists"] \in {TRUE} /\ row["deleted"] \in BOOLEAN /\ row["user"] \in Users
        /\ row["start_date"] \in Days /\ row["end_date"] \in Days /\ row["total_days"] \in Nat
    BY <1>1 DEF LeaveLog
  <2>3. \A f \in names : row[f] \in LeaveColumns[f]
    BY <2>2, LeaveFields
  <2> QED
    BY <2>1, <2>3, LeaveFields DEF RowOK
<1>2. ASSUME RowOK(LeaveColumns, row)
      PROVE  row \in LeaveLog
  <2>1. row = [f \in names |-> row[f]]
    BY <1>2, LeaveFields DEF RowOK
  <2>2. \A f \in names : row[f] \in LeaveColumns[f]
    BY <1>2, LeaveFields DEF RowOK
  <2>3. /\ row["exists"] \in {TRUE} /\ row["deleted"] \in BOOLEAN /\ row["user"] \in Users
        /\ row["start_date"] \in Days /\ row["end_date"] \in Days /\ row["total_days"] \in Nat
    BY <2>2, LeaveFields
  <2> QED
    BY <2>1, <2>3 DEF LeaveLog
<1> QED
  BY <1>1, <1>2

LEMMA DayRecord ==
  ASSUME NEW row
  PROVE  RowOK(DayRowColumns, row) <=> row \in Day
<1> DEFINE names == {"exists", "deleted", "user", "portion", "half_slot", "slot"}
<1>1. ASSUME row \in Day
      PROVE  RowOK(DayRowColumns, row)
  <2>1. row = [f \in names |-> row[f]]
    BY <1>1 DEF Day
  <2>2. /\ row["exists"] \in {TRUE} /\ row["deleted"] \in BOOLEAN /\ row["user"] \in Users
        /\ row["portion"] \in {"full", "half"} /\ row["half_slot"] \in HalfSlot \union {None}
        /\ row["slot"] \in SUBSET {0, 1}
    BY <1>1 DEF Day
  <2>3. \A f \in names : row[f] \in DayRowColumns[f]
    BY <2>2, DayRowFields
  <2> QED
    BY <2>1, <2>3, DayRowFields DEF RowOK
<1>2. ASSUME RowOK(DayRowColumns, row)
      PROVE  row \in Day
  <2>1. row = [f \in names |-> row[f]]
    BY <1>2, DayRowFields DEF RowOK
  <2>2. \A f \in names : row[f] \in DayRowColumns[f]
    BY <1>2, DayRowFields DEF RowOK
  <2>3. /\ row["exists"] \in {TRUE} /\ row["deleted"] \in BOOLEAN /\ row["user"] \in Users
        /\ row["portion"] \in {"full", "half"} /\ row["half_slot"] \in HalfSlot \union {None}
        /\ row["slot"] \in SUBSET {0, 1}
    BY <2>2, DayRowFields
  <2> QED
    BY <2>1, <2>3 DEF Day
<1> QED
  BY <1>1, <1>2

\* An event of a user without an organization is refused, so that a row has one.
LEMMA EventRecord ==
  ASSUME NEW row
  PROVE  RowOK(EventColumns, row) /\ row.organization = TRUE <=> row \in Event
<1> DEFINE names == {"exists", "deleted", "organization", "event_type", "start_time", "end_time",
                     "created_by"}
<1>1. ASSUME row \in Event
      PROVE  RowOK(EventColumns, row) /\ row.organization = TRUE
  <2>1. row = [f \in names |-> row[f]]
    BY <1>1 DEF Event
  <2>2. /\ row["exists"] \in {TRUE} /\ row["deleted"] \in BOOLEAN /\ row["organization"] \in {TRUE}
        /\ row["event_type"] \in EventType /\ row["start_time"] \in Times
        /\ row["end_time"] \in Times /\ row["created_by"] \in Users
    BY <1>1 DEF Event
  <2>3. \A f \in names : row[f] \in EventColumns[f]
    BY <2>2, EventFields
  <2> QED
    BY <2>1, <2>2, <2>3, EventFields DEF RowOK
<1>2. ASSUME RowOK(EventColumns, row), row.organization = TRUE
      PROVE  row \in Event
  <2>1. row = [f \in names |-> row[f]]
    BY <1>2, EventFields DEF RowOK
  <2>2. \A f \in names : row[f] \in EventColumns[f]
    BY <1>2, EventFields DEF RowOK
  <2>3. /\ row["exists"] \in {TRUE} /\ row["deleted"] \in BOOLEAN /\ row["organization"] \in {TRUE}
        /\ row["event_type"] \in EventType /\ row["start_time"] \in Times
        /\ row["end_time"] \in Times /\ row["created_by"] \in Users
    BY <1>2, <2>2, EventFields
  <2> QED
    BY <2>1, <2>3 DEF Event
<1> QED
  BY <1>1, <1>2

\* An update leaves a row of the table.
LEMMA UpdatedRow ==
  ASSUME NEW C, NEW row, RowOK(C, row), NEW w, ColumnsOK(C, w)
  PROVE  /\ RowOK(C, w @@ row) /\ DOMAIN row = DOMAIN C
         /\ \A f \in DOMAIN w : (w @@ row)[f] = w[f]
         /\ \A f \in DOMAIN row \ DOMAIN w : (w @@ row)[f] = row[f]
<1> DEFINE new == w @@ row
<1>1. /\ DOMAIN new = DOMAIN w \union DOMAIN row
      /\ \A f \in DOMAIN w : new[f] = w[f]
      /\ \A f \in DOMAIN row \ DOMAIN w : new[f] = row[f]
  BY Over
<1>2. new = [f \in DOMAIN new |-> new[f]]
  BY DEF @@
<1> HIDE DEF new
<1>3. DOMAIN row = DOMAIN C
  BY DEF RowOK
<1>4. \A f \in DOMAIN w : f \in DOMAIN C /\ w[f] \in C[f]
  BY DEF ColumnsOK
<1>5. DOMAIN new = DOMAIN C
  BY <1>1, <1>3, <1>4
<1>6. \A f \in DOMAIN C : new[f] \in C[f]
  BY <1>1, <1>3, <1>4 DEF RowOK
<1>7. RowOK(C, new)
  BY <1>2, <1>5, <1>6 DEF RowOK
<1> QED
  BY <1>1, <1>3, <1>7 DEF new

\* An insert leaves the row that is inserted.
LEMMA InsertedRow ==
  ASSUME NEW w, w = [f \in DOMAIN w |-> w[f]], Insert(w)
  PROVE  w @@ Absent = w
<1>1. DOMAIN w \union DOMAIN Absent = DOMAIN w
  BY AbsentFields DEF Insert
<1>2. w @@ Absent = [f \in DOMAIN w |-> w[f]]
  BY <1>1 DEF @@
<1> QED
  BY <1>2

LEMMA RowThere ==
  ASSUME TypeOK, NEW x \in Rows
  PROVE  db[x] = Absent \/ db[x].exists = TRUE
<1>1. CASE x \in LeaveLogs
  BY <1>1 DEF TypeOK, LeaveLog
<1>2. CASE x \in Events
  BY <1>2 DEF TypeOK, Event
<1>3. CASE \E log \in LeaveLogs : x \in DaysOf(log)
  <2>1. PICK log \in LeaveLogs, d \in Days : x = LeaveDay(log, d)
    BY <1>3 DEF DaysOf
  <2>2. db[x] \in Day \union {Absent}
    BY <2>1 DEF TypeOK
  <2> QED
    BY <2>2 DEF Day
<1>4. x \in LeaveDays => \E log \in LeaveLogs : x \in DaysOf(log)
  BY DEF LeaveDays
<1> QED
  BY <1>1, <1>2, <1>3, <1>4 DEF Rows

\* The slot of a portion.
LEMMA Slots ==
  ASSUME NEW row
  PROVE  /\ row.portion = "full" => build_slot(row) = {0, 1}
         /\ row.portion # "full" /\ row.half_slot = first => build_slot(row) = {0}
         /\ row.portion # "full" /\ row.half_slot # first => build_slot(row) = {1}
BY DEF build_slot

\* A day that is changed fits its portion again, if the check lets it.
LEMMA ChangedDayFits ==
  ASSUME NEW row, RowOK(DayRowColumns, row), DayFits(row),
         NEW w, ColumnsOK(DayRowColumns, w), ChangeFits(w),
         (w @@ row).portion = "full" <=> (w @@ row).half_slot = None
  PROVE  DayFits(w @@ row)
<1> DEFINE new == w @@ row
           names == {"portion", "half_slot", "slot"}
<1>1. names \subseteq DOMAIN row
  BY UpdatedRow DEF DayRowColumns
<1>2. /\ \A f \in DOMAIN w : new[f] = w[f]
      /\ \A f \in DOMAIN row \ DOMAIN w : new[f] = row[f]
      /\ RowOK(DayRowColumns, new)
  BY UpdatedRow
<1>3. new.portion \in {"full", "half"}
  BY <1>2 DEF RowOK, DayRowColumns
<1>4. new.portion = "full" <=> new.half_slot = None
  OBVIOUS
<1> HIDE DEF new
<1>5. CASE names \intersect DOMAIN w = {}
  <2>1. new["portion"] = row["portion"] /\ new["half_slot"] = row["half_slot"]
        /\ new["slot"] = row["slot"]
    BY <1>1, <1>2, <1>5
  <2>2. DayFits(new)
    BY <2>1 DEF DayFits, build_slot
  <2> QED
    BY <2>2 DEF new
<1>6. CASE names \subseteq DOMAIN w /\ DayFits(w)
  <2>1. new["portion"] = w["portion"] /\ new["half_slot"] = w["half_slot"]
        /\ new["slot"] = w["slot"]
    BY <1>2, <1>6
  <2>2. DayFits(new)
    BY <1>6, <2>1 DEF DayFits, build_slot
  <2> QED
    BY <2>2 DEF new
<1>7. CASE /\ "portion" \notin DOMAIN w /\ {"half_slot", "slot"} \subseteq DOMAIN w
           /\ w.half_slot \in HalfSlot
           /\ w.slot = IF w.half_slot = first THEN {0} ELSE {1}
  <2>1. new["half_slot"] = w["half_slot"] /\ new["slot"] = w["slot"]
    BY <1>2, <1>7
  <2>2. new.half_slot \in HalfSlot
    BY <1>7, <2>1
  <2>3. new.half_slot # None
    BY <2>2, TimesheetAssumption DEF HalfSlot
  <2>4. new.portion = "half"
    BY <1>3, <1>4, <2>3
  <2>5. build_slot(new) = IF new.half_slot = first THEN {0} ELSE {1}
    BY <2>4, Slots
  <2>6. DayFits(new)
    BY <1>7, <2>1, <2>2, <2>4, <2>5 DEF DayFits
  <2> QED
    BY <2>6 DEF new
<1> QED
  BY <1>5, <1>6, <1>7 DEF ChangeFits

\* What a request writes of a day: the columns in which it differs from the row
\* that was there.
LEMMA ChangeOfDay ==
  ASSUME NEW row, RowOK(DayRowColumns, row), DayFits(row), NEW day \in Portion
  PROVE  LET w == Changes(row, DayColumns(day))
         IN  ColumnsOK(DayRowColumns, w) /\ ChangeFits(w) /\ ~Insert(w)
<1> DEFINE new == DayColumns(day)
           w == Changes(row, new)
<1>1. /\ DOMAIN w = {f \in DOMAIN new : new[f] # row[f]}
      /\ \A f \in DOMAIN w : w[f] = new[f]
  BY DEF Changes
<1>2. /\ DOMAIN new = {"portion", "half_slot", "slot", "deleted"}
      /\ new["portion"] = day.portion /\ new["half_slot"] = day.half_slot
      /\ new["slot"] = build_slot(day) /\ new["deleted"] = FALSE
  BY DEF DayColumns
<1> HIDE DEF w, new
<1>3. \/ day.portion = "full" /\ day.half_slot = None
      \/ day.portion = "half" /\ day.half_slot \in HalfSlot
  BY DEF Portion, Used
<1>4. build_slot(day) \in SUBSET {0, 1}
  BY DEF build_slot
<1>5. ColumnsOK(DayRowColumns, w)
  <2>1. \A f \in DOMAIN new : f \in DOMAIN DayRowColumns /\ new[f] \in DayRowColumns[f]
    BY <1>2, <1>3, <1>4, DayRowFields
  <2> QED
    BY <1>1, <2>1 DEF ColumnsOK
<1>6. ~Insert(w)
  BY <1>1, <1>2 DEF Insert
<1>7. DayFits(new)
  BY <1>2, <1>3 DEF DayFits, build_slot
<1>8. ChangeFits(w)
  <2>1. CASE "portion" \in DOMAIN w
    <3>1. new.portion # row.portion
      BY <1>1, <2>1
    <3>2. new.half_slot # row.half_slot
      BY <1>7, <3>1, TimesheetAssumption DEF DayFits, HalfSlot
    <3>3. new.slot # row.slot
      BY <1>7, <3>1, Slots DEF DayFits
    <3>4. {"portion", "half_slot", "slot"} \subseteq DOMAIN w
      BY <1>1, <1>2, <3>1, <3>2, <3>3
    <3>5. w.portion = new.portion /\ w.half_slot = new.half_slot /\ w.slot = new.slot
      BY <1>1, <3>4
    <3>6. DayFits(w)
      BY <1>7, <3>5 DEF DayFits, build_slot
    <3> QED
      BY <3>4, <3>6 DEF ChangeFits
  <2>2. CASE "portion" \notin DOMAIN w
    <3>1. new.portion = row.portion
      BY <1>1, <1>2, <2>2
    <3>2. CASE new.half_slot = row.half_slot
      <4>1. new.slot = row.slot
        BY <1>7, <3>1, <3>2 DEF DayFits, build_slot
      <4>2. "half_slot" \notin DOMAIN w /\ "slot" \notin DOMAIN w
        BY <1>1, <3>2, <4>1
      <4> QED
        BY <2>2, <4>2 DEF ChangeFits
    <3>3. CASE new.half_slot # row.half_slot
      <4>1. new.portion = "half" /\ row.portion = "half" /\ new.half_slot \in HalfSlot
            /\ row.half_slot \in HalfSlot
        BY <1>7, <3>1, <3>3 DEF DayFits
      <4>2. new.slot = (IF new.half_slot = first THEN {0} ELSE {1})
            /\ row.slot = IF row.half_slot = first THEN {0} ELSE {1}
        BY <1>7, <4>1, Slots DEF DayFits
      <4>3. new.slot # row.slot
        BY <3>3, <4>1, <4>2 DEF HalfSlot
      <4>4. {"half_slot", "slot"} \subseteq DOMAIN w
        BY <1>1, <1>2, <3>3, <4>3
      <4>5. w.half_slot = new.half_slot /\ w.slot = new.slot
        BY <1>1, <4>4
      <4> QED
        BY <2>2, <4>1, <4>2, <4>4, <4>5 DEF ChangeFits
    <3> QED
      BY <3>2, <3>3
  <2> QED
    BY <2>1, <2>2
<1> QED
  BY <1>5, <1>6, <1>8 DEF w, new

\* What a request inserts of a day.
LEMMA NewDay ==
  ASSUME NEW u \in Users, NEW day \in Portion
  PROVE  LET w == DayColumns(day) @@ [exists |-> TRUE, user |-> u]
         IN  /\ RowOK(DayRowColumns, w) /\ DayFits(w) /\ Insert(w)
             /\ w.deleted = FALSE /\ w.portion = day.portion /\ w.half_slot = day.half_slot
<1> DEFINE w == DayColumns(day) @@ [exists |-> TRUE, user |-> u]
           names == {"exists", "deleted", "user", "portion", "half_slot", "slot"}
<1>1. DOMAIN w = names
  BY DEF DayColumns, @@
<1>2. /\ w["exists"] = TRUE /\ w["deleted"] = FALSE /\ w["user"] = u
      /\ w["portion"] = day.portion /\ w["half_slot"] = day.half_slot
      /\ w["slot"] = build_slot(day)
  BY DEF DayColumns, @@
<1>3. w = [f \in names |-> w[f]]
  BY <1>1 DEF @@
<1> HIDE DEF w
<1>4. \/ day.portion = "full" /\ day.half_slot = None
      \/ day.portion = "half" /\ day.half_slot \in HalfSlot
  BY DEF Portion, Used
<1>5. build_slot(day) \in SUBSET {0, 1}
  BY DEF build_slot
<1>6. \A f \in names : w[f] \in DayRowColumns[f]
  <2>1. /\ w["exists"] \in {TRUE} /\ w["deleted"] \in BOOLEAN /\ w["user"] \in Users
        /\ w["portion"] \in {"full", "half"} /\ w["half_slot"] \in HalfSlot \union {None}
        /\ w["slot"] \in SUBSET {0, 1}
    BY <1>2, <1>4, <1>5
  <2> QED
    BY <2>1, DayRowFields
<1>7. RowOK(DayRowColumns, w)
  BY <1>3, <1>6, DayRowFields DEF RowOK
<1>8. DayFits(w)
  BY <1>2, <1>4 DEF DayFits, build_slot
<1>9. Insert(w)
  BY <1>1 DEF Insert
<1> QED
  BY <1>2, <1>7, <1>8, <1>9 DEF w

-------------------------------------------------------------------------------
(* The steps of a request                                                  *)

LEMMA TimeInitially == Init => TimeInv
<1> SUFFICES ASSUME Init PROVE TimeInv
  OBVIOUS
<1>1. DOMAIN db = Rows /\ \A x \in Rows : db[x] = Absent
  BY DEF Init
<1>2. \A r \in Requests : caller[r] = None /\ write[r] = Nothing
  BY DEF Init, Idle
<1>3. OpenSessions /\ DOMAIN at = Requests /\ clock \in Nat
  BY TimesheetAssumption DEF Init, Idle, OpenSessions
<1>4. TypeOK /\ DaysFit
  <2>1. /\ \A log \in LeaveLogs : db[log] = Absent
        /\ \A ev \in Events : db[ev] = Absent
        /\ \A log \in LeaveLogs, d \in Days : db[LeaveDay(log, d)] = Absent
    BY <1>1, Tables
  <2> QED
    BY <2>1, AbsentFields DEF TypeOK, DaysFit
<1>5. ASSUME NEW r \in Requests
      PROVE  WriteOK(write[r]) /\ BegunOK(r) /\ PlanOK(r)
  <2>1. DOMAIN write[r] = {}
    BY <1>2, NothingIsEmpty
  <2> QED
    BY <2>1 DEF WriteOK, BegunOK, PlanOK
<1> QED
  BY <1>1, <1>2, <1>3, <1>4, <1>5 DEF TimeInv, CallersOK

LEMMA AuthenticateStep ==
  ASSUME TimeInv, NEW r \in Requests, NEW u \in Users, authenticate(r, u)
  PROVE  TimeInv'
<1>1. /\ db' = db /\ write' = write /\ loaded' = loaded /\ at' = at
      /\ clock' = clock
      /\ caller[r] = None /\ caller'[r] = u /\ DOMAIN caller' = Requests
      /\ \A q \in Requests \ {r} : caller'[q] = caller[q]
  BY DEF TimeInv, OpenSessions, authenticate, timevars
<1>2. TypeOK' /\ DaysFit'
  BY <1>1 DEF TimeInv, TypeOK, DaysFit
<1>3. ASSUME NEW q \in Requests
      PROVE  WriteOK(write[q])' /\ PlanOK(q)' /\ BegunOK(q)'
  <2>0. WriteOK(write[q]) /\ PlanOK(q) /\ BegunOK(q)
    BY DEF TimeInv
  <2>1. WriteOK(write[q])'
    BY <1>1, <2>0 DEF WriteOK, LeaveWriteOK, DayWriteOK, EventWriteOK
  <2>2. PlanOK(q)'
    BY <1>1, <2>0 DEF PlanOK, Inserted, Expected, Seen
  <2>3. BegunOK(q)'
    <3>1. CASE q = r
      <4>1. DOMAIN write[r] = {}
        BY <1>1, NothingIsEmpty DEF TimeInv, CallersOK
      <4> QED
        BY <1>1, <3>1, <4>1 DEF BegunOK
    <3>2. CASE q # r
      BY <1>1, <2>0, <3>2 DEF BegunOK
    <3> QED
      BY <3>1, <3>2
  <2> QED
    BY <2>1, <2>2, <2>3
<1>4. CallersOK'
  <2>1. u # None
    BY TimesheetAssumption
  <2> QED
    BY <1>1, <2>1 DEF TimeInv, CallersOK
<1> QED
  BY <1>1, <1>2, <1>3, <1>4 DEF TimeInv, OpenSessions

LEMMA TickStep ==
  ASSUME TimeInv, Tick
  PROVE  TimeInv'
<1>1. /\ db' = db /\ write' = write /\ loaded' = loaded /\ at' = at /\ caller' = caller
      /\ clock' \in Nat
  BY DEF Tick, TimeInv
<1>2. TypeOK' /\ DaysFit' /\ CallersOK' /\ OpenSessions' /\ DOMAIN at' = Requests /\ DOMAIN db' = Rows
  BY <1>1 DEF TimeInv, TypeOK, DaysFit, CallersOK, OpenSessions
<1>3. ASSUME NEW q \in Requests
      PROVE  WriteOK(write[q])' /\ PlanOK(q)' /\ BegunOK(q)'
  <2>0. WriteOK(write[q]) /\ PlanOK(q) /\ BegunOK(q)
    BY DEF TimeInv
  <2>1. WriteOK(write[q])'
    BY <1>1, <2>0 DEF WriteOK, LeaveWriteOK, DayWriteOK, EventWriteOK
  <2> QED
    BY <1>1, <2>0, <2>1 DEF PlanOK, BegunOK, Inserted, Expected, Seen
<1> QED
  BY <1>1, <1>2, <1>3 DEF TimeInv

LEMMA ReadEffect ==
  ASSUME OpenSessions, DOMAIN at = Requests, NEW r \in Requests, NEW read, NEW rows,
         Read(r, read, rows)
  PROVE  /\ OpenSessions' /\ DOMAIN at' = Requests
         /\ db' = db /\ caller' = caller /\ clock' = clock
         /\ loaded'[r] = [x \in read |-> db[x]] /\ write'[r] = rows /\ at'[r] = clock
         /\ \A q \in Requests \ {r} : /\ loaded'[q] = loaded[q] /\ write'[q] = write[q]
                                      /\ at'[q] = at[q]
BY DEF OpenSessions, Read

LEMMA ReadStep ==
  ASSUME TimeInv, NEW r \in Requests, caller[r] # None, NEW read, NEW rows,
         Read(r, read, rows), WriteOK(rows), BegunOK(r)', PlanOK(r)'
  PROVE  TimeInv'
<1>1. /\ OpenSessions' /\ DOMAIN at' = Requests /\ db' = db /\ caller' = caller /\ write'[r] = rows
      /\ clock' = clock
      /\ \A q \in Requests \ {r} : /\ loaded'[q] = loaded[q] /\ write'[q] = write[q]
                                   /\ at'[q] = at[q]
  <2>1. OpenSessions /\ DOMAIN at = Requests
    BY DEF TimeInv
  <2> QED
    BY <2>1 DEF OpenSessions, Read
<1>2. TypeOK' /\ DaysFit' /\ DOMAIN db' = Rows
  BY <1>1 DEF TimeInv, TypeOK, DaysFit
<1>3. CallersOK'
  <2>1. \A q \in Requests : caller[q] = None => q # r /\ write'[q] = write[q]
    BY <1>1
  <2> QED
    BY <1>1, <2>1 DEF TimeInv, CallersOK
<1>4. ASSUME NEW q \in Requests
      PROVE  WriteOK(write[q])' /\ PlanOK(q)' /\ BegunOK(q)'
  <2>0. WriteOK(write[q]) /\ PlanOK(q) /\ BegunOK(q)
    BY DEF TimeInv
  <2>1. WriteOK(write'[q])
    BY <1>1, <2>0
  <2>2. WriteOK(write[q])'
    BY <1>1, <2>1 DEF WriteOK, LeaveWriteOK, DayWriteOK, EventWriteOK
  <2>3. CASE q = r
    BY <2>2, <2>3
  <2>4. CASE q # r
    BY <1>1, <2>0, <2>2, <2>4 DEF PlanOK, BegunOK, Inserted, Expected, Seen
  <2> QED
    BY <2>3, <2>4
<1> QED
  BY <1>1, <1>2, <1>3, <1>4 DEF TimeInv

LEMMA RollbackStep ==
  ASSUME TimeInv, NEW r \in Requests, Finish(r), db' = db
  PROVE  TimeInv'
<1>1. /\ OpenSessions' /\ DOMAIN at' = Requests /\ clock' = clock
      /\ caller'[r] = None /\ write'[r] = Nothing
      /\ \A q \in Requests \ {r} : /\ caller'[q] = caller[q] /\ loaded'[q] = loaded[q]
                                   /\ write'[q] = write[q] /\ at'[q] = at[q]
  BY DoneEffect DEF TimeInv, Finish
<1>2. TypeOK' /\ DaysFit' /\ DOMAIN db' = Rows
  BY DEF TimeInv, TypeOK, DaysFit
<1>3. CallersOK'
  BY <1>1 DEF TimeInv, CallersOK
<1>4. ASSUME NEW q \in Requests
      PROVE  WriteOK(write[q])' /\ PlanOK(q)' /\ BegunOK(q)'
  <2>0. WriteOK(write[q]) /\ PlanOK(q) /\ BegunOK(q)
    BY DEF TimeInv
  <2>1. CASE q = r
    <3>1. DOMAIN write'[q] = {}
      BY <1>1, <2>1, NothingIsEmpty
    <3> QED
      BY <3>1 DEF WriteOK, BegunOK, PlanOK
  <2>2. CASE q # r
    <3>1. WriteOK(write'[q])
      BY <1>1, <2>0, <2>2
    <3>2. WriteOK(write[q])'
      BY <3>1 DEF WriteOK, LeaveWriteOK, DayWriteOK, EventWriteOK
    <3> QED
      BY <1>1, <2>0, <2>2, <3>2 DEF PlanOK, BegunOK, Inserted, Expected, Seen
  <2> QED
    BY <2>1, <2>2
<1> QED
  BY <1>1, <1>2, <1>3, <1>4 DEF TimeInv

\* What a commit makes of a row.
LEMMA CommittedRow ==
  ASSUME TimeInv, NEW r \in Requests, commit(r), NEW x \in Rows
  PROVE  /\ x \notin DOMAIN write[r] => db'[x] = db[x]
         /\ x \in DOMAIN write[r] => db'[x] = write[r][x] @@ db[x]
         /\ x \in DOMAIN write[r] /\ Insert(write[r][x])
              => db[x] = Absent /\ db'[x] = write[r][x] @@ Absent
<1>1. db' = Written(r) /\ DOMAIN db = Rows /\ TypeOK
  BY DEF commit, TimeInv
<1>2. x \in DOMAIN write[r] /\ Insert(write[r][x]) => ~db[x].exists
  BY DEF commit, Constraints, UniqueDays, Inserted, Insert
<1>3. db[x] = Absent \/ db[x].exists = TRUE
  BY <1>1, RowThere
<1> QED
  BY <1>1, <1>2, <1>3, WrittenRows

LEMMA LeaveCommitted ==
  ASSUME TimeInv, NEW r \in Requests, commit(r), NEW log \in LeaveLogs
  PROVE  /\ db'[log] \in LeaveLog \union {Absent}
         /\ db'[log].exists => db'[log].start_date <= db'[log].end_date
         /\ db[log].exists \/ (log \in DOMAIN write[r] /\ Insert(write[r][log]))
              => db'[log].exists
<1> DEFINE w == write[r][log]
<1>1. log \in Rows
  BY Tables
<1>2. db'[log].exists => db'[log].start_date <= db'[log].end_date
  BY DEF commit, Constraints, Checks
<1>3. db[log] \in LeaveLog \union {Absent}
  BY DEF TimeInv, TypeOK
<1>4. CASE log \notin DOMAIN write[r]
  BY <1>1, <1>2, <1>3, <1>4, CommittedRow
<1>5. CASE log \in DOMAIN write[r] /\ Insert(w)
  <2>1. RowOK(LeaveColumns, w)
    BY <1>5 DEF TimeInv, WriteOK, LeaveWriteOK
  <2>2. w \in LeaveLog
    BY <2>1, LeaveRecord
  <2>3. w = [f \in DOMAIN w |-> w[f]] /\ w.exists = TRUE
    BY <2>2 DEF LeaveLog
  <2>4. db'[log] = w
    BY <1>1, <1>5, <2>3, CommittedRow, InsertedRow
  <2> QED
    BY <1>2, <2>2, <2>3, <2>4
<1>6. CASE log \in DOMAIN write[r] /\ ~Insert(w)
  <2>1. db[log].exists /\ ColumnsOK(LeaveColumns, w)
    BY <1>6 DEF TimeInv, WriteOK, LeaveWriteOK
  <2>2. RowOK(LeaveColumns, db[log])
    BY <1>3, <2>1, LeaveRecord, AbsentFields
  <2>3. RowOK(LeaveColumns, w @@ db[log])
    BY <2>1, <2>2, UpdatedRow
  <2>4. db'[log] \in LeaveLog
    BY <1>1, <1>6, <2>3, CommittedRow, LeaveRecord
  <2>5. db'[log].exists
    BY <2>4 DEF LeaveLog
  <2> QED
    BY <1>2, <2>4, <2>5
<1> QED
  BY <1>4, <1>5, <1>6

LEMMA DayCommitted ==
  ASSUME TimeInv, NEW r \in Requests, commit(r), NEW log \in LeaveLogs, NEW d \in Days
  PROVE  LET x == LeaveDay(log, d)
         IN  /\ db'[x] \in Day \union {Absent}
             /\ db'[x].exists => db'[log].exists /\ DayFits(db'[x])
             /\ db[x].exists => db'[x].exists
<1> DEFINE x == LeaveDay(log, d)
           w == write[r][x]
<1>1. x \in Rows
  BY Tables
<1>2. /\ db[x] \in Day \union {Absent}
      /\ db[x].exists => db[log].exists /\ DayFits(db[x])
  BY DEF TimeInv, TypeOK, DaysFit
<1>3. db[log].exists \/ (log \in DOMAIN write[r] /\ Insert(write[r][log])) => db'[log].exists
  BY LeaveCommitted
<1>4. x \in DOMAIN write[r] => DayWriteOK(log, x, write[r])
  BY DEF TimeInv, WriteOK
<1>5. db'[x].exists => (db'[x].portion = "full" <=> db'[x].half_slot = None)
  BY DEF commit, Constraints, Checks
<1> HIDE DEF x, w
<1>6. CASE x \notin DOMAIN write[r]
  <2>1. db'[x] = db[x]
    BY <1>1, <1>6, CommittedRow
  <2> QED
    BY <1>2, <1>3, <2>1 DEF x
<1>7. CASE x \in DOMAIN write[r] /\ Insert(w)
  <2>1. /\ RowOK(DayRowColumns, w) /\ DayFits(w)
        /\ db[log].exists \/ (log \in DOMAIN write[r] /\ Insert(write[r][log]))
    BY <1>4, <1>7 DEF DayWriteOK, w
  <2>2. w \in Day
    BY <2>1, DayRecord
  <2>3. w = [f \in DOMAIN w |-> w[f]] /\ w.exists = TRUE
    BY <2>2 DEF Day
  <2>4. db'[x] = w
    BY <1>1, <1>7, <2>3, CommittedRow, InsertedRow DEF w
  <2> QED
    BY <1>3, <2>1, <2>2, <2>3, <2>4 DEF x
<1>8. CASE x \in DOMAIN write[r] /\ ~Insert(w)
  <2>1. db[x].exists /\ ColumnsOK(DayRowColumns, w) /\ ChangeFits(w)
    BY <1>4, <1>8 DEF DayWriteOK, w
  <2>2. RowOK(DayRowColumns, db[x]) /\ DayFits(db[x]) /\ db[log].exists
    BY <1>2, <2>1, DayRecord, AbsentFields
  <2>3. RowOK(DayRowColumns, w @@ db[x])
    BY <2>1, <2>2, UpdatedRow
  <2>4. db'[x] = w @@ db[x]
    BY <1>1, <1>8, CommittedRow DEF w
  <2>5. db'[x] \in Day
    BY <2>3, <2>4, DayRecord
  <2>6. db'[x].exists = TRUE
    BY <2>5 DEF Day
  <2>7. DayFits(w @@ db[x])
    BY <1>5, <2>1, <2>2, <2>4, <2>6, ChangedDayFits
  <2> QED
    BY <1>3, <2>2, <2>4, <2>5, <2>6, <2>7 DEF x
<1> QED
  BY <1>6, <1>7, <1>8 DEF x

LEMMA EventCommitted ==
  ASSUME TimeInv, NEW r \in Requests, commit(r), NEW ev \in Events
  PROVE  /\ db'[ev] \in Event \union {Absent}
         /\ db'[ev].exists => db'[ev].start_time <= db'[ev].end_time
         /\ db[ev].exists => db'[ev].exists
<1> DEFINE w == write[r][ev]
<1>1. ev \in Rows
  BY Tables
<1>2. db'[ev].exists => db'[ev].organization /\ db'[ev].start_time <= db'[ev].end_time
  BY DEF commit, Constraints, Checks
<1>3. db[ev] \in Event \union {Absent}
  BY DEF TimeInv, TypeOK
<1>4. CASE ev \notin DOMAIN write[r]
  BY <1>1, <1>2, <1>3, <1>4, CommittedRow
<1>5. CASE ev \in DOMAIN write[r] /\ Insert(w)
  <2>1. RowOK(EventColumns, w)
    BY <1>5 DEF TimeInv, WriteOK, EventWriteOK
  <2>2. w = [f \in DOMAIN w |-> w[f]] /\ w.exists = TRUE /\ w["organization"] \in BOOLEAN
    BY <2>1, EventFields DEF RowOK
  <2>3. db'[ev] = w
    BY <1>1, <1>5, <2>2, CommittedRow, InsertedRow
  <2>4. w.organization = TRUE
    BY <1>2, <2>2, <2>3
  <2>5. w \in Event
    BY <2>1, <2>4, EventRecord
  <2> QED
    BY <1>1, <1>2, <1>5, <2>3, <2>5, CommittedRow, AbsentFields
<1>6. CASE ev \in DOMAIN write[r] /\ ~Insert(w)
  <2>1. db[ev].exists /\ ColumnsOK(EventColumns, w) /\ "organization" \notin DOMAIN w
    BY <1>6 DEF TimeInv, WriteOK, EventWriteOK
  <2>2. RowOK(EventColumns, db[ev]) /\ db[ev].organization = TRUE
    BY <1>3, <2>1, EventRecord, AbsentFields
  <2>3. RowOK(EventColumns, w @@ db[ev]) /\ (w @@ db[ev])["organization"] = db[ev]["organization"]
    BY <2>1, <2>2, UpdatedRow, EventFields
  <2>4. db'[ev] = w @@ db[ev]
    BY <1>1, <1>6, CommittedRow
  <2>5. db'[ev] \in Event
    BY <2>2, <2>3, <2>4, EventRecord
  <2>6. db'[ev].exists
    BY <2>5 DEF Event
  <2> QED
    BY <1>2, <2>5, <2>6
<1> QED
  BY <1>4, <1>5, <1>6

LEMMA CommitStep ==
  ASSUME TimeInv, NEW r \in Requests, commit(r)
  PROVE  TimeInv'
<1>1. /\ OpenSessions' /\ DOMAIN at' = Requests /\ clock' = clock
      /\ caller'[r] = None /\ write'[r] = Nothing
      /\ \A q \in Requests \ {r} : /\ caller'[q] = caller[q] /\ loaded'[q] = loaded[q]
                                   /\ write'[q] = write[q] /\ at'[q] = at[q]
  BY DoneEffect DEF TimeInv, Finish, commit
<1>2. DOMAIN db' = Rows
  BY WrittenRows DEF TimeInv, commit
<1>3. TypeOK' /\ DaysFit'
  <2>1. \A log \in LeaveLogs, d \in Days :
          db'[LeaveDay(log, d)].exists => db'[LeaveDay(log, d)].slot = build_slot(db'[LeaveDay(log, d)])
    BY DayCommitted DEF DayFits
  <2> QED
    BY <2>1, LeaveCommitted, DayCommitted, EventCommitted DEF TypeOK, DaysFit
<1>4. CallersOK'
  BY <1>1 DEF TimeInv, CallersOK
<1>5. ASSUME NEW q \in Requests
      PROVE  WriteOK(write[q])' /\ PlanOK(q)' /\ BegunOK(q)'
  <2>0. WriteOK(write[q]) /\ PlanOK(q) /\ BegunOK(q)
    BY DEF TimeInv
  <2>1. CASE q = r
    <3>1. DOMAIN write'[q] = {}
      BY <1>1, <2>1, NothingIsEmpty
    <3> QED
      BY <3>1 DEF WriteOK, BegunOK, PlanOK
  <2>2. CASE q # r
    <3>1. WriteOK(write'[q])
      BY <1>1, <2>0, <2>2
    <3>2. /\ \A log \in LeaveLogs : db[log].exists => db'[log].exists
          /\ \A ev \in Events : db[ev].exists => db'[ev].exists
          /\ \A log \in LeaveLogs, d \in Days :
               db[LeaveDay(log, d)].exists => db'[LeaveDay(log, d)].exists
      BY LeaveCommitted, DayCommitted, EventCommitted
    <3>3. WriteOK(write[q])'
      BY <3>1, <3>2 DEF WriteOK, LeaveWriteOK, DayWriteOK, EventWriteOK
    <3> QED
      BY <1>1, <2>0, <2>2, <3>3 DEF PlanOK, BegunOK, Inserted, Expected, Seen
  <2> QED
    BY <2>1, <2>2
<1> QED
  BY <1>1, <1>2, <1>3, <1>4, <1>5 DEF TimeInv

-------------------------------------------------------------------------------
(* Payloads                                                                *)

LEMMA PayloadDays ==
  ASSUME NEW days \in Payload
  PROVE  /\ DOMAIN days \subseteq Days /\ DOMAIN days # {}
         /\ \A d \in DOMAIN days : days[d] \in Portion
         /\ Min(DOMAIN days) \in Days /\ Max(DOMAIN days) \in Days
         /\ calculate_total_days(days) \in Nat
<1>1. /\ DOMAIN days \subseteq Days /\ DOMAIN days # {}
      /\ \A d \in DOMAIN days : days[d] \in Portion
  <2>1. PICK D \in (SUBSET Used(Days)) \ {{}} : days \in [D -> Portion]
    BY DEF Payload
  <2> QED
    BY <2>1 DEF Used
<1>2. DOMAIN days \subseteq Nat /\ IsFiniteSet(DOMAIN days)
  <2>1. IsFiniteSet(Days) /\ Days \subseteq Nat
    BY TimesheetAssumption
  <2>2. DOMAIN days \in SUBSET Days
    BY <1>1
  <2> QED
    BY <2>1, <2>2, FS_Subset
<1>3. Min(DOMAIN days) \in Days /\ Max(DOMAIN days) \in Days
  BY <1>1, <1>2, FirstOf, LastOf
<1>4. calculate_total_days(days) \in Nat
  <2> DEFINE full == {d \in DOMAIN days : days[d].portion = "full"}
  <2>1. IsFiniteSet(full)
    BY <1>2, FS_Subset
  <2>2. IsFiniteSet(DOMAIN days \ full)
    BY <1>2, FS_Subset
  <2>3. Cardinality(full) \in Nat /\ Cardinality(DOMAIN days \ full) \in Nat
    BY <2>1, <2>2, FS_CardinalityType
  <2> QED
    BY <2>3 DEF calculate_total_days
<1> QED
  BY <1>1, <1>3, <1>4

\* No day begins before the first of them.
LEMMA FirstPeriod ==
  ASSUME NEW days, DOMAIN days \subseteq Nat, NEW d \in DOMAIN days
  PROVE  get_period_start(d, days[d]) >= get_first_period_start(days)
<1> DEFINE m == Min(DOMAIN days)
<1>1. m \in Nat /\ d \in Nat /\ m <= d
  BY FirstOf
<1> HIDE DEF m
<1>2. CASE m = d
  <2>1. get_first_period_start(days) = get_period_start(d, days[d])
    BY <1>2 DEF get_first_period_start, m
  <2>2. get_period_start(d, days[d]) \in Nat
    BY <1>1 DEF get_period_start
  <2> QED
    BY <2>1, <2>2
<1>3. CASE m # d
  <2>1. m + 1 <= d
    BY <1>1, <1>3
  <2>2. /\ get_first_period_start(days) \in Nat
        /\ get_first_period_start(days) <= 2 * m + 1
    BY <1>1 DEF get_first_period_start, get_period_start, m
  <2>3. /\ get_period_start(d, days[d]) \in Nat
        /\ get_period_start(d, days[d]) >= 2 * d
    BY <1>1 DEF get_period_start
  <2> QED
    BY <1>1, <2>1, <2>2, <2>3
<1> QED
  BY <1>2, <1>3

\* The owner of a leave that has not begun.
LEMMA OwnedDays ==
  ASSUME TimeInv, NEW r, NEW log, Owns(r, log), NEW d \in Days, Present(LeaveDay(log, d))
  PROVE  get_period_start(d, db[LeaveDay(log, d)]) > clock
<1> DEFINE days == list_active_by_leave_log(log)
<1>1. /\ DOMAIN days = {e \in Days : Present(LeaveDay(log, e))}
      /\ d \in DOMAIN days /\ days[d] = db[LeaveDay(log, d)]
  BY DEF list_active_by_leave_log
<1>2. get_first_period_start(days) > clock
  BY DEF Owns
<1> HIDE DEF days
<1>3. DOMAIN days \subseteq Nat
  BY <1>1, TimesheetAssumption
<1>4. get_period_start(d, days[d]) >= get_first_period_start(days)
  BY <1>1, <1>3, FirstPeriod
<1>5. get_period_start(d, days[d]) \in Nat /\ get_first_period_start(days) \in Nat /\ clock \in Nat
  <2>1. Min(DOMAIN days) \in Nat /\ d \in Nat
    BY <1>1, <1>3, FirstOf
  <2> QED
    BY <2>1 DEF get_period_start, get_first_period_start, TimeInv
<1> QED
  BY <1>1, <1>2, <1>4, <1>5

\* Rows that say what a payload says agree.
LEMMA PayloadAgrees ==
  ASSUME NEW D, NEW log \in LeaveLogs, NEW days \in Payload,
         \A d \in Days : Live(D[LeaveDay(log, d)]) <=> d \in DOMAIN days,
         \A d \in DOMAIN days : D[LeaveDay(log, d)].portion = days[d].portion,
         D[log].deleted = FALSE,
         D[log].start_date = Min(DOMAIN days), D[log].end_date = Max(DOMAIN days),
         D[log].total_days = calculate_total_days(days)
  PROVE  Agrees(D, log)
<1> DEFINE active == ActiveDays(D, log)
<1>1. DOMAIN active = DOMAIN days
  BY PayloadDays DEF ActiveDays
<1>2. \A d \in DOMAIN days : active[d] = D[LeaveDay(log, d)]
  BY <1>1 DEF ActiveDays
<1> HIDE DEF active
<1>3. calculate_total_days(active) = calculate_total_days(days)
  BY <1>1, <1>2 DEF calculate_total_days
<1>4. active # Nothing
  BY <1>1, PayloadDays, NothingIsEmpty
<1> QED
  BY <1>1, <1>3, <1>4 DEF Agrees, active

LEMMA NoDaysAgree ==
  ASSUME NEW D, NEW log \in LeaveLogs, \A d \in Days : ~Live(D[LeaveDay(log, d)]),
         D[log].deleted = TRUE
  PROVE  Agrees(D, log)
<1>1. ActiveDays(D, log) = Nothing
  BY DEF ActiveDays, Nothing
<1> QED
  BY <1>1 DEF Agrees

LEMMA ChangesOK ==
  ASSUME NEW C, NEW row, NEW new, ColumnsOK(C, new)
  PROVE  ColumnsOK(C, Changes(row, new)) /\ DOMAIN Changes(row, new) \subseteq DOMAIN new
<1> DEFINE w == Changes(row, new)
<1>1. /\ DOMAIN w = {f \in DOMAIN new : new[f] # row[f]}
      /\ \A f \in DOMAIN w : w[f] = new[f]
  BY DEF Changes
<1> HIDE DEF w
<1>2. ColumnsOK(C, w)
  BY <1>1 DEF ColumnsOK
<1> QED
  BY <1>1, <1>2 DEF w

-------------------------------------------------------------------------------
(* Leave                                                                   *)

\* What a new leave and its days are written with.
NewDays(log, u, days) ==
  [x \in {LeaveDay(log, d) : d \in DOMAIN days} |-> PutDay(log, u, x[2], days[x[2]])]

CreatedRows(log, u, days, new, rows) ==
  /\ DOMAIN rows = {log} \union {LeaveDay(log, d) : d \in DOMAIN days}
  /\ rows[log] = new
  /\ \A d \in DOMAIN days : rows[LeaveDay(log, d)] = PutDay(log, u, d, days[d])

LEMMA CreateRows ==
  ASSUME TimeInv, NEW log \in LeaveLogs, NEW days \in Payload, NEW u, NEW new, NEW rows,
         rows = log :> new @@ NewDays(log, u, days)
  PROVE  CreatedRows(log, u, days, new, rows)
<1> DEFINE put == NewDays(log, u, days)
<1>1. DOMAIN put = {LeaveDay(log, d) : d \in DOMAIN days}
  BY DEF NewDays
<1>2. \A d \in DOMAIN days : put[LeaveDay(log, d)] = PutDay(log, u, d, days[d])
  BY <1>1, Tables DEF NewDays
<1> HIDE DEF put
<1>3. \A d \in DOMAIN days : LeaveDay(log, d) # log
  BY PayloadDays, Tables
<1>4. rows = log :> new @@ put
  BY DEF put
<1> QED
  BY <1>1, <1>2, <1>3, <1>4 DEF :>, @@, CreatedRows

LEMMA CreateLeaveStep ==
  ASSUME TimeInv, NEW r \in Requests, NEW log \in LeaveLogs, NEW days \in Payload,
         create_leave_log(r, log, days)
  PROVE  TimeInv'
<1> DEFINE u == caller[r]
           new == NewLeaveLog(u, Min(DOMAIN days), Max(DOMAIN days), calculate_total_days(days))
           rows == log :> new @@ [x \in {LeaveDay(log, d) : d \in DOMAIN days} |->
                                    PutDay(log, u, x[2], days[x[2]])]
           D == Expected(r)'
<1>1. /\ caller[r] # None /\ u \in Users
      /\ ~db[log].exists
      /\ Read(r, LeaveDays, rows)
  BY DEF create_leave_log, Serving, TimeInv, CallersOK, NewId
<1>2. /\ DOMAIN rows = {log} \union {LeaveDay(log, d) : d \in DOMAIN days}
      /\ rows[log] = new
      /\ \A d \in DOMAIN days : rows[LeaveDay(log, d)] = PutDay(log, u, d, days[d])
  <2>1. rows = log :> new @@ NewDays(log, u, days)
    BY DEF NewDays
  <2> HIDE DEF rows, new, u
  <2>2. CreatedRows(log, u, days, new, rows)
    BY <2>1, CreateRows
  <2> QED
    BY <2>2 DEF CreatedRows
<1>3. \A d \in DOMAIN days :
        /\ rows[LeaveDay(log, d)] = DayColumns(days[d]) @@ [exists |-> TRUE, user |-> u]
        /\ LET w == rows[LeaveDay(log, d)]
           IN  /\ RowOK(DayRowColumns, w) /\ DayFits(w) /\ Insert(w)
               /\ w.deleted = FALSE /\ w.portion = days[d].portion
  <2> SUFFICES ASSUME NEW d \in DOMAIN days
               PROVE  /\ rows[LeaveDay(log, d)] = DayColumns(days[d]) @@ [exists |-> TRUE, user |-> u]
                      /\ LET w == rows[LeaveDay(log, d)]
                         IN  /\ RowOK(DayRowColumns, w) /\ DayFits(w) /\ Insert(w)
                             /\ w.deleted = FALSE /\ w.portion = days[d].portion
    OBVIOUS
  <2>1. d \in Days /\ days[d] \in Portion
    BY PayloadDays
  <2>2. ~db[LeaveDay(log, d)].exists
    BY <1>1, <2>1 DEF TimeInv, TypeOK
  <2>3. rows[LeaveDay(log, d)] = DayColumns(days[d]) @@ [exists |-> TRUE, user |-> u]
    BY <1>2, <2>2 DEF PutDay
  <2> HIDE DEF rows, u
  <2> DEFINE w == DayColumns(days[d]) @@ [exists |-> TRUE, user |-> u]
  <2>4. /\ RowOK(DayRowColumns, w) /\ DayFits(w) /\ Insert(w)
        /\ w.deleted = FALSE /\ w.portion = days[d].portion
    BY <1>1, <2>1, NewDay
  <2>5. rows[LeaveDay(log, d)] = w
    BY <2>3
  <2> HIDE DEF w
  <2> QED
    BY <2>4, <2>5 DEF w
<1>4. /\ RowOK(LeaveColumns, new) /\ Insert(new) /\ new.deleted = FALSE /\ new.exists = TRUE
      /\ new.start_date = Min(DOMAIN days) /\ new.end_date = Max(DOMAIN days)
      /\ new.total_days = calculate_total_days(days)
  <2>1. new \in LeaveLog
    BY <1>1, PayloadDays DEF NewLeaveLog, LeaveLog
  <2> QED
    BY <2>1, LeaveRecord DEF NewLeaveLog, Insert
<1> HIDE DEF rows, new, u
<1>5. \A m \in LeaveLogs : m \in DOMAIN rows => m = log
  BY <1>2, PayloadDays, Tables
<1>6. \A m \in LeaveLogs, e \in Days :
        LeaveDay(m, e) \in DOMAIN rows => m = log /\ e \in DOMAIN days
  BY <1>2, PayloadDays, Tables
<1>7. WriteOK(rows)
  <2>1. \A ev \in Events : ev \notin DOMAIN rows
    BY <1>2, PayloadDays, Tables
  <2>2. \A m \in LeaveLogs \intersect DOMAIN rows : LeaveWriteOK(m, rows[m])
    BY <1>2, <1>4, <1>5 DEF LeaveWriteOK
  <2>3. log \in DOMAIN rows /\ Insert(rows[log])
    BY <1>2, <1>4
  <2>4. \A m \in LeaveLogs, d \in Days :
          LeaveDay(m, d) \in DOMAIN rows => DayWriteOK(m, LeaveDay(m, d), rows)
    BY <1>3, <1>6, <2>3 DEF DayWriteOK
  <2> QED
    BY <2>1, <2>2, <2>4 DEF WriteOK
<1>8. /\ write'[r] = rows /\ loaded'[r] = [x \in LeaveDays |-> db[x]]
  BY <1>1 DEF TimeInv, OpenSessions, Read
<1>9. BegunOK(r)'
  <2>1. \A m \in LeaveLogs, d \in Days :
          LeaveDay(m, d) \in DOMAIN rows => Insert(rows[LeaveDay(m, d)])
    BY <1>3, <1>6
  <2> QED
    BY <1>8, <2>1 DEF BegunOK
<1>10. /\ D[log] = rows[log] @@ Absent
       /\ \A d \in Days : LET x == LeaveDay(log, d)
                          IN  D[x] = IF x \in DOMAIN rows THEN rows[x] @@ Absent ELSE Absent
  <2>1. log \notin LeaveDays /\ log \in DOMAIN rows /\ log \in Rows
    BY <1>2, Tables DEF LeaveDays, DaysOf
  <2>2. ASSUME NEW d \in Days
        PROVE  LeaveDay(log, d) \in Rows /\ db[LeaveDay(log, d)] = Absent
    <3>1. LeaveDay(log, d) \in Rows /\ ~db[LeaveDay(log, d)].exists
      BY <1>1, Tables DEF TimeInv, TypeOK
    <3> QED
      BY <3>1, RowThere DEF TimeInv
  <2> QED
    BY <1>8, <2>1, <2>2 DEF Expected, Seen
<1> HIDE DEF D
<1>11. Agrees(D, log)
  <2>1. D[log] = new
    <3>1. new = [f \in DOMAIN new |-> new[f]]
      BY <1>4 DEF RowOK
    <3>2. new @@ Absent = new
      BY <1>4, <3>1, InsertedRow
    <3> QED
      BY <1>2, <1>10, <3>2
  <2>2. ASSUME NEW d \in DOMAIN days
        PROVE  Live(D[LeaveDay(log, d)]) /\ D[LeaveDay(log, d)].portion = days[d].portion
    <3> DEFINE w == rows[LeaveDay(log, d)]
    <3>1. /\ RowOK(DayRowColumns, w) /\ Insert(w)
          /\ w.deleted = FALSE /\ w.portion = days[d].portion
      BY <1>3
    <3>2. d \in Days /\ LeaveDay(log, d) \in Rows /\ LeaveDay(log, d) \in DOMAIN rows
      BY <1>2, PayloadDays, Tables
    <3> HIDE DEF w
    <3>3. w = [f \in DOMAIN w |-> w[f]]
      BY <3>1 DEF RowOK
    <3>4. w @@ Absent = w
      BY <3>1, <3>3, InsertedRow
    <3>5. D[LeaveDay(log, d)] = w
      BY <1>10, <3>2, <3>4 DEF w
    <3>6. w.exists = TRUE
      <4>1. w \in Day
        BY <3>1, DayRecord
      <4> QED
        BY <4>1 DEF Day
    <3> QED
      BY <3>1, <3>5, <3>6 DEF Live
  <2>3. \A d \in Days \ DOMAIN days : ~Live(D[LeaveDay(log, d)])
    BY <1>6, <1>10, Tables, AbsentFields DEF Live
  <2>4. \A d \in Days : Live(D[LeaveDay(log, d)]) <=> d \in DOMAIN days
    BY <2>2, <2>3
  <2> QED
    BY <1>4, <2>1, <2>2, <2>4, PayloadAgrees
<1>12. PlanOK(r)'
  <2>1. \A m \in LeaveLogs : DOMAIN rows \intersect LeaveRows(m) # {} => m = log
    BY <1>5, <1>6 DEF LeaveRows, DaysOf
  <2>2. log \in Inserted(r)'
    BY <1>2, <1>4, <1>8 DEF Inserted, Insert
  <2> QED
    BY <1>8, <1>11, <2>1, <2>2 DEF PlanOK, D
<1> QED
  BY <1>1, <1>7, <1>9, <1>12, ReadStep

\* What an update writes to a day of its payload leaves the day of the payload.
LEMMA PutDayStep ==
  ASSUME TimeInv, NEW log \in LeaveLogs, NEW d \in Days, NEW u \in Users, NEW day \in Portion,
         NEW w, w = PutDay(log, u, d, day)
  PROVE  LET x == LeaveDay(log, d)
         IN  /\ IF Insert(w) THEN RowOK(DayRowColumns, w) /\ DayFits(w)
                ELSE db[x].exists /\ ColumnsOK(DayRowColumns, w) /\ ChangeFits(w)
             /\ Live(w @@ db[x]) /\ (w @@ db[x]).portion = day.portion
<1> DEFINE x == LeaveDay(log, d)
           new == w @@ db[x]
<1>1. /\ db[x] \in Day \union {Absent}
      /\ db[x].exists => DayFits(db[x])
  BY DEF TimeInv, TypeOK, DaysFit
<1>2. CASE db[x].exists
  <2>1. w = Changes(db[x], DayColumns(day))
    BY <1>2 DEF PutDay
  <2>2. db[x] \in Day /\ RowOK(DayRowColumns, db[x]) /\ DayFits(db[x])
    BY <1>1, <1>2, AbsentFields, DayRecord
  <2>3. ColumnsOK(DayRowColumns, w) /\ ChangeFits(w) /\ ~Insert(w)
    BY <2>1, <2>2, ChangeOfDay
  <2>4. /\ DOMAIN DayColumns(day) = {"portion", "half_slot", "slot", "deleted"}
        /\ DayColumns(day)["portion"] = day.portion /\ DayColumns(day)["deleted"] = FALSE
    BY DEF DayColumns
  <2>5. DOMAIN db[x] = DOMAIN DayRowColumns /\ db[x]["exists"] = TRUE
    BY <2>2 DEF RowOK, Day
  <2>6. /\ \A f \in DOMAIN DayColumns(day) : new[f] = DayColumns(day)[f]
        /\ \A f \in DOMAIN db[x] \ DOMAIN DayColumns(day) : new[f] = db[x][f]
    BY <2>1, <2>4, <2>5, ChangedRow, DayRowFields
  <2> HIDE DEF new, x
  <2>7. new["portion"] = day.portion /\ new["deleted"] = FALSE /\ new["exists"] = TRUE
    BY <2>4, <2>5, <2>6, DayRowFields
  <2> QED
    BY <1>2, <2>3, <2>7 DEF new, x, Live
<1>3. CASE ~db[x].exists
  <2>1. w = DayColumns(day) @@ [exists |-> TRUE, user |-> u]
    BY <1>3 DEF PutDay
  <2>2. db[x] = Absent
    BY <1>1, <1>3 DEF Day
  <2>3. /\ RowOK(DayRowColumns, w) /\ DayFits(w) /\ Insert(w)
        /\ w.deleted = FALSE /\ w.portion = day.portion
    BY <2>1, NewDay
  <2>4. w \in Day
    BY <2>3, DayRecord
  <2>5. w = [f \in DOMAIN w |-> w[f]] /\ w.exists = TRUE
    BY <2>4 DEF Day
  <2>6. new = w
    BY <2>2, <2>3, <2>5, InsertedRow
  <2> QED
    BY <2>3, <2>5, <2>6 DEF Live
<1> QED
  BY <1>2, <1>3

\* What the days of a payload, and those that it leaves out, are written with.
LEMMA UpdateRows ==
  ASSUME TimeInv, NEW log \in LeaveLogs, NEW days \in Payload, NEW dates, NEW rows, NEW old,
         rows = log :> dates @@ ScheduleChanges(log, days),
         old = DOMAIN list_active_by_leave_log(log)
  PROVE  /\ DOMAIN rows = {log} \union {LeaveDay(log, d) : d \in DOMAIN days \union old}
         /\ rows[log] = dates
         /\ \A d \in old \ DOMAIN days : rows[LeaveDay(log, d)] = [deleted |-> TRUE]
         /\ \A d \in DOMAIN days :
              rows[LeaveDay(log, d)] = PutDay(log, db[log].user, d, days[d])
<1> DEFINE put == ScheduleChanges(log, days)
<1>1. old \subseteq Days
  BY DEF list_active_by_leave_log
<1>2. DOMAIN put = {LeaveDay(log, d) : d \in DOMAIN days \union old}
  BY DEF ScheduleChanges
<1>3. /\ \A d \in old \ DOMAIN days : put[LeaveDay(log, d)] = [deleted |-> TRUE]
      /\ \A d \in DOMAIN days : put[LeaveDay(log, d)] = PutDay(log, db[log].user, d, days[d])
  BY <1>2, Tables DEF ScheduleChanges
<1> HIDE DEF put
<1>4. \A d \in DOMAIN days \union old : LeaveDay(log, d) # log
  BY <1>1, PayloadDays, Tables
<1>5. rows = log :> dates @@ put
  BY DEF put
<1> QED
  BY <1>2, <1>3, <1>4, <1>5 DEF :>, @@

LEMMA UpdateLeaveStep ==
  ASSUME TimeInv, NEW r \in Requests, NEW log \in LeaveLogs, NEW days \in Payload,
         update_leave_log(r, log, days)
  PROVE  TimeInv'
<1> DEFINE old == DOMAIN list_active_by_leave_log(log)
           u == db[log].user
           columns == [start_date |-> Min(DOMAIN days), end_date |-> Max(DOMAIN days),
                       total_days |-> calculate_total_days(days)]
           dates == Changes(db[log], columns)
           rows == log :> dates @@ ScheduleChanges(log, days)
           D == Expected(r)'
<1>1. /\ caller[r] # None /\ Present(log)
      /\ Scheduler(caller[r]) \/ Owns(r, log)
      /\ Read(r, {log} \union LeaveDays, rows)
  BY DEF update_leave_log, Serving, get_leave_log
<1>2. /\ db[log] \in LeaveLog /\ RowOK(LeaveColumns, db[log])
      /\ u \in Users /\ db[log].exists = TRUE /\ db[log].deleted = FALSE
  <2>1. db[log] \in LeaveLog
    BY <1>1, AbsentFields DEF TimeInv, TypeOK, Present, Live
  <2> QED
    BY <1>1, <2>1, LeaveRecord DEF LeaveLog, Present, Live
<1>3. old = {e \in Days : Present(LeaveDay(log, e))}
  BY DEF list_active_by_leave_log
<1>4. /\ DOMAIN rows = {log} \union {LeaveDay(log, d) : d \in DOMAIN days \union old}
      /\ rows[log] = dates
      /\ \A d \in old \ DOMAIN days : rows[LeaveDay(log, d)] = [deleted |-> TRUE]
      /\ \A d \in DOMAIN days : rows[LeaveDay(log, d)] = PutDay(log, u, d, days[d])
  <2>1. /\ rows = log :> dates @@ ScheduleChanges(log, days)
        /\ old = DOMAIN list_active_by_leave_log(log)
    OBVIOUS
  <2> HIDE DEF rows, dates, old
  <2> QED
    BY <2>1, UpdateRows DEF u
<1>5. \A d \in old \ DOMAIN days :
        LET x == LeaveDay(log, d)
        IN  /\ ColumnsOK(DayRowColumns, rows[x]) /\ ChangeFits(rows[x]) /\ ~Insert(rows[x])
            /\ db[x].exists /\ ~Live(rows[x] @@ db[x])
  <2> SUFFICES ASSUME NEW d \in old \ DOMAIN days
               PROVE  LET x == LeaveDay(log, d)
                      IN  /\ ColumnsOK(DayRowColumns, rows[x]) /\ ChangeFits(rows[x])
                          /\ ~Insert(rows[x]) /\ db[x].exists /\ ~Live(rows[x] @@ db[x])
    OBVIOUS
  <2> DEFINE x == LeaveDay(log, d)
             w == [deleted |-> TRUE]
  <2>1. DOMAIN w = {"deleted"} /\ w["deleted"] = TRUE
    OBVIOUS
  <2>2. rows[x] = w /\ db[x].exists
    BY <1>3, <1>4 DEF Present, Live
  <2>3. (w @@ db[x])["deleted"] = TRUE
    BY <2>1, Over
  <2> HIDE DEF w, x, rows
  <2>4. ColumnsOK(DayRowColumns, w) /\ ChangeFits(w) /\ ~Insert(w)
    <3>1. w["deleted"] \in BOOLEAN
      BY <2>1
    <3> QED
      BY <2>1, <3>1, DayRowFields DEF ColumnsOK, ChangeFits, Insert
  <2>5. ~Live(w @@ db[x])
    BY <2>3 DEF Live
  <2> QED
    BY <2>2, <2>4, <2>5 DEF x
<1>6. \A d \in DOMAIN days :
        LET x == LeaveDay(log, d)
            w == rows[x]
        IN  /\ IF Insert(w) THEN RowOK(DayRowColumns, w) /\ DayFits(w)
               ELSE db[x].exists /\ ColumnsOK(DayRowColumns, w) /\ ChangeFits(w)
            /\ Live(w @@ db[x]) /\ (w @@ db[x]).portion = days[d].portion
  BY <1>2, <1>4, PayloadDays, PutDayStep
<1>7. /\ ColumnsOK(LeaveColumns, dates) /\ ~Insert(dates)
      /\ (dates @@ db[log]).deleted = FALSE
      /\ (dates @@ db[log]).start_date = Min(DOMAIN days)
      /\ (dates @@ db[log]).end_date = Max(DOMAIN days)
      /\ (dates @@ db[log]).total_days = calculate_total_days(days)
  <2>1. /\ DOMAIN columns = {"start_date", "end_date", "total_days"}
        /\ columns["start_date"] = Min(DOMAIN days) /\ columns["end_date"] = Max(DOMAIN days)
        /\ columns["total_days"] = calculate_total_days(days)
    OBVIOUS
  <2> HIDE DEF columns
  <2>2. ColumnsOK(LeaveColumns, columns)
    BY <2>1, PayloadDays, LeaveFields DEF ColumnsOK
  <2>3. ColumnsOK(LeaveColumns, dates) /\ DOMAIN dates \subseteq DOMAIN columns
    BY <2>2, ChangesOK
  <2>4. DOMAIN db[log] = DOMAIN LeaveColumns
    BY <1>2 DEF RowOK
  <2>5. /\ \A f \in DOMAIN columns : (dates @@ db[log])[f] = columns[f]
        /\ \A f \in DOMAIN db[log] \ DOMAIN columns : (dates @@ db[log])[f] = db[log][f]
    BY <2>1, <2>4, ChangedRow, LeaveFields
  <2> HIDE DEF dates
  <2>6. ~Insert(dates)
    BY <2>1, <2>3 DEF Insert
  <2>7. (dates @@ db[log])["deleted"] = FALSE
    BY <1>2, <2>1, <2>4, <2>5, LeaveFields
  <2> QED
    BY <2>1, <2>3, <2>5, <2>6, <2>7
<1> HIDE DEF rows, dates, u, old
<1>8. \A m \in LeaveLogs : m \in DOMAIN rows => m = log
  BY <1>3, <1>4, PayloadDays, Tables
<1>9. \A m \in LeaveLogs, e \in Days :
        LeaveDay(m, e) \in DOMAIN rows => m = log /\ e \in DOMAIN days \union old
  BY <1>3, <1>4, PayloadDays, Tables
<1>10. WriteOK(rows)
  <2>1. \A ev \in Events : ev \notin DOMAIN rows
    BY <1>3, <1>4, PayloadDays, Tables
  <2>2. \A m \in LeaveLogs \intersect DOMAIN rows : LeaveWriteOK(m, rows[m])
    BY <1>2, <1>4, <1>7, <1>8 DEF LeaveWriteOK
  <2>3. ASSUME NEW m \in LeaveLogs, NEW d \in Days, LeaveDay(m, d) \in DOMAIN rows
        PROVE  DayWriteOK(m, LeaveDay(m, d), rows)
    <3>1. m = log /\ (d \in DOMAIN days \/ d \in old \ DOMAIN days)
      BY <1>9, <2>3
    <3>2. CASE d \in DOMAIN days
      BY <1>2, <1>6, <3>1, <3>2 DEF DayWriteOK
    <3>3. CASE d \in old \ DOMAIN days
      BY <1>5, <3>1, <3>3 DEF DayWriteOK
    <3> QED
      BY <3>1, <3>2, <3>3
  <2> QED
    BY <2>1, <2>2, <2>3 DEF WriteOK
<1>11. /\ write'[r] = rows /\ loaded'[r] = [x \in {log} \union LeaveDays |-> db[x]]
       /\ LeaveRows(log) \subseteq {log} \union LeaveDays
       /\ at'[r] = clock /\ caller'[r] = caller[r]
  BY <1>1 DEF TimeInv, OpenSessions, Read, LeaveRows, LeaveDays
<1>12. BegunOK(r)'
  <2> SUFFICES ASSUME NEW m \in LeaveLogs, NEW d \in Days, LeaveDay(m, d) \in DOMAIN rows
               PROVE  /\ LeaveDay(m, d) \in DOMAIN loaded'[r]
                      /\ Live(loaded'[r][LeaveDay(m, d)])
                           => \/ Scheduler(caller[r])
                              \/ get_period_start(d, loaded'[r][LeaveDay(m, d)]) > at'[r]
    BY <1>11 DEF BegunOK
  <2>1. m = log /\ LeaveDay(log, d) \in LeaveRows(log)
    BY <1>9, Tables DEF LeaveRows
  <2>2. loaded'[r][LeaveDay(m, d)] = db[LeaveDay(log, d)]
    BY <1>11, <2>1
  <2>3. ASSUME Present(LeaveDay(log, d)), Owns(r, log)
        PROVE  get_period_start(d, db[LeaveDay(log, d)]) > clock
    BY <2>3, OwnedDays
  <2> QED
    BY <1>1, <1>11, <2>1, <2>2, <2>3 DEF Present
<1>13. \A x \in LeaveRows(log) :
         D[x] = IF x \in DOMAIN rows THEN rows[x] @@ db[x] ELSE db[x]
  <2>1. LeaveRows(log) \subseteq Rows
    BY Tables DEF LeaveRows, DaysOf
  <2> QED
    BY <1>11, <2>1 DEF Expected, Seen
<1> HIDE DEF D
<1>14. Agrees(D, log)
  <2>1. D[log] = dates @@ db[log]
    BY <1>4, <1>13 DEF LeaveRows
  <2>2. ASSUME NEW d \in DOMAIN days
        PROVE  Live(D[LeaveDay(log, d)]) /\ D[LeaveDay(log, d)].portion = days[d].portion
    <3>1. LeaveDay(log, d) \in LeaveRows(log) /\ LeaveDay(log, d) \in DOMAIN rows
      BY <1>4, PayloadDays, Tables DEF LeaveRows
    <3>2. D[LeaveDay(log, d)] = rows[LeaveDay(log, d)] @@ db[LeaveDay(log, d)]
      BY <1>13, <3>1
    <3> QED
      BY <1>6, <3>2
  <2>3. ASSUME NEW d \in Days \ DOMAIN days
        PROVE  ~Live(D[LeaveDay(log, d)])
    <3>1. LeaveDay(log, d) \in LeaveRows(log)
      BY Tables DEF LeaveRows
    <3>2. CASE d \in old
      BY <1>4, <1>5, <1>13, <3>1, <3>2
    <3>3. CASE d \notin old
      <4>1. LeaveDay(log, d) \notin DOMAIN rows
        BY <1>9, <3>3
      <4>2. D[LeaveDay(log, d)] = db[LeaveDay(log, d)]
        BY <1>13, <3>1, <4>1
      <4> QED
        BY <1>3, <3>3, <4>2 DEF Present
    <3> QED
      BY <3>2, <3>3
  <2>4. \A d \in Days : Live(D[LeaveDay(log, d)]) <=> d \in DOMAIN days
    BY <2>2, <2>3
  <2> QED
    BY <1>7, <2>1, <2>2, <2>4, PayloadAgrees
<1>15. PlanOK(r)'
  <2>1. \A m \in LeaveLogs : DOMAIN rows \intersect LeaveRows(m) # {} => m = log
    BY <1>8, <1>9 DEF LeaveRows, DaysOf
  <2> QED
    BY <1>11, <1>14, <2>1 DEF PlanOK, D
<1> QED
  BY <1>1, <1>10, <1>12, <1>15, ReadStep

LEMMA DeleteLeaveStep ==
  ASSUME TimeInv, NEW r \in Requests, NEW log \in LeaveLogs, delete_leave_log(r, log)
  PROVE  TimeInv'
<1> DEFINE gone == {log} \union {y \in DaysOf(log) : Present(y)}
           rows == [x \in gone |-> [deleted |-> TRUE]]
           D == Expected(r)'
<1>1. /\ caller[r] # None /\ Present(log) /\ Owns(r, log)
      /\ Read(r, LeaveRows(log), rows)
  BY DEF delete_leave_log, Serving, get_leave_log, LeaveRows
<1>2. gone \subseteq LeaveRows(log) /\ log \in gone /\ \A x \in gone : db[x].exists
  BY <1>1 DEF LeaveRows, Present, Live
<1>3. DOMAIN rows = gone
  OBVIOUS
<1>4. \A x \in gone : ~Insert(rows[x]) /\ DOMAIN rows[x] = {"deleted"} /\ rows[x]["deleted"] = TRUE
  BY DEF Insert
<1>5. \A x \in gone : (rows[x] @@ db[x])["deleted"] = TRUE
  BY <1>4, Over
<1> HIDE DEF rows
<1>6. /\ \A m \in LeaveLogs : m \in gone => m = log
      /\ \A m \in LeaveLogs, e \in Days : LeaveDay(m, e) \in gone => m = log
      /\ \A ev \in Events : ev \notin gone
  BY <1>2, Tables DEF LeaveRows, DaysOf
<1>7. /\ \A d \in Days : LeaveDay(log, d) \in gone \/ ~Present(LeaveDay(log, d))
      /\ LeaveRows(log) \subseteq Rows
  BY Tables DEF LeaveRows, DaysOf
<1> HIDE DEF gone
<1>8. WriteOK(rows)
  <2>1. \A x \in gone : rows[x]["deleted"] \in BOOLEAN
    BY <1>4
  <2>2. \A x \in gone : ColumnsOK(LeaveColumns, rows[x])
    BY <1>4, <2>1, LeaveFields DEF ColumnsOK
  <2>3. \A x \in gone : ColumnsOK(DayRowColumns, rows[x])
    BY <1>4, <2>1, DayRowFields DEF ColumnsOK
  <2>4. \A x \in gone : ChangeFits(rows[x])
    BY <1>4 DEF ChangeFits
  <2>5. \A m \in LeaveLogs \intersect DOMAIN rows : LeaveWriteOK(m, rows[m])
    BY <1>2, <1>3, <1>4, <2>2 DEF LeaveWriteOK
  <2>6. \A m \in LeaveLogs, d \in Days :
          LeaveDay(m, d) \in DOMAIN rows => DayWriteOK(m, LeaveDay(m, d), rows)
    BY <1>2, <1>3, <1>4, <2>3, <2>4 DEF DayWriteOK
  <2>7. \A ev \in Events : ev \notin DOMAIN rows
    BY <1>3, <1>6
  <2> QED
    BY <2>5, <2>6, <2>7 DEF WriteOK
<1>9. /\ write'[r] = rows /\ loaded'[r] = [x \in LeaveRows(log) |-> db[x]]
      /\ at'[r] = clock /\ caller'[r] = caller[r]
  BY <1>1 DEF TimeInv, OpenSessions, Read
<1>10. BegunOK(r)'
  <2> SUFFICES ASSUME NEW m \in LeaveLogs, NEW d \in Days, LeaveDay(m, d) \in gone
               PROVE  /\ LeaveDay(m, d) \in DOMAIN loaded'[r]
                      /\ Live(loaded'[r][LeaveDay(m, d)])
                           => get_period_start(d, loaded'[r][LeaveDay(m, d)]) > at'[r]
    BY <1>3, <1>9 DEF BegunOK
  <2>1. m = log /\ LeaveDay(log, d) \in LeaveRows(log)
    BY <1>2, <1>6
  <2>2. loaded'[r][LeaveDay(m, d)] = db[LeaveDay(log, d)]
    BY <1>9, <2>1
  <2>3. ASSUME Present(LeaveDay(log, d))
        PROVE  get_period_start(d, db[LeaveDay(log, d)]) > clock
    BY <1>1, <2>3, OwnedDays
  <2> QED
    BY <1>9, <2>1, <2>2, <2>3 DEF Present
<1>11. \A x \in LeaveRows(log) :
         D[x] = IF x \in gone THEN rows[x] @@ db[x] ELSE db[x]
  BY <1>3, <1>7, <1>9 DEF Expected, Seen
<1> HIDE DEF D
<1>12. Agrees(D, log)
  <2>1. D[log].deleted = TRUE
    BY <1>2, <1>5, <1>11
  <2>2. ASSUME NEW d \in Days
        PROVE  ~Live(D[LeaveDay(log, d)])
    <3>1. LeaveDay(log, d) \in LeaveRows(log)
      BY Tables DEF LeaveRows
    <3>2. CASE LeaveDay(log, d) \in gone
      BY <1>5, <1>11, <3>1, <3>2 DEF Live
    <3>3. CASE LeaveDay(log, d) \notin gone
      BY <1>7, <1>11, <3>1, <3>3 DEF Present
    <3> QED
      BY <3>2, <3>3
  <2> QED
    BY <2>1, <2>2, NoDaysAgree
<1>13. PlanOK(r)'
  <2>1. \A m \in LeaveLogs : gone \intersect LeaveRows(m) # {} => m = log
    BY <1>6 DEF LeaveRows, DaysOf
  <2> QED
    BY <1>3, <1>9, <1>12, <2>1 DEF PlanOK, D
<1> QED
  BY <1>1, <1>8, <1>10, <1>13, ReadStep

-------------------------------------------------------------------------------
(* Events                                                                  *)

\* A request that writes to an event writes to nothing else.
LEMMA EventStep ==
  ASSUME TimeInv, NEW r \in Requests, caller[r] # None, NEW ev \in Events, NEW read, NEW w,
         Read(r, read, ev :> w), EventWriteOK(ev, w)
  PROVE  TimeInv'
<1> DEFINE rows == ev :> w
<1>1. DOMAIN rows = {ev} /\ rows[ev] = w
  BY OneRow
<1> HIDE DEF rows
<1>2. /\ \A log \in LeaveLogs : log \notin DOMAIN rows
      /\ \A log \in LeaveLogs, d \in Days : LeaveDay(log, d) \notin DOMAIN rows
  BY <1>1, Tables
<1>3. WriteOK(rows)
  BY <1>1, <1>2 DEF WriteOK
<1>4. write'[r] = rows
  BY DEF TimeInv, OpenSessions, Read, rows
<1>5. BegunOK(r)'
  BY <1>2, <1>4 DEF BegunOK
<1>6. PlanOK(r)'
  BY <1>2, <1>4 DEF PlanOK, LeaveRows, DaysOf
<1> QED
  BY <1>3, <1>5, <1>6, ReadStep DEF rows

LEMMA CreateEventStep ==
  ASSUME TimeInv, NEW r \in Requests, NEW ev \in Events, NEW type \in EventType,
         NEW start \in Times, NEW end \in Times, create_event(r, ev, type, start, end)
  PROVE  TimeInv'
<1> DEFINE u == caller[r]
           w == NewEvent(u, type, start, end)
           names == {"exists", "deleted", "organization", "event_type", "start_time", "end_time",
                     "created_by"}
<1>1. u # None /\ u \in Users /\ Read(r, {}, ev :> w)
  BY DEF create_event, Serving, TimeInv, CallersOK
<1>2. RowOK(EventColumns, w) /\ Insert(w)
  <2>1. w = [f \in names |-> w[f]] /\ DOMAIN w = names
    BY DEF NewEvent
  <2>2. /\ w["exists"] \in {TRUE} /\ w["deleted"] \in BOOLEAN /\ w["organization"] \in BOOLEAN
        /\ w["event_type"] \in EventType /\ w["start_time"] \in Times /\ w["end_time"] \in Times
        /\ w["created_by"] \in Users
    BY <1>1 DEF NewEvent
  <2> HIDE DEF w
  <2> QED
    BY <2>1, <2>2, EventFields DEF RowOK, Insert
<1>3. EventWriteOK(ev, w)
  BY <1>2 DEF EventWriteOK
<1> QED
  BY <1>1, <1>3, EventStep

LEMMA UpdateEventStep ==
  ASSUME TimeInv, NEW r \in Requests, NEW ev \in Events, NEW type \in EventType,
         NEW start \in Times, NEW end \in Times, update_event(r, ev, type, start, end)
  PROVE  TimeInv'
<1> DEFINE new == [event_type |-> type, start_time |-> start, end_time |-> end]
           w == Changes(db[ev], new)
<1>1. caller[r] # None /\ Read(r, {ev}, ev :> w) /\ db[ev].exists
  BY DEF update_event, Serving, get_modifiable, Present, Live
<1>2. /\ DOMAIN new = {"event_type", "start_time", "end_time"}
      /\ new["event_type"] = type /\ new["start_time"] = start /\ new["end_time"] = end
  OBVIOUS
<1> HIDE DEF new
<1>3. ColumnsOK(EventColumns, new)
  BY <1>2, EventFields DEF ColumnsOK
<1>4. ColumnsOK(EventColumns, w) /\ DOMAIN w \subseteq DOMAIN new
  BY <1>3, ChangesOK
<1> HIDE DEF w
<1>5. EventWriteOK(ev, w)
  BY <1>1, <1>2, <1>4 DEF EventWriteOK, Insert
<1> QED
  BY <1>1, <1>5, EventStep

LEMMA DeleteEventStep ==
  ASSUME TimeInv, NEW r \in Requests, NEW ev \in Events, delete_event(r, ev)
  PROVE  TimeInv'
<1> DEFINE w == [deleted |-> TRUE]
<1>1. caller[r] # None /\ Read(r, {ev}, ev :> w) /\ db[ev].exists
  BY DEF delete_event, Serving, get_modifiable, Present, Live
<1>2. DOMAIN w = {"deleted"} /\ w["deleted"] \in BOOLEAN
  OBVIOUS
<1> HIDE DEF w
<1>3. EventWriteOK(ev, w)
  BY <1>1, <1>2, EventFields DEF EventWriteOK, Insert, ColumnsOK
<1> QED
  BY <1>1, <1>3, EventStep

-------------------------------------------------------------------------------
(* Leave twice                                                             *)

\* The days of a leave are its owner's.
DaysOwned == \A log \in LeaveLogs, d \in Days :
               LET x == LeaveDay(log, d) IN db[x].exists => db[x].user = db[log].user

\* The owner of a row is written when it is inserted, and that of a day is the
\* owner of its leave.
OwnersOK(rows) ==
  /\ \A log \in LeaveLogs \intersect DOMAIN rows : "user" \in DOMAIN rows[log] => Insert(rows[log])
  /\ \A log \in LeaveLogs, d \in Days :
       LET x == LeaveDay(log, d)
       IN  x \in DOMAIN rows /\ "user" \in DOMAIN rows[x]
             => /\ Insert(rows[x])
                /\ IF log \in DOMAIN rows /\ Insert(rows[log]) THEN rows[x].user = rows[log].user
                   ELSE db[log].exists /\ rows[x].user = db[log].user

Overlap(x, y) == Live(y) /\ x.user = y.user /\ x.slot \intersect y.slot # {}

\* A day that a request writes overlaps none of those that it found.
Free(rows, found) ==
  \A log \in LeaveLogs, d \in Days :
    LET x == LeaveDay(log, d)
    IN  x \in DOMAIN rows
          => /\ x \in DOMAIN found
             /\ Live(rows[x] @@ found[x])
                  => \A m \in LeaveLogs \ {log} :
                       /\ LeaveDay(m, d) \in DOMAIN found
                       /\ ~Overlap(rows[x] @@ found[x], found[LeaveDay(m, d)])

FreeInv == DaysOwned /\ \A r \in Requests : OwnersOK(write[r]) /\ Free(write[r], loaded[r])

LEMMA FreeOfNothing == OwnersOK(Nothing) /\ \A found : Free(Nothing, found)
BY NothingIsEmpty DEF OwnersOK, Free

LEMMA FreeRead ==
  ASSUME TimeInv, FreeInv, NEW r \in Requests, NEW read, NEW rows, Read(r, read, rows),
         OwnersOK(rows), Free(rows, [x \in read |-> db[x]])
  PROVE  FreeInv'
<1>1. /\ db' = db
      /\ loaded'[r] = [x \in read |-> db[x]] /\ write'[r] = rows
      /\ \A q \in Requests \ {r} : loaded'[q] = loaded[q] /\ write'[q] = write[q]
  BY ReadEffect DEF TimeInv
<1>2. ASSUME NEW q \in Requests
      PROVE  OwnersOK(write[q])' /\ Free(write'[q], loaded'[q])
  <2>1. OwnersOK(write'[q]) /\ Free(write'[q], loaded'[q])
    BY <1>1 DEF FreeInv
  <2>2. OwnersOK(write[q])'
    BY <1>1, <2>1 DEF OwnersOK
  <2> QED
    BY <2>1, <2>2
<1> QED
  BY <1>1, <1>2 DEF FreeInv, DaysOwned

\* A request that writes to no day and sets no owner.
LEMMA FreeElsewhere ==
  ASSUME TimeInv, FreeInv, NEW r \in Requests, NEW read, NEW ev \in Events, NEW w,
         Read(r, read, ev :> w)
  PROVE  FreeInv'
<1> DEFINE rows == ev :> w
<1>1. DOMAIN rows = {ev} /\ Read(r, read, rows)
  BY OneRow
<1> HIDE DEF rows
<1>2. /\ \A log \in LeaveLogs : log \notin DOMAIN rows
      /\ \A log \in LeaveLogs, d \in Days : LeaveDay(log, d) \notin DOMAIN rows
  BY <1>1, Tables
<1>3. OwnersOK(rows) /\ Free(rows, [x \in read |-> db[x]])
  BY <1>2 DEF OwnersOK, Free
<1> QED
  BY <1>1, <1>3, FreeRead

\* The day of a payload, as it is written over the row that was read.
LEMMA PutDayOwner ==
  ASSUME TimeInv, NEW log \in LeaveLogs, NEW d \in Days, NEW u \in Users, NEW day \in Portion,
         NEW w, w = PutDay(log, u, d, day),
         db[LeaveDay(log, d)].exists => db[LeaveDay(log, d)].user = u
  PROVE  /\ "user" \in DOMAIN w => Insert(w) /\ w.user = u
         /\ (w @@ db[LeaveDay(log, d)]).user = u
         /\ (w @@ db[LeaveDay(log, d)]).slot = build_slot(day)
<1> DEFINE x == LeaveDay(log, d)
           columns == DayColumns(day)
           new == w @@ db[x]
<1>1. db[x] \in Day \union {Absent}
  BY DEF TimeInv, TypeOK
<1>2. /\ DOMAIN columns = {"portion", "half_slot", "slot", "deleted"}
      /\ columns["slot"] = build_slot(day)
  BY DEF DayColumns
<1> HIDE DEF columns
<1>3. CASE db[x].exists
  <2>1. w = Changes(db[x], columns)
    BY <1>3 DEF PutDay, columns
  <2>2. RowOK(DayRowColumns, db[x])
    BY <1>1, <1>3, AbsentFields, DayRecord
  <2>3. DOMAIN db[x] = DOMAIN DayRowColumns
    BY <2>2 DEF RowOK
  <2>4. /\ \A f \in DOMAIN columns : new[f] = columns[f]
        /\ \A f \in DOMAIN db[x] \ DOMAIN columns : new[f] = db[x][f]
    BY <1>2, <2>1, <2>3, ChangedRow, DayRowFields
  <2> HIDE DEF new, x
  <2>5. "user" \notin DOMAIN w
    <3>1. DOMAIN Changes(db[x], columns) \subseteq DOMAIN columns
      BY ChangesWithin
    <3> QED
      BY <1>2, <2>1, <3>1
  <2>6. new["user"] = db[x]["user"] /\ new["slot"] = build_slot(day)
    BY <1>2, <2>3, <2>4, DayRowFields
  <2> QED
    BY <1>3, <2>5, <2>6 DEF new, x
<1>4. CASE ~db[x].exists
  <2>1. w = columns @@ [exists |-> TRUE, user |-> u]
    BY <1>4 DEF PutDay, columns
  <2>2. RowOK(DayRowColumns, w) /\ Insert(w)
    BY <2>1, NewDay DEF columns
  <2>3. w = [f \in DOMAIN w |-> w[f]]
    BY <2>2 DEF RowOK
  <2>4. db[x] = Absent
    BY <1>1, <1>4 DEF Day
  <2>5. new = w
    BY <2>2, <2>3, <2>4, InsertedRow
  <2>6. w["user"] = u /\ w["slot"] = build_slot(day)
    BY <1>2, <2>1 DEF @@
  <2> QED
    BY <2>2, <2>5, <2>6
<1> QED
  BY <1>3, <1>4

LEMMA CreateFree ==
  ASSUME TimeInv, FreeInv, NEW r \in Requests, NEW log \in LeaveLogs, NEW days \in Payload,
         create_leave_log(r, log, days)
  PROVE  FreeInv'
<1> DEFINE u == caller[r]
           new == NewLeaveLog(u, Min(DOMAIN days), Max(DOMAIN days), calculate_total_days(days))
           rows == log :> new @@ NewDays(log, u, days)
           found == [x \in LeaveDays |-> db[x]]
<1>1. u \in Users /\ ~db[log].exists /\ ensure_no_overlap(u, days, None)
  BY DEF create_leave_log, Serving, TimeInv, CallersOK, NewId
<1>2. Read(r, LeaveDays, rows)
  BY DEF create_leave_log, NewDays
<1>3. Insert(new) /\ new.user = u
  BY DEF NewLeaveLog, Insert
<1> HIDE DEF u, new
<1>4. CreatedRows(log, u, days, new, rows)
  BY CreateRows
<1> HIDE DEF rows
<1>5. /\ DOMAIN rows = {log} \union {LeaveDay(log, d) : d \in DOMAIN days} /\ rows[log] = new
      /\ \A d \in DOMAIN days : rows[LeaveDay(log, d)] = PutDay(log, u, d, days[d])
  BY <1>4 DEF CreatedRows
<1>6. /\ \A m \in LeaveLogs : m \in DOMAIN rows => m = log
      /\ \A m \in LeaveLogs, e \in Days :
           LeaveDay(m, e) \in DOMAIN rows => m = log /\ e \in DOMAIN days
  BY <1>5, PayloadDays, Tables
<1>7. \A m \in LeaveLogs, e \in Days : LeaveDay(m, e) \in LeaveDays
  BY Tables DEF LeaveDays
<1>8. ASSUME NEW d \in DOMAIN days
      PROVE  LET w == rows[LeaveDay(log, d)]
             IN  /\ "user" \in DOMAIN w => Insert(w) /\ w.user = u
                 /\ (w @@ db[LeaveDay(log, d)]).user = u
                 /\ (w @@ db[LeaveDay(log, d)]).slot = build_slot(days[d])
  <2>1. d \in Days /\ days[d] \in Portion
    BY PayloadDays
  <2>2. ~db[LeaveDay(log, d)].exists
    BY <1>1, <2>1 DEF TimeInv, TypeOK
  <2> QED
    BY <1>1, <1>5, <2>1, <2>2, PutDayOwner
<1>9. OwnersOK(rows)
  BY <1>3, <1>5, <1>6, <1>8 DEF OwnersOK
<1>10. Free(rows, found)
  <2> SUFFICES ASSUME NEW d \in DOMAIN days, d \in Days, NEW m \in LeaveLogs \ {log},
                      Overlap(rows[LeaveDay(log, d)] @@ db[LeaveDay(log, d)], db[LeaveDay(m, d)])
               PROVE  FALSE
    BY <1>6, <1>7 DEF Free
  <2>1. m \in LeaveLogs \ {None}
    BY TimesheetAssumption
  <2>2. /\ Live(db[LeaveDay(m, d)]) /\ db[LeaveDay(m, d)].user = u
        /\ db[LeaveDay(m, d)].slot \intersect build_slot(days[d]) # {}
    BY <1>8 DEF Overlap
  <2>3. has_overlapping_leave(u, d, build_slot(days[d]), None)
    BY <2>1, <2>2 DEF has_overlapping_leave
  <2> QED
    BY <1>1, <2>3 DEF ensure_no_overlap
<1> QED
  BY <1>2, <1>9, <1>10, FreeRead

LEMMA UpdateFree ==
  ASSUME TimeInv, FreeInv, NEW r \in Requests, NEW log \in LeaveLogs, NEW days \in Payload,
         update_leave_log(r, log, days)
  PROVE  FreeInv'
<1> DEFINE old == DOMAIN list_active_by_leave_log(log)
           u == db[log].user
           columns == [start_date |-> Min(DOMAIN days), end_date |-> Max(DOMAIN days),
                       total_days |-> calculate_total_days(days)]
           dates == Changes(db[log], columns)
           rows == log :> dates @@ ScheduleChanges(log, days)
           found == [x \in {log} \union LeaveDays |-> db[x]]
<1>1. /\ Present(log) /\ ensure_no_overlap(u, days, log)
      /\ Read(r, {log} \union LeaveDays, rows)
  BY DEF update_leave_log, get_leave_log
<1>2. u \in Users /\ db[log].exists
  <2>1. db[log] \in LeaveLog
    BY <1>1, AbsentFields DEF TimeInv, TypeOK, Present, Live
  <2> QED
    BY <2>1 DEF LeaveLog
<1>3. "user" \notin DOMAIN dates
  <2>1. "user" \notin DOMAIN columns
    OBVIOUS
  <2> HIDE DEF columns
  <2>2. DOMAIN dates \subseteq DOMAIN columns
    BY ChangesWithin
  <2> QED
    BY <2>1, <2>2
<1>4. old \subseteq Days
  BY DEF list_active_by_leave_log
<1> HIDE DEF dates
<1>5. /\ DOMAIN rows = {log} \union {LeaveDay(log, d) : d \in DOMAIN days \union old}
      /\ rows[log] = dates
      /\ \A d \in old \ DOMAIN days : rows[LeaveDay(log, d)] = [deleted |-> TRUE]
      /\ \A d \in DOMAIN days : rows[LeaveDay(log, d)] = PutDay(log, u, d, days[d])
  <2>1. /\ rows = log :> dates @@ ScheduleChanges(log, days)
        /\ old = DOMAIN list_active_by_leave_log(log)
    OBVIOUS
  <2> HIDE DEF rows, old
  <2> QED
    BY <2>1, UpdateRows DEF u
<1> HIDE DEF rows, old, u
<1>6. /\ \A m \in LeaveLogs : m \in DOMAIN rows => m = log
      /\ \A m \in LeaveLogs, e \in Days :
           LeaveDay(m, e) \in DOMAIN rows => m = log /\ e \in DOMAIN days \union old
  BY <1>4, <1>5, PayloadDays, Tables
<1>7. \A m \in LeaveLogs, e \in Days : LeaveDay(m, e) \in LeaveDays
  BY Tables DEF LeaveDays
<1>8. ASSUME NEW d \in DOMAIN days
      PROVE  LET w == rows[LeaveDay(log, d)]
             IN  /\ "user" \in DOMAIN w => Insert(w) /\ w.user = u
                 /\ (w @@ db[LeaveDay(log, d)]).user = u
                 /\ (w @@ db[LeaveDay(log, d)]).slot = build_slot(days[d])
  <2>1. d \in Days /\ days[d] \in Portion
    BY PayloadDays
  <2>2. db[LeaveDay(log, d)].exists => db[LeaveDay(log, d)].user = u
    BY <2>1 DEF FreeInv, DaysOwned, u
  <2> QED
    BY <1>2, <1>5, <2>1, <2>2, PutDayOwner
<1>9. ASSUME NEW d \in old \ DOMAIN days
      PROVE  LET w == rows[LeaveDay(log, d)]
             IN  "user" \notin DOMAIN w /\ ~Live(w @@ db[LeaveDay(log, d)])
  <2> DEFINE w == [deleted |-> TRUE]
             x == LeaveDay(log, d)
  <2>1. DOMAIN w = {"deleted"} /\ w["deleted"] = TRUE /\ rows[x] = w
    BY <1>5
  <2> HIDE DEF w, x
  <2>2. \A f \in DOMAIN w : (w @@ db[x])[f] = w[f]
    BY Over
  <2>3. (w @@ db[x])["deleted"] = TRUE
    BY <2>1, <2>2
  <2> QED
    BY <2>1, <2>3 DEF Live, x
<1>10. OwnersOK(rows)
  <2>1. ASSUME NEW m \in LeaveLogs, NEW d \in Days, LeaveDay(m, d) \in DOMAIN rows,
               "user" \in DOMAIN rows[LeaveDay(m, d)]
        PROVE  m = log /\ Insert(rows[LeaveDay(m, d)]) /\ rows[LeaveDay(m, d)].user = u
    BY <1>6, <1>8, <1>9, <2>1
  <2>2. ~Insert(rows[log]) \/ "user" \notin DOMAIN rows[log]
    BY <1>3, <1>5
  <2>3. ~Insert(rows[log])
    <3>1. "exists" \notin DOMAIN columns
      OBVIOUS
    <3> HIDE DEF columns
    <3>2. DOMAIN dates \subseteq DOMAIN columns
      BY ChangesWithin DEF dates
    <3> QED
      BY <1>5, <3>1, <3>2 DEF Insert
  <2> QED
    BY <1>2, <1>3, <1>5, <1>6, <2>1, <2>3 DEF OwnersOK, u
<1>11. Free(rows, found)
  <2> SUFFICES ASSUME NEW d \in Days, LeaveDay(log, d) \in DOMAIN rows,
                      Live(rows[LeaveDay(log, d)] @@ db[LeaveDay(log, d)]),
                      NEW m \in LeaveLogs \ {log},
                      Overlap(rows[LeaveDay(log, d)] @@ db[LeaveDay(log, d)], db[LeaveDay(m, d)])
               PROVE  FALSE
    BY <1>6, <1>7 DEF Free
  <2>1. d \in DOMAIN days
    BY <1>6, <1>9
  <2>2. /\ Live(db[LeaveDay(m, d)]) /\ db[LeaveDay(m, d)].user = u
        /\ db[LeaveDay(m, d)].slot \intersect build_slot(days[d]) # {}
    BY <1>8, <2>1 DEF Overlap
  <2>3. has_overlapping_leave(u, d, build_slot(days[d]), log)
    BY <2>2 DEF has_overlapping_leave
  <2> QED
    BY <1>1, <2>1, <2>3 DEF ensure_no_overlap
<1> QED
  BY <1>1, <1>10, <1>11, FreeRead

LEMMA DeleteFree ==
  ASSUME TimeInv, FreeInv, NEW r \in Requests, NEW log \in LeaveLogs, delete_leave_log(r, log)
  PROVE  FreeInv'
<1> DEFINE gone == {log} \union {y \in DaysOf(log) : Present(y)}
           w == [deleted |-> TRUE]
           rows == [x \in gone |-> w]
           read == {log} \union DaysOf(log)
           found == [x \in read |-> db[x]]
<1>1. Read(r, read, rows) /\ gone \subseteq read
  BY DEF delete_leave_log
<1>2. DOMAIN rows = gone /\ \A x \in gone : rows[x] = w
  OBVIOUS
<1>3. "user" \notin DOMAIN w /\ DOMAIN w = {"deleted"} /\ w["deleted"] = TRUE
  OBVIOUS
<1> HIDE DEF gone, w, rows, read
<1>4. \A row : ~Live(w @@ row)
  <2> TAKE row
  <2>1. \A f \in DOMAIN w : (w @@ row)[f] = w[f]
    BY Over
  <2>2. (w @@ row)["deleted"] = TRUE
    BY <1>3, <2>1
  <2> QED
    BY <2>2 DEF Live
<1>5. OwnersOK(rows)
  BY <1>2, <1>3 DEF OwnersOK
<1>6. Free(rows, found)
  BY <1>1, <1>2, <1>4 DEF Free
<1> QED
  BY <1>1, <1>5, <1>6, FreeRead

\* A commit changes the owner of no row.
LEMMA OwnerStays ==
  ASSUME TimeInv, FreeInv, NEW r \in Requests, commit(r), NEW log \in LeaveLogs, db[log].exists
  PROVE  db'[log].exists /\ db'[log].user = db[log].user
<1> DEFINE w == write[r][log]
<1>1. log \in Rows /\ db'[log].exists
  BY Tables, LeaveCommitted
<1>2. CASE log \notin DOMAIN write[r]
  BY <1>1, <1>2, CommittedRow
<1>3. CASE log \in DOMAIN write[r]
  <2>1. ~Insert(w) /\ db'[log] = w @@ db[log]
    BY <1>1, <1>3, CommittedRow, AbsentFields
  <2>2. ColumnsOK(LeaveColumns, w)
    BY <1>3, <2>1 DEF TimeInv, WriteOK, LeaveWriteOK
  <2>3. "user" \notin DOMAIN w
    BY <1>3, <2>1 DEF FreeInv, OwnersOK
  <2>4. RowOK(LeaveColumns, db[log])
    BY AbsentFields, LeaveRecord DEF TimeInv, TypeOK
  <2> HIDE DEF w
  <2>5. "user" \in DOMAIN db[log] \ DOMAIN w
    BY <2>3, <2>4, LeaveFields DEF RowOK
  <2>6. (w @@ db[log])["user"] = db[log]["user"]
    BY <2>2, <2>4, <2>5, UpdatedRow
  <2> QED
    BY <1>1, <2>1, <2>6
<1> QED
  BY <1>2, <1>3

LEMMA DayOwnerCommitted ==
  ASSUME TimeInv, FreeInv, NEW r \in Requests, commit(r), NEW log \in LeaveLogs, NEW d \in Days,
         db'[LeaveDay(log, d)].exists
  PROVE  db'[LeaveDay(log, d)].user = db'[log].user
<1> DEFINE x == LeaveDay(log, d)
           w == write[r][x]
<1>1. x \in Rows /\ log \in Rows
  BY Tables
<1>2. db[x].exists => db[log].exists /\ db[x].user = db[log].user
  BY DEF TimeInv, TypeOK, FreeInv, DaysOwned
<1>3. CASE x \notin DOMAIN write[r]
  <2>1. db'[x] = db[x]
    BY <1>1, <1>3, CommittedRow
  <2> QED
    BY <1>2, <2>1, OwnerStays
<1>4. CASE x \in DOMAIN write[r] /\ Insert(w)
  <2>1. RowOK(DayRowColumns, w)
    BY <1>4 DEF TimeInv, WriteOK, DayWriteOK
  <2>2. /\ "user" \in DOMAIN w
        /\ w = [f \in DOMAIN w |-> w[f]]
    BY <2>1, DayRowFields DEF RowOK
  <2>3. db'[x] = w @@ Absent
    BY <1>1, <1>4, CommittedRow
  <2>4. db'[x] = w
    BY <1>4, <2>2, <2>3, InsertedRow
  <2>5. IF log \in DOMAIN write[r] /\ Insert(write[r][log]) THEN w.user = write[r][log].user
        ELSE db[log].exists /\ w.user = db[log].user
    BY <1>4, <2>2 DEF FreeInv, OwnersOK
  <2>6. CASE log \in DOMAIN write[r] /\ Insert(write[r][log])
    <3>1. RowOK(LeaveColumns, write[r][log])
      BY <2>6 DEF TimeInv, WriteOK, LeaveWriteOK
    <3>2. write[r][log] = [f \in DOMAIN write[r][log] |-> write[r][log][f]]
      BY <3>1 DEF RowOK
    <3>3. db'[log] = write[r][log] @@ Absent
      BY <1>1, <2>6, CommittedRow
    <3>4. db'[log] = write[r][log]
      BY <2>6, <3>2, <3>3, InsertedRow
    <3> QED
      BY <2>4, <2>5, <2>6, <3>4
  <2>7. CASE ~(log \in DOMAIN write[r] /\ Insert(write[r][log]))
    BY <2>4, <2>5, <2>7, OwnerStays
  <2> QED
    BY <2>6, <2>7
<1>5. CASE x \in DOMAIN write[r] /\ ~Insert(w)
  <2>1. db[x].exists /\ ColumnsOK(DayRowColumns, w)
    BY <1>5 DEF TimeInv, WriteOK, DayWriteOK
  <2>2. "user" \notin DOMAIN w
    BY <1>5 DEF FreeInv, OwnersOK
  <2>3. RowOK(DayRowColumns, db[x])
    BY <2>1, AbsentFields, DayRecord DEF TimeInv, TypeOK
  <2>4. db'[x] = w @@ db[x]
    BY <1>1, <1>5, CommittedRow
  <2> HIDE DEF w
  <2>5. "user" \in DOMAIN db[x] \ DOMAIN w
    BY <2>2, <2>3, DayRowFields DEF RowOK
  <2>6. (w @@ db[x])["user"] = db[x]["user"]
    BY <2>1, <2>3, <2>5, UpdatedRow
  <2> QED
    BY <1>2, <2>1, <2>4, <2>6, OwnerStays
<1> QED
  BY <1>3, <1>4, <1>5

LEMMA CommitFree ==
  ASSUME TimeInv, FreeInv, NEW r \in Requests, commit(r)
  PROVE  FreeInv'
<1>1. /\ loaded'[r] = Nothing /\ write'[r] = Nothing
      /\ \A q \in Requests \ {r} : loaded'[q] = loaded[q] /\ write'[q] = write[q]
  BY DoneEffect DEF TimeInv, commit, Finish
<1>2. DaysOwned'
  BY DayOwnerCommitted DEF DaysOwned
<1>3. ASSUME NEW q \in Requests
      PROVE  OwnersOK(write[q])' /\ Free(write'[q], loaded'[q])
  <2>1. CASE q = r
    <3>1. OwnersOK(write[q])'
      BY <1>1, <2>1, NothingIsEmpty DEF OwnersOK
    <3> QED
      BY <1>1, <2>1, <3>1, FreeOfNothing
  <2>2. CASE q # r
    <3>1. OwnersOK(write[q]) /\ Free(write[q], loaded[q])
      BY DEF FreeInv
    <3>2. \A log \in LeaveLogs : db[log].exists => db'[log].exists /\ db'[log].user = db[log].user
      BY OwnerStays
    <3>3. OwnersOK(write[q])'
      BY <1>1, <2>2, <3>1, <3>2 DEF OwnersOK
    <3> QED
      BY <1>1, <2>2, <3>1, <3>3
  <2> QED
    BY <2>1, <2>2
<1> QED
  BY <1>2, <1>3 DEF FreeInv

\* A step that touches neither rows nor days read.
LEMMA FreeUnchanged ==
  ASSUME FreeInv, db' = db,
         \A q \in Requests : \/ loaded'[q] = loaded[q] /\ write'[q] = write[q]
                             \/ write'[q] = Nothing
  PROVE  FreeInv'
<1>1. ASSUME NEW q \in Requests
      PROVE  OwnersOK(write[q])' /\ Free(write'[q], loaded'[q])
  <2>1. OwnersOK(write'[q]) /\ Free(write'[q], loaded'[q])
    BY FreeOfNothing DEF FreeInv
  <2>2. OwnersOK(write[q])'
    BY <2>1 DEF OwnersOK
  <2> QED
    BY <2>1, <2>2
<1> QED
  BY <1>1 DEF FreeInv, DaysOwned

-------------------------------------------------------------------------------
(* The theorems                                                            *)

\* The invariant: rows are well formed, and so is what every request is about to
\* write, which leaves a leave and its days in agreement unless others write to
\* them first.
THEOREM TimesheetInvariant == Spec => []TimeInv
<1>1. ASSUME TimeInv, [Next /\ UNCHANGED scope]_<<vars, timevars>>
      PROVE  TimeInv'
  <2>1. CASE UNCHANGED <<vars, timevars>>
    <3>1. /\ db' = db /\ caller' = caller /\ loaded' = loaded /\ write' = write
          /\ clock' = clock /\ at' = at
      BY <2>1 DEF vars, timevars
    <3>2. TypeOK' /\ DaysFit' /\ CallersOK' /\ OpenSessions'
      BY <1>1, <3>1 DEF TimeInv, TypeOK, DaysFit, CallersOK, OpenSessions
    <3>3. ASSUME NEW r \in Requests
          PROVE  WriteOK(write[r])' /\ BegunOK(r)' /\ PlanOK(r)'
      <4>1. WriteOK(write[r]) /\ BegunOK(r) /\ PlanOK(r)
        BY <1>1 DEF TimeInv
      <4>2. WriteOK(write[r])'
        BY <3>1, <4>1 DEF WriteOK, LeaveWriteOK, DayWriteOK, EventWriteOK
      <4> QED
        BY <3>1, <4>1, <4>2 DEF BegunOK, PlanOK, Inserted, Expected, Seen
    <3> QED
      BY <1>1, <3>1, <3>2, <3>3 DEF TimeInv
  <2>2. CASE Tick
    BY <1>1, <2>2, TickStep
  <2>3. ASSUME NEW r \in Requests, NEW u \in Users, authenticate(r, u)
        PROVE  TimeInv'
    BY <1>1, <2>3, AuthenticateStep
  <2>4. ASSUME NEW r \in Requests, NEW log \in LeaveLogs, NEW days \in Payload,
               create_leave_log(r, log, days) \/ update_leave_log(r, log, days)
        PROVE  TimeInv'
    BY <1>1, <2>4, CreateLeaveStep, UpdateLeaveStep
  <2>5. ASSUME NEW r \in Requests, NEW log \in LeaveLogs, delete_leave_log(r, log)
        PROVE  TimeInv'
    BY <1>1, <2>5, DeleteLeaveStep
  <2>6. ASSUME NEW r \in Requests, NEW ev \in Events, NEW type \in EventType,
               NEW start \in Times, NEW end \in Times,
               create_event(r, ev, type, start, end) \/ update_event(r, ev, type, start, end)
        PROVE  TimeInv'
    BY <1>1, <2>6, CreateEventStep, UpdateEventStep
  <2>7. ASSUME NEW r \in Requests, NEW ev \in Events, delete_event(r, ev)
        PROVE  TimeInv'
    BY <1>1, <2>7, DeleteEventStep
  <2>8. ASSUME NEW r \in Requests, commit(r)
        PROVE  TimeInv'
    BY <1>1, <2>8, CommitStep
  <2>9. ASSUME NEW r \in Requests, rollback(r)
        PROVE  TimeInv'
    <3>1. Finish(r) /\ db' = db
      BY <2>9 DEF rollback
    <3> QED
      BY <1>1, <3>1, RollbackStep
  <2> QED
    BY <1>1, <2>1, <2>2, <2>3, <2>4, <2>5, <2>6, <2>7, <2>8, <2>9 DEF Next, Used
<1> QED
  BY <1>1, TimeInitially, PTL DEF Spec

\* Types; and, however requests interleave, the slot of a day is that of its
\* portion and half, and a leave and an event end no earlier than they start,
\* though each request writes only the columns that it changes.
THEOREM TimesheetTyped == Spec => []TypeOK
<1>1. TimeInv => TypeOK
  BY DEF TimeInv
<1> QED
  BY <1>1, TimesheetInvariant, PTL

\* The rows change only when a request commits.
LEMMA CommitsOnly ==
  ASSUME [Next /\ UNCHANGED scope]_<<vars, timevars>>, db' # db
  PROVE  \E r \in Requests : commit(r)
<1>1. \A r, read, rows : Read(r, read, rows) => db' = db
  BY DEF Read
<1>2. \A r, u : ~authenticate(r, u)
  BY DEF authenticate
<1>3. \A r, log, days : ~create_leave_log(r, log, days) /\ ~update_leave_log(r, log, days)
  BY <1>1 DEF create_leave_log, update_leave_log
<1>4. \A r, log : ~delete_leave_log(r, log)
  BY <1>1 DEF delete_leave_log
<1>5. \A r, ev, type, start, end :
        ~create_event(r, ev, type, start, end) /\ ~update_event(r, ev, type, start, end)
  BY <1>1 DEF create_event, update_event
<1>6. \A r, ev : ~delete_event(r, ev)
  BY <1>1 DEF delete_event
<1>7. ~Tick /\ \A r : ~rollback(r)
  BY DEF Tick, rollback
<1>8. Next
  BY DEF vars
<1> QED
  BY <1>2, <1>3, <1>4, <1>5, <1>6, <1>7, <1>8 DEF Next, Used

LEMMA CommitDone ==
  ASSUME TimeInv, NEW r \in Requests, commit(r), db' # db
  PROVE  Committing(r)
<1>1. caller[r] # None
  BY DEF TimeInv, CallersOK, commit
<1>2. caller'[r] = None
  BY DoneEffect DEF TimeInv, commit, Finish
<1> QED
  BY <1>1, <1>2 DEF Committing

LEMMA AgreesNow ==
  ASSUME NEW log
  PROVE  AgreesWithDays(log) <=> Agrees(db, log)
BY DEF AgreesWithDays, Agrees, list_active_by_leave_log, ActiveDays, Present

\* Rows of a leave that are the same agree alike.
LEMMA SameRowsAgree ==
  ASSUME NEW D, NEW E, NEW log \in LeaveLogs, \A x \in LeaveRows(log) : D[x] = E[x],
         Agrees(D, log)
  PROVE  Agrees(E, log)
<1>1. D[log] = E[log] /\ \A d \in Days : D[LeaveDay(log, d)] = E[LeaveDay(log, d)]
  BY Tables DEF LeaveRows
<1>2. ActiveDays(D, log) = ActiveDays(E, log)
  BY <1>1 DEF ActiveDays
<1> QED
  BY <1>1, <1>2 DEF Agrees

\* A request that commits on what it has read leaves what it expects.
LEMMA FreshCommit ==
  ASSUME TimeInv, NEW r \in Requests, NEW log \in LeaveLogs, commit(r), ~Stale(r, log),
         AgreesWithDays(log)
  PROVE  AgreesWithDays(log)'
<1>1. LeaveRows(log) \subseteq Rows
  BY Tables DEF LeaveRows, DaysOf
<1>2. SUFFICES Agrees(db', log)
  BY DEF AgreesWithDays, Agrees, list_active_by_leave_log, ActiveDays, Present
<1>3. CASE DOMAIN write[r] \intersect LeaveRows(log) = {}
  <2>1. \A x \in LeaveRows(log) : db'[x] = db[x]
    BY <1>1, <1>3, CommittedRow
  <2> QED
    BY <2>1, AgreesNow, SameRowsAgree
<1>4. CASE DOMAIN write[r] \intersect LeaveRows(log) # {}
  <2>1. /\ log \in Inserted(r) \/ LeaveRows(log) \subseteq DOMAIN loaded[r]
        /\ Agrees(Expected(r), log)
    BY <1>4 DEF TimeInv, PlanOK
  <2>2. \A x \in LeaveRows(log) : Seen(r, x) = db[x]
    <3>1. CASE LeaveRows(log) \subseteq DOMAIN loaded[r]
      BY <3>1 DEF Seen, Stale, LeaveRows
    <3>2. CASE log \in Inserted(r)
      <4>1. ~db[log].exists
        BY <3>2 DEF commit, Constraints, UniqueDays
      <4>2. \A d \in Days : ~db[LeaveDay(log, d)].exists
        BY <4>1 DEF TimeInv, TypeOK
      <4>3. \A x \in LeaveRows(log) : ~db[x].exists
        BY <4>1, <4>2 DEF LeaveRows, DaysOf
      <4>4. \A x \in LeaveRows(log) : db[x] = Absent
        BY <1>1, <4>3, RowThere DEF TimeInv
      <4> QED
        BY <4>4 DEF Seen, Stale, LeaveRows
    <3> QED
      BY <2>1, <3>1, <3>2
  <2>3. \A x \in LeaveRows(log) : Expected(r)[x] = db'[x]
    BY <1>1, <2>2, CommittedRow DEF Expected
  <2> QED
    BY <2>1, <2>3, SameRowsAgree
<1> QED
  BY <1>3, <1>4

\* A leave disagrees with its days only by a race: a request that commits on what
\* it has read, unchanged, keeps the dates, the total and the deletion of a leave
\* those of its days.
THEOREM LeaveAgreesWithDays == Spec => LeaveDisagreesOnlyByRace
<1>1. ASSUME TimeInv, [Next /\ UNCHANGED scope]_<<vars, timevars>>, NEW log \in LeaveLogs,
             AgreesWithDays(log), ~AgreesWithDays(log)'
      PROVE  \E r \in Requests : Committing(r) /\ Stale(r, log)
  <2>1. db' # db
    BY <1>1 DEF AgreesWithDays, list_active_by_leave_log, Present
  <2>2. PICK r \in Requests : commit(r)
    BY <1>1, <2>1, CommitsOnly
  <2>3. Stale(r, log)
    BY <1>1, <2>2, FreshCommit
  <2> QED
    BY <1>1, <2>1, <2>2, <2>3, CommitDone
<1>2. TimeInv /\ [Next /\ UNCHANGED scope]_<<vars, timevars>>
        => [\A log \in LeaveLogs : AgreesWithDays(log) /\ ~AgreesWithDays(log)'
              => \E r \in Requests : Committing(r) /\ Stale(r, log)]_vars
  BY <1>1
<1> QED
  BY <1>2, TimesheetInvariant, PTL DEF Spec, LeaveDisagreesOnlyByRace

\* A day of leave that has begun when its owner's request looks at the clock is
\* not changed by that request, unless others change the leave under it.
THEOREM BegunLeaveStays == Spec => PastLeaveStays
<1> DEFINE Allowed(x, log, d) ==
             \E r \in Requests : /\ Committing(r) /\ x \in DOMAIN write[r]
                                 /\ \/ Scheduler(caller[r])
                                    \/ get_period_start(d, db[x]) > at[r]
                                    \/ Stale(r, log)
<1>1. ASSUME TimeInv, [Next /\ UNCHANGED scope]_<<vars, timevars>>, NEW log \in LeaveLogs,
             NEW d \in Days, Present(LeaveDay(log, d)), db'[LeaveDay(log, d)] # db[LeaveDay(log, d)]
      PROVE  Allowed(LeaveDay(log, d), log, d)
  <2> DEFINE x == LeaveDay(log, d)
  <2>1. db' # db
    BY <1>1
  <2>2. PICK r \in Requests : commit(r)
    BY <1>1, <2>1, CommitsOnly
  <2>3. x \in DOMAIN write[r] /\ ~Insert(write[r][x])
    BY <1>1, <2>2, Tables, CommittedRow, AbsentFields DEF Present, Live
  <2>4. /\ x \in DOMAIN loaded[r]
        /\ Live(loaded[r][x]) => \/ Scheduler(caller[r])
                                 \/ get_period_start(d, loaded[r][x]) > at[r]
    BY <1>1, <2>3 DEF TimeInv, BegunOK
  <2>5. Stale(r, log) \/ loaded[r][x] = db[x]
    BY <2>4, Tables DEF Stale
  <2>6. Committing(r)
    BY <1>1, <2>1, <2>2, CommitDone
  <2> QED
    BY <1>1, <2>3, <2>4, <2>5, <2>6 DEF Present
<1>2. TimeInv /\ [Next /\ UNCHANGED scope]_<<vars, timevars>>
        => [\A log \in LeaveLogs, d \in Days :
              LET x == LeaveDay(log, d)
              IN  Present(x) /\ db'[x] # db[x]
                    => \E r \in Requests : /\ Committing(r) /\ x \in DOMAIN write[r]
                                          /\ \/ Scheduler(caller[r])
                                             \/ get_period_start(d, db[x]) > at[r]
                                             \/ Stale(r, log)]_vars
  BY <1>1
<1> QED
  BY <1>2, TimesheetInvariant, PTL DEF Spec, PastLeaveStays

\* What a request writes overlaps none of the days that it found when it checked.
THEOREM WritesAreFree == Spec => []FreeInv
<1>1. Init => FreeInv
  <2> SUFFICES ASSUME Init
               PROVE  FreeInv
    OBVIOUS
  <2>1. \A r \in Requests : write[r] = Nothing
    BY DEF Init, Idle
  <2>2. \A log \in LeaveLogs, d \in Days : ~db[LeaveDay(log, d)].exists
    BY Tables, AbsentFields DEF Init
  <2> QED
    BY <2>1, <2>2, FreeOfNothing DEF FreeInv, DaysOwned
<1>2. ASSUME TimeInv, FreeInv, [Next /\ UNCHANGED scope]_<<vars, timevars>>
      PROVE  FreeInv'
  <2>1. CASE UNCHANGED <<vars, timevars>> \/ Tick
    <3>1. db' = db /\ loaded' = loaded /\ write' = write
      BY <2>1 DEF vars, Tick
    <3> QED
      BY <1>2, <3>1, FreeUnchanged
  <2>2. ASSUME NEW r \in Requests, NEW u \in Users, authenticate(r, u)
        PROVE  FreeInv'
    <3>1. db' = db /\ loaded' = loaded /\ write' = write
      BY <2>2 DEF authenticate
    <3> QED
      BY <1>2, <3>1, FreeUnchanged
  <2>3. ASSUME NEW r \in Requests, NEW log \in LeaveLogs, NEW days \in Payload,
               create_leave_log(r, log, days) \/ update_leave_log(r, log, days)
        PROVE  FreeInv'
    BY <1>2, <2>3, CreateFree, UpdateFree
  <2>4. ASSUME NEW r \in Requests, NEW log \in LeaveLogs, delete_leave_log(r, log)
        PROVE  FreeInv'
    BY <1>2, <2>4, DeleteFree
  <2>5. ASSUME NEW r \in Requests, NEW ev \in Events, NEW type \in EventType,
               NEW start \in Times, NEW end \in Times, create_event(r, ev, type, start, end)
        PROVE  FreeInv'
    BY <1>2, <2>5, FreeElsewhere DEF create_event
  <2>6. ASSUME NEW r \in Requests, NEW ev \in Events, NEW type \in EventType,
               NEW start \in Times, NEW end \in Times, update_event(r, ev, type, start, end)
        PROVE  FreeInv'
    BY <1>2, <2>6, FreeElsewhere DEF update_event
  <2>7. ASSUME NEW r \in Requests, NEW ev \in Events, delete_event(r, ev)
        PROVE  FreeInv'
    BY <1>2, <2>7, FreeElsewhere DEF delete_event
  <2>8. ASSUME NEW r \in Requests, commit(r)
        PROVE  FreeInv'
    BY <1>2, <2>8, CommitFree
  <2>9. ASSUME NEW r \in Requests, rollback(r)
        PROVE  FreeInv'
    <3>1. db' = db /\ Done(r)
      BY <2>9 DEF rollback, Finish
    <3>2. /\ write'[r] = Nothing
          /\ \A q \in Requests \ {r} : loaded'[q] = loaded[q] /\ write'[q] = write[q]
      BY <1>2, <3>1, DoneEffect DEF TimeInv
    <3> QED
      BY <1>2, <3>1, <3>2, FreeUnchanged
  <2> QED
    BY <1>2, <2>1, <2>2, <2>3, <2>4, <2>5, <2>6, <2>7, <2>8, <2>9 DEF Next, Used
<1> QED
  BY <1>1, <1>2, TimesheetInvariant, PTL DEF Spec

\* Somebody is put on leave twice in the same half of a day only by a race: a
\* request that is about to do so looked at the days of both leaves, found them
\* apart, and one of them has changed since (_ensure_no_overlap).
THEOREM DoubleLeaveByRace == Spec => []DoubleLeaveOnlyByRace
<1>1. ASSUME TimeInv, FreeInv
      PROVE  DoubleLeaveOnlyByRace
  <2> SUFFICES ASSUME NEW r \in Requests, NEW log \in LeaveLogs, NEW m \in LeaveLogs, log # m,
                      NEW d \in Days, LeaveDay(log, d) \in DOMAIN write[r],
                      Live(Written(r)[LeaveDay(log, d)]),
                      Overlap(Written(r)[LeaveDay(log, d)], db[LeaveDay(m, d)])
               PROVE  \E z \in {LeaveDay(log, d), LeaveDay(m, d)} :
                        z \in DOMAIN loaded[r] /\ loaded[r][z] # db[z]
    BY DEF DoubleLeaveOnlyByRace, Overlap, Present
  <2> DEFINE x == LeaveDay(log, d)
             y == LeaveDay(m, d)
  <2>1. x \in DOMAIN db /\ y \in DOMAIN db
    BY <1>1, Tables DEF TimeInv
  <2>2. Written(r)[x] = write[r][x] @@ db[x]
    BY <2>1, WrittenRows
  <2>3. Free(write[r], loaded[r])
    BY <1>1 DEF FreeInv
  <2>4. x \in DOMAIN loaded[r]
    BY <2>3 DEF Free
  <2>5. CASE loaded[r][x] # db[x]
    BY <2>4, <2>5
  <2>6. CASE loaded[r][x] = db[x]
    <3>1. /\ y \in DOMAIN loaded[r]
          /\ ~Overlap(Written(r)[x], loaded[r][y])
      BY <2>2, <2>3, <2>6 DEF Free
    <3> QED
      BY <3>1
  <2> QED
    BY <2>5, <2>6
<1> QED
  BY <1>1, TimesheetInvariant, WritesAreFree, PTL
===============================================================================

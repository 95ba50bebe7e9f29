------------------------------- MODULE Timesheet -------------------------------
(***************************************************************************)
(* Leave and the calendar of one organization: leave_log_service.py and    *)
(* calendar_event_service.py, as transactions of Orm.                      *)
(*                                                                         *)
(* Leave is modelled at the service.  The schemas of its routes do not fit *)
(* it at this commit: LeaveLogCreate reads a start_date it does not have,  *)
(* LeaveLogUpdate has no days, so of the routes only DELETE and GET reach  *)
(* their end.                                                              *)
(*                                                                         *)
(* The clock counts half days: day d begins at 2 * d, its second half at   *)
(* 2 * d + 1.                                                              *)
(***************************************************************************)
EXTENDS Orm, FiniteSetsExt

CONSTANTS Supers, Admins, Managers, Employees,   \* the users, by role
          LeaveLogs, Events,                     \* rows
          first, second,                         \* the halves of a day
          Days,                                  \* dates of leave
          Times,                                 \* times of events
          FirstMoment, MaxMoment                 \* bounds of the clock

VARIABLES clock,    \* in half days
          at        \* the moment at which a request looked at the clock

timevars == <<clock, at>>

Users == UNION {Supers, Admins, Managers, Employees}

ASSUME TimesheetAssumption ==
  /\ Days \subseteq Nat /\ IsFiniteSet(Days) /\ Times \subseteq Nat
  /\ FirstMoment \in Nat /\ MaxMoment \in Nat
  /\ None \notin Users \union LeaveLogs \union {first, second}
  /\ first # second
  /\ LeaveLogs \intersect Events = {}
  /\ (LeaveLogs \union Events) \intersect (LeaveLogs \X Days) = {}

HalfSlot == {first, second}

EventType == {"holiday", "milestone", "leave", "release", "team_event"}

\* The row of a day of a leave: leave_log_id and leave_date are unique together.
LeaveDay(log, d) == <<log, d>>

DaysOf(log) == {LeaveDay(log, d) : d \in Days}

LeaveDays == UNION {DaysOf(log) : log \in LeaveLogs}

Rows == UNION {LeaveLogs, Events, LeaveDays}

NewLeaveLog(u, start, end, total) ==
  [exists |-> TRUE, deleted |-> FALSE, user |-> u, start_date |-> start, end_date |-> end,
   total_days |-> total]
NewEvent(u, type, start, end) ==
  [exists |-> TRUE, deleted |-> FALSE, organization |-> u \notin Supers, event_type |-> type,
   start_time |-> start, end_time |-> end, created_by |-> u]

Init == /\ db = [x \in Rows |-> Absent]
        /\ Idle
        /\ clock = FirstMoment
        /\ at = [r \in Requests |-> FirstMoment]

-------------------------------------------------------------------------------
(* Portions of days                                                        *)

\* What LeaveLogDayCreate lets a payload say of a day.
Portion == {[portion |-> "full", half_slot |-> None]}
             \union [portion : {"half"}, half_slot : Used(HalfSlot)]

\* The days of a payload, each with its portion.
Payload == UNION {[D -> Portion] : D \in (SUBSET Used(Days)) \ {{}}}

build_slot(day) ==
  CASE day.portion = "full" -> {0, 1}
    [] day.portion # "full" /\ day.half_slot = first -> {0}
    [] OTHER -> {1}

get_period_start(d, day) ==
  2 * d + IF day.portion = "full" \/ day.half_slot = first THEN 0 ELSE 1

\* Of the last day.
get_first_period_start_last(days) ==
  LET d == Max(DOMAIN days) IN get_period_start(d, days[d])

\* _get_first_period_start_from_payload and _from_rows
get_first_period_start(days) ==
  LET d == Min(DOMAIN days) IN get_period_start(d, days[d])

\* In half days.
calculate_total_days(days) ==
  LET full == {d \in DOMAIN days : days[d].portion = "full"}
  IN  2 * Cardinality(full) + Cardinality(DOMAIN days \ full)

-------------------------------------------------------------------------------
(* Reads and checks                                                        *)

Serving(r) == caller[r] # None /\ write[r] = Nothing

\* The rows that a request has read, and those that it will write.
Read(r, read, rows) == /\ loaded' = [loaded EXCEPT ![r] = [x \in read |-> db[x]]]
                       /\ write' = [write EXCEPT ![r] = rows]
                       /\ at' = [at EXCEPT ![r] = clock]
                       /\ UNCHANGED <<db, caller, clock>>

list_active_by_leave_log(log) ==
  [d \in {e \in Days : Present(LeaveDay(log, e))} |-> db[LeaveDay(log, d)]]

\* Whether the same part of the day is taken.
has_overlapping_leave_same(u, d, slot, but) ==
  \E log \in LeaveLogs \ {but} :
    LET day == db[LeaveDay(log, d)]
    IN  Live(day) /\ day.user = u /\ day.slot = slot

has_overlapping_leave(u, d, slot, but) ==
  \E log \in LeaveLogs \ {but} :
    LET day == db[LeaveDay(log, d)]
    IN  Live(day) /\ day.user = u /\ day.slot \intersect slot # {}

ensure_no_overlap(u, days, but) ==
  \A d \in DOMAIN days : ~has_overlapping_leave(u, d, build_slot(days[d]), but)

ensure_leave_has_not_started(days) == get_first_period_start(days) > clock

Scheduler(u) == u \in Admins \union Managers

Owns(r, log) == /\ caller[r] = db[log].user
                /\ get_first_period_start(list_active_by_leave_log(log)) > clock

\* A leave that is there, with days.
get_leave_log(log) == Present(log) /\ list_active_by_leave_log(log) # Nothing

authenticate(r, u) == /\ caller[r] = None
                      /\ caller' = [caller EXCEPT ![r] = u]
                      /\ UNCHANGED <<db, loaded, write, timevars>>

-------------------------------------------------------------------------------
(* leave_log_service.py                                                    *)

\* The columns of a day that a payload sets.
DayColumns(day) == [portion |-> day.portion, half_slot |-> day.half_slot,
                    slot |-> build_slot(day), deleted |-> FALSE]

\* What is written to the row of a requested day: a row that exists, removed or
\* not, is changed.
PutDay(log, u, d, day) ==
  IF db[LeaveDay(log, d)].exists THEN Changes(db[LeaveDay(log, d)], DayColumns(day))
  ELSE DayColumns(day) @@ [exists |-> TRUE, user |-> u]

create_leave_log(r, log, days) ==
  /\ Serving(r)
  /\ caller[r] \notin Supers
  /\ ensure_leave_has_not_started(days)
  /\ ensure_no_overlap(caller[r], days, None)
  /\ NewId(log)
  /\ LET u == caller[r]
         put == [x \in {LeaveDay(log, d) : d \in DOMAIN days} |-> PutDay(log, u, x[2], days[x[2]])]
     IN  Read(r, LeaveDays, log :> NewLeaveLog(u, Min(DOMAIN days), Max(DOMAIN days),
                                               calculate_total_days(days)) @@ put)

\* The days that are no longer requested stay.
ScheduleChanges_keep(log, days) ==
  [x \in {LeaveDay(log, d) : d \in DOMAIN days} |-> PutDay(log, db[log].user, x[2], days[x[2]])]

\* The rows of days that an update of the schedule writes.
ScheduleChanges(log, days) ==
  LET dropped == DOMAIN list_active_by_leave_log(log) \ DOMAIN days
  IN  [x \in {LeaveDay(log, d) : d \in DOMAIN days \union dropped} |->
         IF x[2] \in dropped THEN [deleted |-> TRUE]
         ELSE PutDay(log, db[log].user, x[2], days[x[2]])]

update_leave_log(r, log, days) ==
  /\ Serving(r)
  /\ get_leave_log(log)
  /\ Scheduler(caller[r]) \/ (Owns(r, log) /\ ensure_leave_has_not_started(days))
  /\ ensure_no_overlap(db[log].user, days, log)
  /\ Read(r, {log} \union LeaveDays,
          log :> Changes(db[log], [start_date |-> Min(DOMAIN days), end_date |-> Max(DOMAIN days),
                                   total_days |-> calculate_total_days(days)])
            @@ ScheduleChanges(log, days))

delete_leave_log(r, log) ==
  /\ Serving(r)
  /\ get_leave_log(log)
  /\ Owns(r, log)
  /\ Read(r, {log} \union DaysOf(log),
          [x \in {log} \union {y \in DaysOf(log) : Present(y)} |-> [deleted |-> TRUE]])

-------------------------------------------------------------------------------
(* calendar_event_service.py                                               *)

\* Events of type leave are for the system to make, which at this commit it
\* does not.
require_type_permission(r, type) ==
  \/ type = "holiday" /\ caller[r] \in Supers \union Admins
  \/ type \in {"milestone", "release"} /\ caller[r] \in Supers \union Admins \union Managers
  \/ type = "team_event"

get_modifiable(r, ev) ==
  /\ Present(ev)
  /\ db[ev].event_type # "leave"
  /\ caller[r] \in Supers \union Admins \/ db[ev].created_by = caller[r]

create_event(r, ev, type, start, end) ==
  /\ Serving(r)
  /\ start <= end
  /\ require_type_permission(r, type)
  /\ NewId(ev)
  /\ Read(r, {}, ev :> NewEvent(caller[r], type, start, end))

\* A field that the payload leaves out keeps the value that was loaded.
update_event(r, ev, type, start, end) ==
  /\ Serving(r)
  /\ get_modifiable(r, ev)
  /\ type # db[ev].event_type => require_type_permission(r, type)
  /\ start <= end
  /\ LET changes == Changes(db[ev], [event_type |-> type, start_time |-> start, end_time |-> end])
     IN  changes # Nothing /\ Read(r, {ev}, ev :> changes)

delete_event(r, ev) ==
  /\ Serving(r)
  /\ get_modifiable(r, ev)
  /\ Read(r, {ev}, ev :> [deleted |-> TRUE])

-------------------------------------------------------------------------------
(* The database                                                            *)

\* uq_leave_log_days_leave_log_date
UniqueDays(r) == \A x \in Inserted(r) : ~db[x].exists

\* excl_leave_log_days_active_overlap
DaysExclude(new) ==
  \A log, m \in LeaveLogs, d \in Days :
    LET x == new[LeaveDay(log, d)]
        y == new[LeaveDay(m, d)]
    IN  log # m /\ Live(x) /\ Live(y) /\ x.user = y.user => x.slot \intersect y.slot = {}

\* excl_leave_logs_no_overlap of the first revision, which no later one drops.
LogsExclude(new) ==
  \A log, m \in LeaveLogs :
    log # m /\ Live(new[log]) /\ Live(new[m]) /\ new[log].user = new[m].user
      => new[log].end_date < new[m].start_date \/ new[m].end_date < new[log].start_date

\* chk_leave_logs_valid_date_range, chk_leave_log_days_portion_half_slot,
\* chk_calendar_event_timeline, and an event has an organization.
Checks(new) ==
  /\ \A log \in LeaveLogs : new[log].exists => new[log].start_date <= new[log].end_date
  /\ \A log \in LeaveLogs, d \in Days :
       LET day == new[LeaveDay(log, d)]
       IN  day.exists => (day.portion = "full" <=> day.half_slot = None)
  /\ \A ev \in Events : new[ev].exists => /\ new[ev].organization
                                          /\ new[ev].start_time <= new[ev].end_time

\* The database without the checks.
Constraints_no_check(r, new) == UniqueDays(r) /\ DaysExclude(new) /\ LogsExclude(new)

Constraints(r, new) ==
  UniqueDays(r) /\ DaysExclude(new) /\ LogsExclude(new) /\ Checks(new)

Finish(r) == /\ Done(r)
             /\ at' = [at EXCEPT ![r] = FirstMoment]
             /\ UNCHANGED clock

commit(r) == /\ write[r] # Nothing
             /\ Constraints(r, Written(r))
             /\ db' = Written(r)
             /\ Finish(r)

\* An AppException, or an IntegrityError turned into 409.
rollback(r) == /\ caller[r] # None
               /\ write[r] = Nothing \/ ~Constraints(r, Written(r))
               /\ Finish(r)
               /\ UNCHANGED db

Tick == /\ clock < MaxMoment
        /\ clock' = clock + 1
        /\ UNCHANGED <<db, caller, loaded, write, at>>

Next ==
  \/ \E r \in Used(Requests) :
       \/ \E u \in Used(Users) : authenticate(r, u)
       \/ \E log \in Used(LeaveLogs) :
            \/ \E days \in Payload : create_leave_log(r, log, days) \/ update_leave_log(r, log, days)
            \/ delete_leave_log(r, log)
       \/ \E ev \in Used(Events) :
            \/ \E type \in EventType, start, end \in Used(Times) :
                 create_event(r, ev, type, start, end) \/ update_event(r, ev, type, start, end)
            \/ delete_event(r, ev)
       \/ commit(r)
       \/ rollback(r)
  \/ Tick

Spec == Init /\ [][Next /\ UNCHANGED scope]_<<vars, timevars>>

-------------------------------------------------------------------------------
(* Properties                                                              *)

LeaveLog == [exists : {TRUE}, deleted : BOOLEAN, user : Users, start_date : Days,
             end_date : Days, total_days : Nat]
Day == [exists : {TRUE}, deleted : BOOLEAN, user : Users, portion : {"full", "half"},
        half_slot : HalfSlot \union {None}, slot : SUBSET {0, 1}]
Event == [exists : {TRUE}, deleted : BOOLEAN, organization : {TRUE}, event_type : EventType,
          start_time : Times, end_time : Times, created_by : Users]

\* Types; and, however requests interleave, what a row says fits together, though
\* requests that loaded the same row each write only the columns they change: the
\* slot of a day is that of its portion and half, a leave and an event end no
\* earlier than they start (update_leave_log, update_event).
TypeOK ==
  /\ \A log \in LeaveLogs : db[log] \in LeaveLog \union {Absent}
  /\ \A log \in LeaveLogs : db[log].exists => db[log].start_date <= db[log].end_date
  /\ \A log \in LeaveLogs, d \in Days :
       LET day == db[LeaveDay(log, d)]
       IN  /\ day \in Day \union {Absent}
           /\ day.exists => db[log].exists /\ day.slot = build_slot(day)
  /\ \A ev \in Events : db[ev] \in Event \union {Absent}
  /\ \A ev \in Events : db[ev].exists => db[ev].start_time <= db[ev].end_time

\* Somebody is put on leave twice in the same half of a day only by a race: a
\* request that is about to do so (and that the exclusion constraints will refuse)
\* looked at the days of both leaves, and one of them has changed since
\* (_ensure_no_overlap).
DoubleLeaveOnlyByRace ==
  \A r \in Requests, log, m \in LeaveLogs, d \in Days :
    LET x == LeaveDay(log, d)
        y == LeaveDay(m, d)
        new == Written(r)[x]
    IN  /\ log # m /\ x \in DOMAIN write[r]
        /\ Live(new) /\ Present(y) /\ new.user = db[y].user /\ new.slot \intersect db[y].slot # {}
        => \E z \in {x, y} : z \in DOMAIN loaded[r] /\ loaded[r][z] # db[z]

\* The dates and the total of a leave are those of its days, and a deleted leave
\* has none.
AgreesWithDays(log) ==
  LET days == list_active_by_leave_log(log)
  IN  db[log].exists =>
        IF db[log].deleted THEN days = Nothing
        ELSE /\ days # Nothing
             /\ db[log].start_date = Min(DOMAIN days) /\ db[log].end_date = Max(DOMAIN days)
             /\ db[log].total_days = calculate_total_days(days)

Committing(r) == caller[r] # None /\ caller'[r] = None /\ db' # db

\* What a request has read of a leave and its days is no longer so.
Stale(r, log) ==
  \E x \in ({log} \union DaysOf(log)) \intersect DOMAIN loaded[r] : loaded[r][x] # db[x]

\* A leave disagrees with its days only by a race: a request that commits on
\* what it has read, unchanged, keeps them together (update_leave_log,
\* delete_leave_log).  Overlapping updates may leave a total of other days, and a
\* deletion that overlaps an update days of a deleted leave.
LeaveDisagreesOnlyByRace ==
  [][\A log \in LeaveLogs : AgreesWithDays(log) /\ ~AgreesWithDays(log)'
       => \E r \in Requests : Committing(r) /\ Stale(r, log)]_vars

\* "An employee cannot move an already-started leave": a day of leave that has
\* begun when its owner's request looks at the clock is not changed or taken
\* back by it, unless others change the leave under the request (_can_update,
\* _can_delete).
PastLeaveStays ==
  [][\A log \in LeaveLogs, d \in Days :
       LET x == LeaveDay(log, d)
       IN  Present(x) /\ db'[x] # db[x]
             => \E r \in Requests : /\ Committing(r) /\ x \in DOMAIN write[r]
                                   /\ \/ Scheduler(caller[r])
                                      \/ get_period_start(d, db[x]) > at[r]
                                      \/ Stale(r, log)]_vars
===============================================================================

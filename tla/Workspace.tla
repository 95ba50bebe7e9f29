------------------------------- MODULE Workspace -------------------------------
(***************************************************************************)
(* Projects, features, tasks and activities of one organization, their     *)
(* members and assignees, and the time logged on them: project_service.py, *)
(* project_member_service.py, feature_service.py,                          *)
(* feature_member_service.py, task_service.py, task_assignee.py,           *)
(* activity.py, activity_assignee.py and time_log.py, as transactions of   *)
(* Orm.  The accounts do not change here (see Accounts): everyone is       *)
(* active and keeps one role.  Columns that decide nothing about structure *)
(* or access (names, status, labels) are left out, and with them           *)
(* update_feature, which writes no other.                                  *)
(***************************************************************************)
EXTENDS Orm

CONSTANTS Admins, Managers, Employees,   \* the users, by role
          Projects, Features, Tasks, Activities, TimeLogs,   \* rows
          Links,     \* project_members, feature_members, task_assignees, activity_assignees
          Minutes,   \* durations that can be logged
          Dates      \* dates of a project

Users == Admins \union Managers \union Employees

\* The email_outbox row that tells a user of a membership.
Email(l) == <<"email", l>>
Emails == {Email(l) : l \in Links}

ASSUME WorkspaceAssumption ==
  /\ Admins \intersect Managers = {} /\ (Admins \union Managers) \intersect Employees = {}
  /\ None \notin Users \union Projects \union Features
  /\ IsFiniteSet(Tasks)
  /\ Minutes \subseteq 1 .. 1440
  /\ Dates \subseteq Nat
  /\ Projects \intersect UNION {Features, Tasks, Activities, TimeLogs, Links, Emails} = {}
  /\ Features \intersect UNION {Tasks, Activities, TimeLogs, Links, Emails} = {}
  /\ Tasks \intersect UNION {Activities, TimeLogs, Links, Emails} = {}
  /\ Activities \intersect UNION {TimeLogs, Links, Emails} = {}
  /\ TimeLogs \intersect UNION {Links, Emails} = {}
  /\ Links \intersect Emails = {}

Rows == UNION {Projects, Features, Tasks, Activities, TimeLogs, Links, Emails}

NewProject(s, e) == [exists |-> TRUE, deleted |-> FALSE, start_date |-> s, end_date |-> e]
NewFeature(p) == [exists |-> TRUE, deleted |-> FALSE, project |-> p]
NewTask(f, p, u) ==
  [exists |-> TRUE, deleted |-> FALSE, feature |-> f, project |-> p, created_by |-> u]

NewActivity(p, u) == [exists |-> TRUE, deleted |-> FALSE, project |-> p, created_by |-> u,
                      updated_by |-> None]
NewTimeLog(x, u, n) == [exists |-> TRUE, deleted |-> FALSE, of |-> x, user |-> u, minutes |-> n]

\* A member of a project or feature, or an assignee of a task or activity;
\* removed_at is its "deleted" column.
NewLink(x, u) == [exists |-> TRUE, deleted |-> FALSE, of |-> x, user |-> u]
NewEmail(u) == [exists |-> TRUE, deleted |-> FALSE, to |-> u]

Init == /\ db = [x \in Rows |-> Absent]
        /\ Idle

-------------------------------------------------------------------------------
(* Reads and checks                                                        *)

Linked(x, u) == \E l \in Links : Present(l) /\ db[l].of = x /\ db[l].user = u

is_member(p, u) == Linked(p, u)

is_active_assignee(t, u) == Linked(t, u)

\* A route without get_current_user.
Serving_anonymous(r) == write[r] = Nothing

\* A request of an authenticated caller that has decided nothing yet.
Serving(r) == caller[r] # None /\ write[r] = Nothing

\* An admin, or a member of project p.
AdminOrMember(r, p) == caller[r] \in Admins \/ is_member(p, caller[r])

\* _authorize_mutation, _authorize_feature_management, _authorize_member_management
authorize_mutation(r, p) ==
  \/ caller[r] \in Admins
  \/ caller[r] \in Managers /\ is_member(p, caller[r])

\* _ensure_can_add_member and _ensure_can_remove_member
ensure_can_change_member(r, p, u) ==
  \/ caller[r] \in Admins /\ u \in Managers \union Employees
  \/ caller[r] \in Managers /\ u \in Employees /\ is_member(p, caller[r])

TasksOf(f) == {t \in Tasks : Present(t) /\ db[t].feature = f}

list_active_by_project(p) == {f \in Features : Present(f) /\ db[f].project = p}

\* ProjectRepository.count_active_tasks joins tasks to features.
count_active_tasks(p) == Cardinality(UNION {TasksOf(f) : f \in list_active_by_project(p)})

get_usable_feature(f) == Present(f) /\ Present(db[f].project)

can_manage(r, t) ==
  \/ caller[r] \in Admins
  \/ /\ caller[r] \in Managers
     /\ IF db[t].feature = None THEN db[t].created_by = caller[r]
        ELSE is_member(db[db[t].feature].project, caller[r])

can_write(r, t, for_delete) ==
  \/ can_manage(r, t)
  \/ /\ caller[r] \in Employees
     /\ \/ is_active_assignee(t, caller[r])
        \/ for_delete /\ db[t].created_by = caller[r]

\* Only a change of project is checked, not who asks.
authorize_move_any_role(r, f) == f # None => get_usable_feature(f)

authorize_move(r, f) ==
  /\ caller[r] \in Admins \union Managers
  /\ f # None => get_usable_feature(f) /\ AdminOrMember(r, db[f].project)

-------------------------------------------------------------------------------
(* Handlers up to their commit                                             *)

\* Of a request that adds a member or an assignee, the links as it found them.
FlushLink(r, rows) == /\ loaded' = [loaded EXCEPT ![r] = [l \in Links |-> db[l]]]
                      /\ write' = [write EXCEPT ![r] = rows]
                      /\ UNCHANGED <<db, caller>>

authenticate(r, u) == /\ caller[r] = None
                      /\ caller' = [caller EXCEPT ![r] = u]
                      /\ UNCHANGED <<db, loaded, write>>

\* ProjectCreate and ProjectUpdate refuse dates in the wrong order.
check_dates(s, e) == s # None /\ e # None => s <= e

\* The creator becomes a member.
create_project(r, p, s, e, l) ==
  /\ Serving(r)
  /\ caller[r] \in Admins
  /\ check_dates(s, e)
  /\ NewId(p) /\ NewId(l)
  /\ Flush(r, p :> NewProject(s, e) @@ l :> NewLink(p, caller[r]))

\* A date that the payload leaves out is not looked at.
update_project_payload_only(r, p, s, e) ==
  /\ Serving(r)
  /\ Present(p)
  /\ authorize_mutation(r, p)
  /\ LET changes == Changes(db[p], [start_date |-> s, end_date |-> e])
     IN  /\ changes # Nothing
         /\ DOMAIN changes = {"start_date", "end_date"} => check_dates(s, e)
         /\ Flush(r, p :> changes)

\* A date that the payload leaves out keeps the value that was loaded.
update_project(r, p, s, e) ==
  /\ Serving(r)
  /\ Present(p)
  /\ authorize_mutation(r, p)
  /\ check_dates(s, e)
  /\ LET changes == Changes(db[p], [start_date |-> s, end_date |-> e])
     IN  changes # Nothing /\ Flush(r, p :> changes)

\* The project's features stay when it is deleted.
delete_project_only(r, p) ==
  /\ Serving(r)
  /\ Present(p)
  /\ authorize_mutation(r, p)
  /\ count_active_tasks(p) = 0
  /\ Flush(r, p :> [deleted |-> TRUE])

delete_project(r, p) ==
  /\ Serving(r)
  /\ Present(p)
  /\ authorize_mutation(r, p)
  /\ count_active_tasks(p) = 0
  /\ Flush(r, [x \in {p} \union list_active_by_project(p) |-> [deleted |-> TRUE]])

\* The user is given by id, or by the email of an account that exists: for an
\* unknown email the handler inserts an employee without designation, which
\* the database refuses.
create_project_member(r, p, u, l) ==
  /\ Serving(r)
  /\ Present(p)
  /\ ensure_can_change_member(r, p, u)
  /\ ~Linked(p, u)
  /\ NewId(l)
  /\ FlushLink(r, l :> NewLink(p, u) @@ Email(l) :> NewEmail(u))

delete_project_member(r, l) ==
  /\ Serving(r)
  /\ Present(l) /\ db[l].of \in Projects
  /\ ensure_can_change_member(r, db[l].of, db[l].user)
  /\ Flush(r, l :> [deleted |-> TRUE])

create_feature(r, f, p) ==
  /\ Serving(r)
  /\ Present(p)
  /\ authorize_mutation(r, p)
  /\ NewId(f)
  /\ Flush(r, f :> NewFeature(p))

delete_feature(r, f) ==
  /\ Serving(r)
  /\ Present(f)
  /\ authorize_mutation(r, db[f].project)
  /\ TasksOf(f) = {}
  /\ Flush(r, f :> [deleted |-> TRUE])

create_feature_member(r, f, u, l) ==
  /\ Serving(r)
  /\ get_usable_feature(f)
  /\ authorize_mutation(r, db[f].project)
  /\ is_member(db[f].project, u)
  /\ ~Linked(f, u)
  /\ NewId(l)
  /\ FlushLink(r, l :> NewLink(f, u))

delete_feature_member(r, l) ==
  /\ Serving(r)
  /\ Present(l) /\ db[l].of \in Features
  /\ get_usable_feature(db[l].of)
  /\ authorize_mutation(r, db[db[l].of].project)
  /\ Flush(r, l :> [deleted |-> TRUE])

\* A task of feature f and its project, of project p alone, or of neither.
create_task(r, t, f, p) ==
  /\ Serving(r)
  /\ NewId(t)
  /\ f # None => /\ get_usable_feature(f)
                 /\ p = db[f].project
  /\ p # None => Present(p) /\ AdminOrMember(r, p)
  /\ Flush(r, t :> NewTask(f, p, caller[r]))

\* project_id is written as it comes; the foreign key wants a row.
update_task(r, t, f, p) ==
  /\ Serving(r)
  /\ Present(t)
  /\ can_write(r, t, FALSE)
  /\ f # db[t].feature => authorize_move(r, f)
  /\ p # None => db[p].exists
  /\ LET changes == Changes(db[t], [feature |-> f, project |-> p])
     IN  changes # Nothing /\ Flush(r, t :> changes)

delete_task(r, t) ==
  /\ Serving(r)
  /\ Present(t)
  /\ can_write(r, t, TRUE)
  /\ Flush(r, t :> [deleted |-> TRUE])

\* Only the caller is looked for among the assignees.
create_assignee_looking_at_caller(r, t, u, l) ==
  /\ Serving(r)
  /\ Present(t)
  /\ can_manage(r, t)
  /\ db[t].feature # None => is_member(db[db[t].feature].project, u)
  /\ ~Linked(t, caller[r])
  /\ NewId(l)
  /\ FlushLink(r, l :> NewLink(t, u))

\* The user is not on leave.
create_assignee(r, t, u, l) ==
  /\ Serving(r)
  /\ Present(t)
  /\ can_manage(r, t)
  /\ db[t].feature # None => is_member(db[db[t].feature].project, u)
  /\ ~Linked(t, u)
  /\ NewId(l)
  /\ FlushLink(r, l :> NewLink(t, u))

\* The task itself may be deleted.
delete_assignee(r, l) ==
  /\ Serving(r)
  /\ Present(l) /\ db[l].of \in Tasks
  /\ can_manage(r, db[l].of)
  /\ Flush(r, l :> [deleted |-> TRUE])

-------------------------------------------------------------------------------
(* activity.py and activity_assignee.py                                    *)

can_write_activity(r, a) ==
  \/ caller[r] \in Admins
  \/ /\ caller[r] \in Managers
     /\ IF db[a].project # None THEN is_member(db[a].project, caller[r])
        ELSE db[a].created_by = caller[r]
  \/ /\ caller[r] \in Employees
     /\ db[a].created_by = caller[r] \/ is_active_assignee(a, caller[r])

create_activity(r, a, p) ==
  /\ Serving(r)
  /\ NewId(a)
  /\ p # None => Present(p) /\ AdminOrMember(r, p)
  /\ Flush(r, a :> NewActivity(p, caller[r]))

update_activity(r, a) ==
  /\ Serving(r)
  /\ Present(a)
  /\ can_write_activity(r, a)
  /\ db[a].updated_by # caller[r]
  /\ Flush(r, a :> [updated_by |-> caller[r]])

\* Its assignees and the time logged on it stay.
delete_activity(r, a) ==
  /\ Serving(r)
  /\ Present(a)
  /\ can_write_activity(r, a)
  /\ Flush(r, a :> [deleted |-> TRUE])

create_activity_assignee(r, a, u, l) ==
  /\ Serving(r)
  /\ caller[r] \in Admins \union Managers
  /\ Present(a)
  /\ can_write_activity(r, a)
  /\ db[a].project # None => is_member(db[a].project, u)
  /\ ~Linked(a, u)
  /\ NewId(l)
  /\ FlushLink(r, l :> NewLink(a, u))

delete_activity_assignee(r, l) ==
  /\ Serving(r)
  /\ caller[r] \in Admins \union Managers
  /\ Present(l) /\ db[l].of \in Activities
  /\ Present(db[l].of)
  /\ can_write_activity(r, db[l].of)
  /\ Flush(r, l :> [deleted |-> TRUE])

-------------------------------------------------------------------------------
(* time_log.py                                                             *)

require_assigned_target(r, x) ==
  Present(x) /\ (caller[r] \in Admins \/ is_active_assignee(x, caller[r]))

create_time_log(r, tl, x, n) ==
  /\ Serving(r)
  /\ require_assigned_target(r, x)
  /\ NewId(tl)
  /\ Flush(r, tl :> NewTimeLog(x, caller[r], n))

get_own_time_log(r, tl) == Present(tl) /\ db[tl].user = caller[r]

update_time_log(r, tl, n) ==
  /\ Serving(r)
  /\ get_own_time_log(r, tl)
  /\ n # db[tl].minutes
  /\ Flush(r, tl :> [minutes |-> n])

delete_time_log(r, tl) ==
  /\ Serving(r)
  /\ get_own_time_log(r, tl)
  /\ Flush(r, tl :> [deleted |-> TRUE])

-------------------------------------------------------------------------------
(* The database                                                            *)

\* The partial unique indexes idx_project_members_active, _feature_members_,
\* _task_assignees_ and _activity_assignees_: one active row for each parent
\* and user.
Constraints(r, new) ==
  \A l, m \in Links :
    l # m /\ Live(new[l]) /\ Live(new[m]) => new[l].of # new[m].of \/ new[l].user # new[m].user

commit(r) == /\ write[r] # Nothing
             /\ Constraints(r, Written(r))
             /\ db' = Written(r)
             /\ Done(r)

\* An AppException, or an IntegrityError turned into 409.
rollback(r) == /\ caller[r] # None
               /\ write[r] = Nothing \/ ~Constraints(r, Written(r))
               /\ Done(r)
               /\ UNCHANGED db

MaybeNone(S) == S \union {None}

Next ==
  \E r \in Used(Requests) :
    \/ \E u \in Used(Users) : authenticate(r, u)
    \/ \E p \in Used(Projects) :
         \/ \E s, e \in MaybeNone(Used(Dates)) :
              \/ \E l \in Used(Links) : create_project(r, p, s, e, l)
              \/ update_project(r, p, s, e)
         \/ delete_project(r, p)
         \/ \E u \in Used(Users), l \in Used(Links) : create_project_member(r, p, u, l)
         \/ \E f \in Used(Features) : create_feature(r, f, p)
    \/ \E f \in Used(Features) :
         \/ delete_feature(r, f)
         \/ \E u \in Used(Users), l \in Used(Links) : create_feature_member(r, f, u, l)
    \/ \E t \in Used(Tasks) :
         \/ \E f \in MaybeNone(Used(Features)), p \in MaybeNone(Used(Projects)) :
              create_task(r, t, f, p) \/ update_task(r, t, f, p)
         \/ delete_task(r, t)
         \/ \E u \in Used(Users), l \in Used(Links) : create_assignee(r, t, u, l)
    \/ \E l \in Used(Links) : \/ delete_project_member(r, l)
                              \/ delete_feature_member(r, l)
                              \/ delete_assignee(r, l)
                              \/ delete_activity_assignee(r, l)
    \/ \E a \in Used(Activities) :
         \/ \E p \in MaybeNone(Used(Projects)) : create_activity(r, a, p)
         \/ update_activity(r, a)
         \/ delete_activity(r, a)
         \/ \E u \in Used(Users), l \in Used(Links) : create_activity_assignee(r, a, u, l)
    \/ \E tl \in Used(TimeLogs) :
         \/ \E x \in Used(Tasks \union Activities), n \in Minutes : create_time_log(r, tl, x, n)
         \/ \E n \in Minutes : update_time_log(r, tl, n)
         \/ delete_time_log(r, tl)
    \/ commit(r)
    \/ rollback(r)

Spec == Init /\ [][Next /\ UNCHANGED scope]_vars

-------------------------------------------------------------------------------
(* Properties                                                              *)

Project == [exists : {TRUE}, deleted : BOOLEAN, start_date : MaybeNone(Dates),
            end_date : MaybeNone(Dates)]
Feature == [exists : {TRUE}, deleted : BOOLEAN, project : Projects]
Task == [exists : {TRUE}, deleted : BOOLEAN, feature : MaybeNone(Features),
         project : MaybeNone(Projects), created_by : Users]
Activity == [exists : {TRUE}, deleted : BOOLEAN, project : MaybeNone(Projects),
             created_by : Users, updated_by : MaybeNone(Users)]
TimeLog == [exists : {TRUE}, deleted : BOOLEAN, of : Tasks \union Activities, user : Users,
            minutes : Minutes]
Link == [exists : {TRUE}, deleted : BOOLEAN, user : Users,
         of : UNION {Projects, Features, Tasks, Activities}]

\* Types; a row never refers to one that does not exist, and only a request
\* with a caller writes.
TypeOK ==
  /\ \A p \in Projects : db[p] \in Project \union {Absent}
  /\ \A f \in Features : db[f] \in Feature \union {Absent}
  /\ \A t \in Tasks : db[t] \in Task \union {Absent}
  /\ \A a \in Activities : db[a] \in Activity \union {Absent}
  /\ \A tl \in TimeLogs : db[tl] \in TimeLog \union {Absent}
  /\ \A l \in Links : db[l] \in Link \union {Absent}
  /\ \A f \in Features : db[f].exists => db[db[f].project].exists
  /\ \A t \in Tasks : db[t].exists /\ db[t].feature # None => db[db[t].feature].exists
  /\ \A x \in Links \union TimeLogs : db[x].exists => db[db[x].of].exists
  /\ \A r \in Requests : write[r] # Nothing => caller[r] \in Users

\* Unless requests interleave, nothing outlives what it belongs to: a live
\* feature has a live project and a live task of a feature a live feature.
\* delete_feature and delete_project refuse while there are tasks ("Soft-delete a
\* project without tasks, together with its (empty) features").
NothingOrphaned ==
  Serial => /\ \A f \in Features : Present(f) => Present(db[f].project)
            /\ \A t \in Tasks : Present(t) /\ db[t].feature # None => Present(db[t].feature)

\* Unless requests interleave, "start_date must be on or before end_date" of a
\* project, whichever of them its updates change.  No constraint of the database
\* says so: two updates, one of each date, may leave them the wrong way round.
DatesCrossOnlyByRace ==
  Serial => \A p \in Projects : Present(p) => check_dates(db[p].start_date, db[p].end_date)

\* "Soft-delete a project without tasks": no live task is left in a deleted
\* project.
NoTaskInDeletedProject ==
  \A t \in Tasks : Present(t) /\ db[t].project # None => Present(db[t].project)

\* A user is added twice only by a race: a request that is about to link somebody
\* who is linked already looked for the link, and found something else there
\* than what is there now.  Only then is it the unique indexes that refuse it
\* (create_project_member, create_feature_member, create_assignee and
\* create_activity_assignee; create_project links its creator without looking).
AddedTwiceOnlyByRace ==
  \A r \in Requests, l, m \in Links :
    /\ l \in Inserted(r) /\ Present(m)
    /\ db[m].of = write[r][l].of /\ db[m].user = write[r][l].user
    => m \in DOMAIN loaded[r] /\ loaded[r][m] # db[m]

\* "Moving between features needs write access to the source and target
\* project": unless requests interleave, a manager who moves a task belongs to
\* the projects of both.
MovesWithinMyProjects ==
  [][\A t \in Tasks : db[t].exists /\ db'[t].feature # db[t].feature
       => ~Serial \/ \E r \in Requests :
            /\ t \in DOMAIN write[r]
            /\ \A f \in {db[t].feature, db'[t].feature} \ {None} :
                 AdminOrMember(r, db[f].project)]_vars
===============================================================================

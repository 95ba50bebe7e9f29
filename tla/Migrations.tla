------------------------------- MODULE Migrations -------------------------------
(***************************************************************************)
(* The schema and its revisions: alembic/versions, as alembic applies and  *)
(* reverts them, and the tables that app/models expects.                   *)
(*                                                                         *)
(* A revision is a script of statements in one transaction.  A statement   *)
(* fails when the object it makes is there already, when the one it drops  *)
(* is missing or still needed, or when a row breaks the constraint it adds.*)
(* The columns on which all revisions and the models agree are left out.   *)
(***************************************************************************)
EXTENDS Naturals, SequencesExt

VARIABLES applied,   \* the revisions in effect (alembic_version names the last ones)
          schema,    \* the objects of the database
          rows,      \* what the tables hold, as far as a revision is concerned with it
          broken     \* a script met an object it did not expect

vars == <<applied, schema, rows, broken>>

-------------------------------------------------------------------------------
(* Objects; needs names the tables and types an object refers to, columns  *)
(* what an index is on, in its order                                       *)

Object(kind, t, part, needs, columns) ==
  [kind |-> kind, of |-> t, part |-> part, needs |-> needs, columns |-> columns]

Type(n) == Object("type", n, "type", {}, <<>>)
Table(t, needs) == Object("table", t, "table", needs, <<>>)
Column(t, c) == Object("column", t, c, {}, <<>>)
EnumColumn(t, c, type) == Object("column", t, c, {type}, <<>>)
Index(t, i, columns) == Object("index", t, i, {}, columns)
Constraint(t, c) == Object("constraint", t, c, {}, <<>>)
ForeignKey(t, c, to) == Object("key", t, c, {to}, <<>>)
Policy(t) == Object("policy", t, "tenant_isolation", {}, <<>>)
Value(type, v) == Object("value", type, v, {}, <<>>)

\* A unique index, which is a constraint too; the rows it is about come last.
UniqueIndex(t, i, columns, where) == Object("constraint", t, i, {}, Append(columns, where))

Active == "removed_at IS NULL"

Has(objects, t, part) == \E o \in objects : o.of = t /\ o.part = part

Exists(objects, n) == \E o \in objects : o.of = n

-------------------------------------------------------------------------------
(* Statements.  A database in the middle of a script is a record of its    *)
(* objects, its rows and the error that ended the script, if any.          *)

Create(o) == [do |-> "create", obj |-> o]
CreateIfMissing(o) == [do |-> "create_if_missing", obj |-> o]
Drop(t, part) == [do |-> "drop", of |-> t, part |-> part]
DropIfExists(t, part) == [do |-> "drop_if_exists", of |-> t, part |-> part]
DropTable(t) == Drop(t, "table")
DropType(n) == Drop(n, "type")
RenameTable(t, u) == [do |-> "rename_table", of |-> t, to |-> u]
RenamePart(t, p, q) == [do |-> "rename_part", of |-> t, part |-> p, to |-> q]
Alter(t) == [do |-> "alter", of |-> t]
DeleteRows(t) == [do |-> "delete_rows", of |-> t]

CreateAll(objects) == [i \in DOMAIN objects |-> Create(objects[i])]
DropAll(t, parts) == [i \in DOMAIN parts |-> Drop(t, parts[i])]

\* The row that each constraint forbids, and the value a row holds.
Breaks(t, part) ==
  CASE part = "users_email_key" -> {<<t, "shared email">>}
    [] part = "ck_users_employee_requires_designation" -> {<<t, "no designation">>}
    [] part = "password_hash NOT NULL" -> {<<t, "no password">>}
    [] part = "tenant_id NOT NULL" -> {<<t, "no tenant">>}
    [] OTHER -> {}

Holds(type, v) == IF v = "google" THEN {<<"sso_connections", "google">>} ELSE {}

Fail(s, why) == [s EXCEPT !.error = why]

DoCreate(s, o) ==
  IF \/ Has(s.objects, o.of, o.part)
     \/ o.part \notin {"table", "type"} /\ ~Exists(s.objects, o.of)
     \/ \E n \in o.needs \ {o.of} : ~Exists(s.objects, n)
  THEN Fail(s, "ddl")
  ELSE IF Breaks(o.of, o.part) \intersect s.rows # {} THEN Fail(s, "data")
  ELSE [s EXCEPT !.objects = @ \union {o}]

\* A table or type takes its parts with it, but not those of others; a column
\* takes the indexes on it.
DoDrop(s, t, part) ==
  IF ~Has(s.objects, t, part) THEN Fail(s, "ddl")
  ELSE IF part \in {"table", "type"}
  THEN IF \E o \in s.objects : t \in o.needs /\ o.of # t THEN Fail(s, "ddl")
       ELSE [s EXCEPT !.objects = {o \in @ : o.of # t}, !.rows = {x \in @ : x[1] # t}]
  ELSE IF Holds(t, part) \intersect s.rows # {} THEN Fail(s, "data")
  ELSE [s EXCEPT !.objects =
          {o \in @ : o.of # t \/ (o.part # part /\ ~Contains(o.columns, part))}]

DoRenameTable(s, t, u) ==
  IF ~Exists(s.objects, t) \/ Exists(s.objects, u) THEN Fail(s, "ddl")
  ELSE [s EXCEPT !.objects = {IF o.of = t THEN [o EXCEPT !.of = u] ELSE o : o \in @},
                 !.rows = {IF x[1] = t THEN <<u, x[2]>> ELSE x : x \in @}]

DoRenamePart(s, t, p, q) ==
  IF ~Has(s.objects, t, p) \/ Has(s.objects, t, q) THEN Fail(s, "ddl")
  ELSE [s EXCEPT !.objects = {IF o.of = t /\ o.part = p THEN [o EXCEPT !.part = q]
                              ELSE o : o \in @}]

\* calendar_events refer to leave_logs.
DoDelete(s, t) ==
  IF t = "leave_logs" /\ <<"calendar_events", "leave event">> \in s.rows THEN Fail(s, "data")
  ELSE [s EXCEPT !.rows = {x \in @ : x[1] # t}]

Execute(s, st) ==
  CASE s.error # "none" -> s
    [] st.do = "create" -> DoCreate(s, st.obj)
    [] st.do = "create_if_missing" ->
         IF Has(s.objects, st.obj.of, st.obj.part) THEN s ELSE DoCreate(s, st.obj)
    [] st.do = "drop" -> DoDrop(s, st.of, st.part)
    [] st.do = "drop_if_exists" ->
         IF Has(s.objects, st.of, st.part) THEN DoDrop(s, st.of, st.part) ELSE s
    [] st.do = "rename_table" -> DoRenameTable(s, st.of, st.to)
    [] st.do = "rename_part" -> DoRenamePart(s, st.of, st.part, st.to)
    [] st.do = "alter" -> IF Exists(s.objects, st.of) THEN s ELSE Fail(s, "ddl")
    [] st.do = "delete_rows" -> DoDelete(s, st.of)

Run(script, objects, held) ==
  FoldLeft(Execute, [objects |-> objects, rows |-> held, error |-> "none"], script)

-------------------------------------------------------------------------------
(* ab405c83cdd5: the first schema                                          *)

types ==
  <<Type("user_status"), Type("calendar_event_type"), Type("leave_type"), Type("org_status"),
    Type("priority_level"), Type("entity_status"), Type("project_status"), Type("audit_action"),
    Type("report_job_status"), Type("report_job_type"), Type("health_status"),
    Type("invitation_status"), Type("user_role")>>

organizations == <<Table("organizations", {"org_status"}), Column("organizations", "slug")>>

designations == <<Table("designations", {"organizations"}),
                  UniqueIndex("designations", "uq_org_designation",
                              <<"organization_id", "name">>, "all")>>

idx_superadmin_email ==
  UniqueIndex("users", "idx_superadmin_email", <<"email">>, "organization_id IS NULL")

idx_users_org_email ==
  UniqueIndex("users", "idx_users_org_email", <<"organization_id", "email">>,
              "organization_id IS NOT NULL")

users == <<Table("users", {"organizations", "designations", "user_role", "user_status"}),
           Constraint("users", "password_hash NOT NULL"),
           idx_superadmin_email, idx_users_org_email,
           Index("users", "idx_users_org_role", <<"organization_id", "role">>),
           ForeignKey("organizations", "organizations_deleted_by_fkey", "users"),
           ForeignKey("designations", "designations_deleted_by_fkey", "users")>>

audit_log == <<Table("audit_log", {"users", "organizations", "audit_action"}),
               Index("audit_log", "idx_audit_log_org_changed_at",
                     <<"organization_id", "changed_at">>),
               Index("audit_log", "idx_audit_log_table_record",
                     <<"table_name", "record_id", "changed_at">>)>>

leave_logs == <<Table("leave_logs", {"users", "organizations", "leave_type", "btree_gist"}),
                Constraint("leave_logs", "excl_leave_logs_no_overlap"),
                Index("leave_logs", "idx_leave_logs_org_date",
                      <<"organization_id", "start_date", "end_date">>)>>

projects == <<Table("projects", {"users", "organizations", "project_status"})>>

report_jobs == <<Table("report_jobs", {"organizations", "users", "report_job_type",
                                       "report_job_status"}),
                 Index("report_jobs", "idx_report_jobs_org_status",
                       <<"organization_id", "status">>),
                 Index("report_jobs", "idx_report_jobs_requested_by", <<"requested_by">>)>>

user_preferences == <<Table("user_preferences", {"users"})>>

activities == <<Table("activities", {"users", "organizations", "projects", "entity_status"})>>

calendar_events == <<Table("calendar_events", {"users", "organizations", "leave_logs",
                                               "calendar_event_type"}),
                     Constraint("calendar_events", "chk_calendar_event_timeline"),
                     Index("calendar_events", "idx_calendar_events_org_dates",
                           <<"organization_id", "start_time", "end_time">>)>>

features == <<Table("features", {"users", "organizations", "projects", "entity_status"})>>

invitations == <<Table("invitations", {"users", "organizations", "projects", "user_role",
                                       "invitation_status"})>>

org_insight_snapshots == <<Table("org_insight_snapshots", {"organizations", "projects",
                                                           "health_status"}),
                           Index("org_insight_snapshots",
                                 "idx_org_insight_snapshots_project_time",
                                 <<"project_id", "computed_at">>)>>

project_members == <<Table("project_members", {"users", "organizations", "projects"}),
                     UniqueIndex("project_members", "idx_project_members_active",
                                 <<"project_id", "user_id">>, Active)>>

activity_assignees == <<Table("activity_assignees", {"users", "organizations", "activities"}),
                        UniqueIndex("activity_assignees", "idx_activity_assignees_active",
                                    <<"activity_id", "user_id">>, Active)>>

feature_members == <<Table("feature_members", {"users", "organizations", "features"}),
                     UniqueIndex("feature_members", "idx_feature_members_active",
                                 <<"feature_id", "user_id">>, Active)>>

tasks == <<Table("tasks", {"users", "organizations", "features", "entity_status",
                           "priority_level"})>>

attachments == <<Table("attachments", {"users", "organizations", "projects", "features",
                                       "tasks", "activities"}),
                 Constraint("attachments", "chk_attachment_target_exclusive_arc"),
                 Index("attachments", "idx_attachments_activity", <<"activity_id">>),
                 Index("attachments", "idx_attachments_feature", <<"feature_id">>),
                 Index("attachments", "idx_attachments_project", <<"project_id">>),
                 Index("attachments", "idx_attachments_task", <<"task_id">>)>>

\* The arc is project, feature, task or activity.
comments == <<Table("comments", {"users", "organizations", "projects", "features", "tasks",
                                 "activities"}),
              Column("comments", "activity_id"),
              Constraint("comments", "chk_comment_target_exclusive_arc"),
              Index("comments", "idx_comments_activity", <<"activity_id">>),
              Index("comments", "idx_comments_feature", <<"feature_id">>),
              Index("comments", "idx_comments_project", <<"project_id">>),
              Index("comments", "idx_comments_task", <<"task_id">>)>>

task_assignees == <<Table("task_assignees", {"users", "organizations", "tasks"}),
                    UniqueIndex("task_assignees", "idx_task_assignees_active",
                                <<"task_id", "user_id">>, Active)>>

time_logs == <<Table("time_logs", {"users", "organizations", "tasks", "activities"}),
               Constraint("time_logs", "chk_timelog_target_exclusive_arc"),
               Constraint("time_logs", "chk_timelog_duration_max_24h"),
               Constraint("time_logs", "chk_timelog_duration_positive"),
               Index("time_logs", "idx_timelogs_org_date", <<"organization_id", "log_date">>),
               Index("time_logs", "idx_timelogs_user_date", <<"user_id", "log_date">>)>>

upgrade_ab405c83cdd5 ==
  CreateAll(types) \o <<CreateIfMissing(Type("btree_gist"))>>
  \o CreateAll(organizations \o designations \o users \o audit_log \o leave_logs \o projects
               \o report_jobs \o user_preferences \o activities \o calendar_events
               \o features \o invitations \o org_insight_snapshots \o project_members
               \o activity_assignees \o feature_members \o tasks \o attachments
               \o comments \o task_assignees \o time_logs)

\* The keys that make a cycle of users, organizations and designations are
\* dropped before the tables; a table goes after its indexes.
downgrade_ab405c83cdd5 ==
  DropAll("time_logs", <<"idx_timelogs_user_date", "idx_timelogs_org_date", "table">>)
  \o DropAll("task_assignees", <<"idx_task_assignees_active", "table">>)
  \o DropAll("comments", <<"idx_comments_task", "idx_comments_project",
                           "idx_comments_feature", "idx_comments_activity", "table">>)
  \o DropAll("attachments", <<"idx_attachments_task", "idx_attachments_project",
                              "idx_attachments_feature", "idx_attachments_activity", "table">>)
  \o <<DropTable("tasks")>>
  \o DropAll("feature_members", <<"idx_feature_members_active", "table">>)
  \o DropAll("activity_assignees", <<"idx_activity_assignees_active", "table">>)
  \o DropAll("project_members", <<"idx_project_members_active", "table">>)
  \o DropAll("org_insight_snapshots", <<"idx_org_insight_snapshots_project_time", "table">>)
  \o <<DropTable("invitations"), DropTable("features")>>
  \o DropAll("calendar_events", <<"idx_calendar_events_org_dates", "table">>)
  \o <<DropTable("activities"), DropTable("user_preferences")>>
  \o DropAll("report_jobs", <<"idx_report_jobs_requested_by", "idx_report_jobs_org_status",
                              "table">>)
  \o <<DropTable("projects")>>
  \o DropAll("leave_logs", <<"idx_leave_logs_org_date", "table">>)
  \o DropAll("audit_log", <<"idx_audit_log_table_record", "idx_audit_log_org_changed_at",
                            "table">>)
  \o <<Drop("designations", "designations_deleted_by_fkey"),
       Drop("organizations", "organizations_deleted_by_fkey")>>
  \o DropAll("users", <<"idx_users_org_role", "idx_users_org_email", "idx_superadmin_email",
                        "table">>)
  \o DropAll("designations", <<"uq_org_designation", "table">>)
  \o <<DropTable("organizations")>>
  \o [i \in DOMAIN types |-> DropType(Reverse(types)[i].of)]

-------------------------------------------------------------------------------
(* The revisions after it                                                  *)

upgrade_a2f4c324bf70 == DropAll("users", <<"idx_superadmin_email", "idx_users_org_email">>)
                        \o <<Create(Constraint("users", "users_email_key"))>>

downgrade_a2f4c324bf70 ==
  <<Drop("users", "users_email_key"), Create(idx_users_org_email),
    Create(idx_superadmin_email)>>

upgrade_2d909614fe97 ==
  CreateAll(<<Table("sessions", {"users"}),
              Index("sessions", "idx_sessions_user", <<"user_id">>)>>)

downgrade_2d909614fe97 == DropAll("sessions", <<"idx_sessions_user", "table">>)

\* "organizations", "users", ORG_SCOPED_TABLES and USER_SCOPED_TABLES
TENANT_TABLES ==
  <<"organizations", "users", "designations", "invitations", "projects", "project_members",
    "features", "feature_members", "tasks", "task_assignees", "activities",
    "activity_assignees", "comments", "attachments", "time_logs", "leave_logs",
    "calendar_events", "org_insight_snapshots", "report_jobs", "audit_log",
    "user_preferences", "sessions">>

disable_rls(t) == <<DropIfExists(t, "tenant_isolation"), Alter(t)>>

upgrade_8e69245cfa75 == [i \in DOMAIN TENANT_TABLES |-> Create(Policy(TENANT_TABLES[i]))]

downgrade_8e69245cfa75 ==
  FlattenSeq([i \in DOMAIN TENANT_TABLES |-> disable_rls(Reverse(TENANT_TABLES)[i])])

upgrade_cdf452a8d4c2 ==
  CreateAll(<<Table("azure_ad_configs", {"organizations"}),
              Constraint("azure_ad_configs", "tenant_id NOT NULL"),
              Policy("azure_ad_configs"), Column("users", "azure_ad_object_id")>>)
  \o <<Drop("users", "password_hash NOT NULL"),
       Create(Constraint("users", "users_azure_ad_object_id_key"))>>

downgrade_cdf452a8d4c2 ==
  <<Drop("users", "users_azure_ad_object_id_key"),
    Create(Constraint("users", "password_hash NOT NULL")), Drop("users", "azure_ad_object_id")>>
  \o disable_rls("azure_ad_configs") \o <<DropTable("azure_ad_configs")>>

\* As autogenerated: a table of another name is a new one.
upgrade_8d86d84c724e_recreated ==
  <<Create(Type("sso_provider")), DropTable("azure_ad_configs"),
    Create(Table("sso_connections", {"organizations"})),
    Create(Constraint("sso_connections", "tenant_id NOT NULL")),
    Create(Policy("sso_connections")),
    Create(EnumColumn("sso_connections", "provider", "sso_provider")),
    Create(Constraint("sso_connections", "provider NOT NULL")),
    RenamePart("users", "azure_ad_object_id", "sso_subject_id"),
    RenamePart("users", "users_azure_ad_object_id_key", "users_sso_subject_id_key")>>

upgrade_8d86d84c724e ==
  <<Create(Type("sso_provider")), RenameTable("azure_ad_configs", "sso_connections"),
    Create(EnumColumn("sso_connections", "provider", "sso_provider")),
    Create(Constraint("sso_connections", "provider NOT NULL")),
    RenamePart("users", "azure_ad_object_id", "sso_subject_id"),
    RenamePart("users", "users_azure_ad_object_id_key", "users_sso_subject_id_key")>>

downgrade_8d86d84c724e ==
  <<RenamePart("users", "users_sso_subject_id_key", "users_azure_ad_object_id_key"),
    RenamePart("users", "sso_subject_id", "azure_ad_object_id"),
    Drop("sso_connections", "provider NOT NULL"), Drop("sso_connections", "provider"),
    RenameTable("sso_connections", "azure_ad_configs"), DropType("sso_provider")>>

upgrade_0929dbb1b059 == <<Drop("sso_connections", "provider NOT NULL"),
                          Create(Value("sso_provider", "google"))>>

downgrade_0929dbb1b059 == <<Drop("sso_provider", "google"),
                            Create(Constraint("sso_connections", "provider NOT NULL"))>>

upgrade_114124ac3705 ==
  <<Create(Constraint("users", "ck_users_employee_requires_designation"))>>

downgrade_114124ac3705 == <<Drop("users", "ck_users_employee_requires_designation")>>

upgrade_f0ac6e3a3d90 == <<Drop("sso_connections", "tenant_id NOT NULL")>>

downgrade_f0ac6e3a3d90 == <<Create(Constraint("sso_connections", "tenant_id NOT NULL"))>>

\* Everything of the design with one table goes, its rows too; but not
\* excl_leave_logs_no_overlap.
single_table_leave_removed ==
  <<CreateIfMissing(Type("btree_gist")),
    DeleteRows("calendar_events"), DeleteRows("leave_logs"),
    DropIfExists("leave_logs", "idx_leave_logs_user_date"),
    DropIfExists("leave_logs", "idx_leave_logs_org_date"),
    DropIfExists("leave_logs", "chk_leave_logs_duration_period"),
    DropIfExists("leave_logs", "chk_leave_logs_valid_date_range"),
    DropIfExists("leave_logs", "leave_date"), DropIfExists("leave_logs", "leave_duration"),
    DropIfExists("leave_logs", "half_day_period"),
    DropIfExists("leave_duration", "type"), DropIfExists("half_day_period", "type")>>

leave_logs_parent ==
  <<CreateIfMissing(Column("leave_logs", "total_days")),
    Create(Constraint("leave_logs", "chk_leave_logs_valid_date_range")),
    CreateIfMissing(Index("leave_logs", "idx_leave_logs_user_range",
                          <<"user_id", "start_date", "end_date">>)),
    CreateIfMissing(Index("leave_logs", "idx_leave_logs_org_range",
                          <<"organization_id", "start_date", "end_date">>)),
    CreateIfMissing(Type("leave_portion")), CreateIfMissing(Type("half_slot")),
    DropIfExists("leave_log_days", "table")>>

leave_log_days ==
  <<Table("leave_log_days", {"leave_logs", "users", "organizations", "leave_portion",
                             "half_slot", "btree_gist"}),
    Constraint("leave_log_days", "uq_leave_log_days_leave_log_date"),
    Constraint("leave_log_days", "chk_leave_log_days_portion_half_slot"),
    Constraint("leave_log_days", "excl_leave_log_days_active_overlap")>>

leave_log_days_indexes ==
  <<Index("leave_log_days", "idx_leave_log_days_user_date", <<"user_id", "leave_date">>),
    Index("leave_log_days", "idx_leave_log_days_org_date",
          <<"organization_id", "leave_date">>),
    Index("leave_log_days", "idx_leave_log_days_leave_log", <<"leave_log_id">>)>>

upgrade_202020 ==
  single_table_leave_removed \o leave_logs_parent
    \o CreateAll(leave_log_days \o leave_log_days_indexes)

\* The types are dropped before the table that uses them.
downgrade_202020_types_first ==
  <<DeleteRows("leave_logs"), DropIfExists("leave_portion", "type"),
    DropIfExists("half_slot", "type"), DropIfExists("leave_log_days", "table")>>

\* "Recreate old enum types", "Restore old single-table leave fields", "Restore
\* old indexes": the revision before has none of them, and idx_leave_logs_org_date
\* on other columns.
downgrade_202020 ==
  <<DeleteRows("leave_log_days"), DeleteRows("leave_logs"),
    DropIfExists("leave_log_days", "idx_leave_log_days_leave_log"),
    DropIfExists("leave_log_days", "idx_leave_log_days_org_date"),
    DropIfExists("leave_log_days", "idx_leave_log_days_user_date"),
    DropIfExists("leave_log_days", "table"),
    DropIfExists("leave_logs", "idx_leave_logs_org_range"),
    DropIfExists("leave_logs", "idx_leave_logs_user_range"),
    DropIfExists("leave_logs", "chk_leave_logs_valid_date_range"),
    DropIfExists("leave_logs", "total_days"),
    CreateIfMissing(Type("leave_duration")), CreateIfMissing(Type("half_day_period")),
    CreateIfMissing(Column("leave_logs", "leave_date")),
    CreateIfMissing(EnumColumn("leave_logs", "leave_duration", "leave_duration")),
    DropIfExists("leave_logs", "leave_duration"),
    Create(EnumColumn("leave_logs", "leave_duration", "leave_duration")),
    Create(EnumColumn("leave_logs", "half_day_period", "half_day_period")),
    Create(Constraint("leave_logs", "chk_leave_logs_duration_period")),
    CreateIfMissing(Index("leave_logs", "idx_leave_logs_user_date",
                          <<"user_id", "leave_date">>)),
    CreateIfMissing(Index("leave_logs", "idx_leave_logs_org_date",
                          <<"organization_id", "leave_date">>)),
    DropIfExists("leave_portion", "type"), DropIfExists("half_slot", "type")>>

upgrade_c3b7d1e94a10 ==
  <<DropIfExists("invitations", "table"), DropIfExists("invitation_status", "type"),
    CreateIfMissing(Type("outbox_status"))>>
  \o CreateAll(<<Table("email_outbox", {"organizations", "outbox_status"}),
                 Index("email_outbox", "ix_email_outbox_status_next_attempt",
                       <<"status", "next_attempt_at">>),
                 Policy("email_outbox")>>)

\* The table comes back without its policy.
downgrade_c3b7d1e94a10_no_rls ==
  <<DropIfExists("email_outbox", "tenant_isolation"),
    Drop("email_outbox", "ix_email_outbox_status_next_attempt"), DropTable("email_outbox"),
    DropIfExists("outbox_status", "type"), CreateIfMissing(Type("invitation_status"))>>
  \o CreateAll(invitations)

downgrade_c3b7d1e94a10 ==
  <<DropIfExists("email_outbox", "tenant_isolation"),
    Drop("email_outbox", "ix_email_outbox_status_next_attempt"), DropTable("email_outbox"),
    DropIfExists("outbox_status", "type"), CreateIfMissing(Type("invitation_status"))>>
  \o CreateAll(invitations \o <<Policy("invitations")>>)

upgrade_e5a9c2d81f47 ==
  CreateAll(<<Table("project_discussion_reads", {"organizations", "users", "projects"}),
              Constraint("project_discussion_reads", "uq_discussion_read_user_project"),
              Index("comments", "idx_comments_project_thread",
                    <<"project_id", "created_at DESC", "id DESC", "deleted_at IS NULL">>),
              Policy("project_discussion_reads")>>)

downgrade_e5a9c2d81f47 ==
  disable_rls("project_discussion_reads")
  \o <<Drop("comments", "idx_comments_project_thread"), DropTable("project_discussion_reads")>>

-------------------------------------------------------------------------------
(* app/models: tables, constraints, and the columns that revisions or      *)
(* models differ on                                                        *)

tenancy == {<<"organizations", "table">>, <<"organizations", "domain">>,
            <<"designations", "table">>, <<"designations", "uq_org_designation">>}

user == {<<"users", "table">>, <<"users", "users_email_key">>, <<"users", "sso_subject_id">>,
         <<"users", "users_sso_subject_id_key">>,
         <<"users", "ck_users_employee_requires_designation">>, <<"user_preferences", "table">>}

session == {<<"sessions", "table">>}

sso == {<<"sso_connections", "table">>, <<"sso_connections", "provider">>}

outbox == {<<"email_outbox", "table">>}

ops == {<<"org_insight_snapshots", "table">>, <<"report_jobs", "table">>,
        <<"audit_log", "table">>}

project == {<<"projects", "table">>, <<"project_members", "table">>,
            <<"project_members", "idx_project_members_active">>, <<"features", "table">>,
            <<"feature_members", "table">>, <<"feature_members", "idx_feature_members_active">>}

task == {<<"tasks", "table">>, <<"tasks", "project_id">>, <<"tasks", "estimated_hours">>,
         <<"tasks", "labels">>, <<"tasks", "subtasks">>, <<"task_assignees", "table">>,
         <<"task_assignees", "idx_task_assignees_active">>, <<"activities", "table">>,
         <<"activity_assignees", "table">>,
         <<"activity_assignees", "idx_activity_assignees_active">>}

\* A comment's arc is its parent, project, feature or task.
collaboration ==
  {<<"comments", "table">>, <<"comments", "chk_comment_target_exclusive_arc">>,
   <<"attachments", "table">>, <<"attachments", "chk_attachment_target_exclusive_arc">>,
   <<"project_discussion_reads", "table">>,
   <<"project_discussion_reads", "uq_discussion_read_user_project">>}

timesheet ==
  {<<"time_logs", "table">>, <<"time_logs", "chk_timelog_target_exclusive_arc">>,
   <<"time_logs", "chk_timelog_duration_max_24h">>,
   <<"time_logs", "chk_timelog_duration_positive">>,
   <<"leave_logs", "table">>, <<"leave_logs", "total_days">>,
   <<"leave_logs", "chk_leave_logs_valid_date_range">>, <<"leave_log_days", "table">>,
   <<"leave_log_days", "uq_leave_log_days_leave_log_date">>,
   <<"leave_log_days", "chk_leave_log_days_portion_half_slot">>,
   <<"leave_log_days", "excl_leave_log_days_active_overlap">>,
   <<"calendar_events", "table">>, <<"calendar_events", "chk_calendar_event_timeline">>}

Models == UNION {tenancy, user, session, sso, outbox, ops, project, task, collaboration,
                 timesheet}

-------------------------------------------------------------------------------
(* alembic                                                                 *)

\* The revisions, each after the ones it revises.
Versions ==
  <<[id |-> "ab405c83cdd5", down |-> {}, up |-> upgrade_ab405c83cdd5,
     undo |-> downgrade_ab405c83cdd5],
    [id |-> "a2f4c324bf70", down |-> {"ab405c83cdd5"}, up |-> upgrade_a2f4c324bf70,
     undo |-> downgrade_a2f4c324bf70],
    [id |-> "2d909614fe97", down |-> {"a2f4c324bf70"}, up |-> upgrade_2d909614fe97,
     undo |-> downgrade_2d909614fe97],
    [id |-> "8e69245cfa75", down |-> {"2d909614fe97"}, up |-> upgrade_8e69245cfa75,
     undo |-> downgrade_8e69245cfa75],
    [id |-> "cdf452a8d4c2", down |-> {"8e69245cfa75"}, up |-> upgrade_cdf452a8d4c2,
     undo |-> downgrade_cdf452a8d4c2],
    [id |-> "8d86d84c724e", down |-> {"cdf452a8d4c2"}, up |-> upgrade_8d86d84c724e,
     undo |-> downgrade_8d86d84c724e],
    [id |-> "0929dbb1b059", down |-> {"8d86d84c724e"}, up |-> upgrade_0929dbb1b059,
     undo |-> downgrade_0929dbb1b059],
    [id |-> "114124ac3705", down |-> {"0929dbb1b059"}, up |-> upgrade_114124ac3705,
     undo |-> downgrade_114124ac3705],
    [id |-> "f0ac6e3a3d90", down |-> {"114124ac3705"}, up |-> upgrade_f0ac6e3a3d90,
     undo |-> downgrade_f0ac6e3a3d90],
    [id |-> "202020", down |-> {"f0ac6e3a3d90"}, up |-> upgrade_202020,
     undo |-> downgrade_202020],
    [id |-> "c3b7d1e94a10", down |-> {"f0ac6e3a3d90"}, up |-> upgrade_c3b7d1e94a10,
     undo |-> downgrade_c3b7d1e94a10],
    [id |-> "e5a9c2d81f47", down |-> {"c3b7d1e94a10"}, up |-> upgrade_e5a9c2d81f47,
     undo |-> downgrade_e5a9c2d81f47]>>

Revisions == {Versions[i].id : i \in DOMAIN Versions}

Init == /\ applied = {}
        /\ schema = {}
        /\ rows = {}
        /\ broken = FALSE

\* begin_transaction, run_migrations: the script takes effect as a whole or
\* not at all.  (One that the rows forbid changes nothing and is no step.)
RunMigration(script, revisions) ==
  LET after == Run(script, schema, rows)
      done == after.error = "none"
  IN  /\ after.error # "data"
      /\ applied' = IF done THEN revisions ELSE applied
      /\ schema' = IF done THEN after.objects ELSE schema
      /\ rows' = IF done THEN after.rows ELSE rows
      /\ broken' = (broken \/ after.error = "ddl")

upgrade(v) == /\ v.id \notin applied /\ v.down \subseteq applied
              /\ RunMigration(v.up, applied \union {v.id})

downgrade(v) == /\ v.id \in applied
                /\ \A i \in DOMAIN Versions :
                     v.id \in Versions[i].down => Versions[i].id \notin applied
                /\ RunMigration(v.undo, applied \ {v.id})

\* The rows that some revision or constraint is about.
Rows == {<<"users", "shared email">>, <<"users", "no designation">>,
         <<"users", "no password">>, <<"sso_connections", "google">>,
         <<"sso_connections", "no tenant">>, <<"azure_ad_configs", "connection">>,
         <<"sso_connections", "connection">>, <<"invitations", "invitation">>,
         <<"leave_logs", "leave">>, <<"calendar_events", "leave event">>,
         <<"email_outbox", "email">>}

\* A version of the application writes what the schema of its time admits.
\* Leave events were made until 202020.
serve(row) ==
  /\ row \notin rows
  /\ Exists(schema, row[1])
  /\ \A o \in schema : o.of = row[1] => row \notin Breaks(o.of, o.part)
  /\ row[2] = "google" => Has(schema, "sso_provider", "google")
  /\ row[2] = "leave event" => <<"leave_logs", "leave">> \in rows /\ "202020" \notin applied
  /\ rows' = rows \union {row}
  /\ UNCHANGED <<applied, schema, broken>>

Next == \/ \E i \in DOMAIN Versions : upgrade(Versions[i]) \/ downgrade(Versions[i])
        \/ \E row \in Rows : serve(row)

Spec == Init /\ [][Next]_vars

-------------------------------------------------------------------------------
(* Properties                                                              *)

Closed == {A \in SUBSET Revisions :
             \A i \in DOMAIN Versions : Versions[i].id \in A => Versions[i].down \subseteq A}

UpgradesOf(A) ==
  FlattenSeq([i \in DOMAIN Versions |-> IF Versions[i].id \in A THEN Versions[i].up ELSE <<>>])

SchemaOf == [A \in Closed |-> Run(UpgradesOf(A), {}, {}).objects]

\* Every script finds the schema it expects, whatever was upgraded and
\* downgraded before and whichever of the two branches went first.
ScriptsApply == ~broken

\* What no downgrade takes away: the extension, and the types of the old leave
\* design that the downgrade of 202020 makes.
Kept(o) == o.of \in {"btree_gist", "leave_duration", "half_day_period"}

\* What the downgrade of 202020 makes of leave_logs: fields that it did not have,
\* and an index on other columns.
OldLeave == {Column("leave_logs", "leave_date"),
             EnumColumn("leave_logs", "leave_duration", "leave_duration"),
             EnumColumn("leave_logs", "half_day_period", "half_day_period"),
             Constraint("leave_logs", "chk_leave_logs_duration_period"),
             Index("leave_logs", "idx_leave_logs_user_date", <<"user_id", "leave_date">>),
             Index("leave_logs", "idx_leave_logs_org_date", <<"organization_id", "leave_date">>)}

WithOldLeave(objects) == {o \in objects : o.part # "idx_leave_logs_org_date"}
                         \union {o \in OldLeave : Exists(objects, o.of)}

\* A downgrade undoes its upgrade: the schema, with the columns of its indexes,
\* depends on the revisions in effect, not on how one got there; but for the
\* downgrade of 202020, which makes exactly OldLeave of leave_logs (until it goes
\* or 202020 is applied again).
SchemaFollowsRevisions ==
  /\ applied \in Closed
  /\ LET expected == SchemaOf[applied]
         apart(objects) == {o \in objects : ~Kept(o)}
     IN  IF "202020" \in applied THEN schema = expected
         ELSE apart(schema) \in {apart(expected), WithOldLeave(apart(expected))}

\* An upgrade loses no rows but those of the features that were replaced
\* ("Invitations feature scrapped", "Existing leave data ... is intentionally
\* discarded").
UpgradesKeepRows ==
  [][applied \subseteq applied' =>
       {x[2] : x \in rows} \ {x[2] : x \in rows'}
         \subseteq {"invitation", "leave", "leave event"}]_vars

\* README: "alembic upgrade head" makes the database of the application: with
\* every revision in effect it has the tables, columns and constraints that
\* app/models declares.
SchemaIsTheModels ==
  applied = Revisions =>
    {<<o.of, o.part>> : o \in {o \in schema : o.kind \in {"table", "column", "constraint"}}}
      = Models
===============================================================================

# ProLens backend: verification project

ProLens is a multi-tenant project-management API (FastAPI, SQLAlchemy,
PostgreSQL) with a worker process that sends email.  This directory holds TLA+
models of the parts of it whose correctness depends on the order in which
requests, workers and crashes happen, TLC configurations that check them, and
TLAPS proofs about the outbox, the sessions, the accounts, the work of an
organization and its files, leave and calendar, the discussion, and both ways to
sign on.

Almost everything that is hard here is concurrency the tests do not reach: they
run against a stubbed database session, one call at a time.  In production every
request runs in a thread of its own, in a READ COMMITTED transaction of its own.

## Inventory

| Component | State | Operations | What is hard | What makes it correct |
|---|---|---|---|---|
| **Outbox** (`worker.py`, `outbox_repository.py`, `outbox_service.py`, `core/email.py`) | `email_outbox` rows: status, attempts, next_attempt_at, locked_at; per worker its batch and position | enqueue, claim a batch, send, record sent / retry / failed, shut down, crash and restart | the row lock ends before the send; a slow batch becomes stale; crash between send and record | no email is lost, retries are bounded, "sent" is true, duplicates only after a failure, workers do not collide |
| **Sessions** (`auth_service.py`, `session_repository.py`, `routes/auth.py`, `_complete_login` of `sso_service.py`) | `sessions` rows by hashed refresh token; account and organization status | login, sign-on through a provider, refresh, logout; suspend, invite, reactivate, delete, change password | two refreshes of one token; a login while the account is suspended; a second way to sign on with checks of its own | one live session per login; a locked-out account and an old password keep none but what raced with the change or a provider let in; requests do not block for ever |
| **Request transactions** (`core/database.py`, `base_repository.py`, `deps.py`, `exception_handlers.py`) | session with its loaded rows; the committed database | authenticate, load, flush, commit, roll back | stale rows in the identity map, column-wise UPDATE | deleted rows stay deleted |
| **Accounts** (`user_service.py`, `designation_service.py`, `organization_service.py`) | users, designations, organizations | create, update, delete | checks and writes are separate statements | tenant isolation, no escalation, an admin remains, designations exist and have unique names |
| **Workspace** (`project_service.py`, `project_member_service.py`, `feature_service.py`, `feature_member_service.py`, `task_service.py`, `task_assignee.py`) | projects, features, tasks, members, assignees | create, delete, add, remove, assign, move, change dates | parents deleted under children; two updates of one row | a live child has live parents; nobody is added twice but by a race; tasks are moved by those who may; projects end after they start |
| **Discussion**, comments (`discussion_service.py`, `discussion_repository.py`, `comment_service.py`) | comments, read markers | post, edit, delete, mark read, count unread, list pages | both times are transaction starts; messages come and go between pages | a new message is unread; pages miss and repeat nothing |
| **Realtime** (`core/realtime.py`, `discussion_events.py`, `routes/discussion_ws.py`) | sockets by project, events scheduled on the loop | authorize, connect, evict, publish, close, disconnect | event loop against threads, slow clients, a crash after the commit | the cap holds, sockets that miss an event go, what sockets hear agrees with the database |
| **Activities, time logs** (`activity.py`, `activity_assignee.py`, `time_log.py`) | activities, assignees, logged minutes | create, update, delete, assign | as Workspace | as Workspace |
| **Attachments** (`attachment_service.py`, `core/storage.py`) | rows, objects in a bucket, upload URLs | ask for a URL, upload, register, refuse, delete | two stores without a common transaction | a registered file exists and has one registration |
| **Leave** (`leave_log_service.py`, `leave_log_day_repository.py`) | leave logs and their days, in halves | create, reschedule, delete | look-then-insert; updates and deletions of the same leave; time passes | nobody is put on leave twice but by a race; a leave agrees with its days; what has begun stays |
| **Calendar** (`calendar_event_service.py`) | events | create, update, delete | two updates of one event | an event ends after it starts |
| **Rate limiter** (`core/rate_limit.py`, `routes/auth.py`) | failures in a sliding window, by address and email | check, record, reset | check and record are separate critical sections | remembered failures are bounded; a refused client gets in again |
| **Single sign-on** (`sso_service.py`, `sso_connection_services.py`, `core/azure_ad.py`) | connections, their tenant, subjects of accounts, redirects under way | connect, discover the tenant, sign on, synchronise, disconnect | a redirect takes minutes, a callback waits inside its transaction | a known tenant and a suspension are not overwritten |
| **Migrations** (`alembic/`) | the revisions in effect, the schema, the rows | upgrade, downgrade, each a script of DDL | two branches, downgrades, rows written by earlier versions | every script applies; the schema follows from the revisions; rows survive |
| Row level security | database policies | - | - | - |
| Schemas, settings, templates, seeds | none | - | - | - |

The components meet in the database.  Accounts decides who may log in (Sessions)
and who a request acts as (Request transactions, Workspace); Workspace enqueues
email (Outbox) in the transaction that adds a member; the worker shares nothing
with the API but the `email_outbox` table.  Discussion hands its events to
Realtime after the commit, in the same process; who has access comes from
Workspace and is asked once per request or socket.  Attachments hang on the rows
of Workspace; single sign-on makes and activates the users of Accounts; the
migrations make the tables all of them live in, constraints included, on which
several of the properties rest.

## Modules

| Module | What it is |
|---|---|
| `Delivery` | Abstract: what the outbox promises for each email. |
| `Outbox` | The queue and its workers. `MCOutbox` instantiates it. |
| `OutboxProofs` | Theorems about `Outbox`. |
| `Sessions` | Refresh sessions and the accounts behind them. `MCSessions`. |
| `SessionsProofs` | Theorems about `Sessions`. |
| `Orm` | What a request of the API is: shared by the next five. |
| `OrmProofs` | Lemmas about `Orm`, for the proofs about its users. |
| `Accounts` | Users, designations, organizations, on `Orm`. `MCAccounts`. |
| `AccountsProofs` | Theorems about `Accounts`. |
| `Workspace` | Projects, features, tasks, activities, time logs and links, on `Orm`. |
| `Attachments` | Files in the object storage, composed with `Workspace`. `MCWorkspace` instantiates both. |
| `WorkspaceProofs` | Theorems about `Workspace` and `Attachments`. |
| `Timesheet` | Leave and calendar, on `Orm`. `MCTimesheet`. |
| `TimesheetProofs` | Theorems about `Timesheet`. |
| `SingleSignOn` | Connections, redirects and callbacks, composed with `Accounts`. |
| `RateLimiter` | The window of failed logins. `MCSignOn` instantiates this and `SingleSignOn`. |
| `SignOnProofs` | Theorems about `RateLimiter` and `SingleSignOn`. |
| `Discussion` | Messages, read markers, pages, events and sockets of one project. |
| `DiscussionAccess` | Who takes part in it, as members, accounts and the project change; composed with `Discussion`. `MCDiscussion` instantiates both. |
| `DiscussionProofs` | Theorems about `Discussion` and `DiscussionAccess`. |
| `Migrations` | The revisions of the schema as scripts, and the models they should lead to. |

### Outbox

`outbox[e]` is the row of email e; times are ages in ticks of the database clock
(`wait` until next_attempt_at, `age` since locked_at), so that no counter grows
for ever.  A worker is at one of the points of `run()` where something can
happen to it: `claiming` (the rows are locked, the transaction open), `sending`,
`recording`, idle, stopped, dead.  `claim_batch` / `claim_commit` /
`claim_rollback` are `_claim`, `send` is the call of the sender with any outcome,
`record` is `_record` with `mark_sent` or `record_failure`, `record_error` its
failed transaction, `request_shutdown` the signal handler, `stop` the end of the
loop.  `crash` may happen at any point and `restart` is docker's.  `Tick` lets
time pass; with `Punctual` a send takes at most SendTimeout ticks and a record
none.  `tries`, `accepted` and `lost` are history variables: calls of the sender,
acceptances by the provider, and failures that separated a send from its record.

Bounds: `MaxFaults` (crashes and failed transactions), `MaxStops` (signals) and
`Horizon`, beyond which the age of a row makes no difference any more.

### Sessions

A session row is named by its refresh token.  `chain` and `login` are history: the
login a session goes back to, its password if it had one, and whether it found the
account deleted.  A request moves through the statements at which it reads or waits:
`refresh_lock` is the SELECT FOR UPDATE, `update_flush` the moment
`revoke_all_for_user` takes its snapshot and `update_commit` the moment it has got
its locks.  `complete_login` is a sign-on through a provider: it finds its account,
`complete_login_flush` writes the users row and reads it again, `sso_commit` issues
the session.  (`SingleSignOn` has what leads to it; here the provider vouches for the
account at any time.)  A flush waits for another writer of the users row (`UserLocked`);
linking an account to another identity writes a unique column, and the insertion of a
session waits for that (`KeyLocked`).  `MaxPasswords` bounds password changes; `Tokens`
are the tokens that can be generated.

A login or refresh that has checked the account and commits after the snapshot of
`revoke_all_for_user` leaves a session behind, of a suspended or deleted user or
of an old password.  `raced` marks such sessions when they are made
(`Overtaken`), and what their refreshes make of them.  The repository's README
says that refresh sessions are "revoked on refresh, logout, user deletion and
suspension" (`src/README.md:88-89`).  This holds but for these sessions, and but for
those of a provider: `_complete_login` finds an account deleted or not and asks
whether its status is active, which a deletion leaves as it is.  A deleted user who
signs on through the provider therefore gets a live session, without any race.
`LockedOutButByRaceOrSso` says that these two are all, `OldPasswordOnlyByRace` that an
old password keeps only the first.  `_complete_login` does not look at the organization
either.  A session of a locked-out account is of no use until the account is usable
again: `refresh` looks at the account again and revokes it, and `get_current_user`
refuses its requests.  One of an old password remains usable until it expires.

### Orm, Accounts, Workspace

A request authenticates, reads and checks, and commits: three steps, between
which other requests commit.  `write[r]` maps rows to the columns about to be
written; `commit` merges them into `db` if the constraints of the database
(unique and partial unique indexes, checks) allow it, otherwise `rollback`.
Everything a handler reads after authentication is read in one step: PostgreSQL
may show its statements different snapshots, so the model has fewer
interleavings than the code, never more.  User status `invited` behaves as
`suspended` in every check of Accounts and is told apart in SingleSignOn only.
In Workspace and Timesheet the accounts are fixed.

`Scopes` bounds these models: a behaviour chooses one of the sets of requests,
rows and values when it starts (`scope`) and keeps to it, so that one run asks
several questions, each of a size of its own, and their state spaces add up
instead of multiplying.  `Serial` holds in the scopes with one request.  What the
checks of the services achieve by themselves, before races, is stated with
`Serial =>`; what holds however requests interleave, without.

With two requests `NoDanglingDesignation`, `NothingOrphaned`,
`DatesCrossOnlyByRace` and `FilesKept` fail without `Serial`: a designation or
feature can be deleted between the check of a request and its commit, two updates
of a project's dates are each valid on what they read, and two requests register
one key.  Foreign keys do not help, since rows are only soft-deleted.

A link (a membership or an assignment) is looked for and then inserted; `FlushLink`
loads what the request looked at.  That nobody is linked twice is left to the partial
unique indexes of the database when two requests insert the same link: what the services
owe is that only such a race gets as far as the index (`AddedTwiceOnlyByRace`).

Activities and time logs follow the pattern of tasks: `can_write_activity`,
assignment through links, `require_assigned_target` for who may log time.
Attachments adds a bucket that commits nothing and rolls back nothing: the object
that `refuse_attachment` deletes stays deleted.

### Timesheet

A leave is a row of `leave_logs` and one of `leave_log_days` for each of its days,
which is full or one half.  Moments are half days.  `Read` remembers what a
request loaded and when it looked at the clock: an owner may change a leave only
before its first half day begins, admins and managers at any time.  `Constraints`
are those of the tables, among them `excl_leave_logs_no_overlap` of the first
revision, which 202020 does not drop though it says "first + second -> allowed":
two leaves of a user cannot share a day, not even in different halves.

The exclusion constraints alone keep somebody from being on leave twice in the same
half of a day.  What `_ensure_no_overlap` adds is that a request meets them only after a
race: it has looked at the days of every leave of the user (`LeaveDays`), and one of
the two it would bring together has changed since (`DoubleLeaveOnlyByRace`).

Updates that overlap can leave dates and a total that are not those of the days,
and an update that overlaps a deletion can leave days of a deleted leave
(`LeaveDisagreesOnlyByRace` says that this takes a stale read).

The services are modelled, not the schemas in front of them, which at this commit
let no creation or update through: `LeaveLogCreate.check_date_order` reads fields
the schema lacks, and `update_leave_log` reads `payload.days`, which
`LeaveLogUpdate` lacks.  `calendar_events.source_leave_log_id` is never set.

### SingleSignOn, RateLimiter

A redirect is a state (`states`) that stays valid until it expires and may come
back more than once, or after its connection is gone.  `callback` loads the
connection; then the provider answers anything that `decode_id_token` accepts
(`complete_discovery`, `complete_login`), and the transaction commits.  A
connection is deleted for good: a `deleted` row stands for none, and an UPDATE
that finds no row fails.  The account that a first sign-on or a synchronisation
inserts is an employee without designation, which the database refuses: only
users who have an account can sign on, deleted ones too.  Users are deleted and
organizations suspended or deleted by the actions of Accounts.  The client for Google takes no nonce, so
that sign-on through Google always fails.  A directory has one user here: the
synchronisation of several is one transaction, and fails as a whole if one of
them is new.

`RateLimiter` keeps the ages of the failures of one key.  `check`, `record` and
`reset` are the critical sections; a login is in `passed` while the route
compares passwords between them.

### Migrations

A revision is a sequence of statements on objects: types, tables, the columns
that revisions or models differ on, indexes, constraints, foreign keys, policies.
`Run` executes a script as PostgreSQL does: a statement whose object is missing,
exists already or is still referred to ends it with an error, and so does a
constraint that the rows violate; a script takes effect as a whole or not at all.
`serve` is a version of the application that writes rows the schema admits.
`upgrade` and `downgrade` are alembic's, along `down_revision`; both branches that
leave f0ac6e3a3d90 can be taken, in any order.

Indexes have columns and conditions, so that one of the same name on other columns is
another one.  The downgrade of 202020 gives `leave_logs` columns, a check and an index
that were not there before its upgrade, and brings `idx_leave_logs_org_date` back on
(organization_id, leave_date), where ab405c83cdd5 had (organization_id, start_date,
end_date) (`OldLeave`); the upgrade removes them again.  `SchemaFollowsRevisions` allows
exactly this, and the extension and types that no downgrade drops (`Kept`).

### Discussion

A request that writes has three steps: it begins, which fixes now(), and reads; it
commits; it hands its event to the event loop.  The clock advances with every
commit, so that two transactions that overlap may carry the same time and one
that begins after another has committed carries a later one.  `walk` is a client
that fetches the discussion page by page with `next_cursor`; `InOrder` is an ORDER
BY, which leaves rows that compare equal in any order.  `loop` is the queue
of `run_coroutine_threadsafe`, `conns` the manager's list for the project.
`connect` registers and evicts without an await and is one step; the close of
what it evicted is another, which may time out and leave the handler waiting
(`deaf`) until the token expires.  `publish` is the fan-out of one event: any of
the sockets may fail.  `crash` ends requests, loop and sockets.  `view`, `raced`
and `marker` are history.

What the model shows and no document rules out: a message whose transaction
began before a read and commits after it counts as read; two requests of one
user can set the marker back; when requests on one message overlap, sockets may
hear of an edit after the deletion and show the message again (`raced`).

Access is `DiscussionAccess`, which composes the steps of `Discussion` with the
checks in front of them and with what changes access: members are added and removed,
users and the organization are suspended and active again, the project is deleted.
`get_accessible_project` guards the beginning of a post, of a read marker and of a
page, and `open`, the handshake of a socket.  Edits and deletions ask for a usable
account only, as `_get_comment` does: a member who is removed can still edit what it
wrote.  `proceed` is everything that goes on without a check.  A change of access is
one transaction, and of who may make it only what it needs of the user concerned is
here; the rest is in Accounts and Workspace.  `overtaken` is history: the requests and
sockets whose user lost access after the check.  What this shows: nothing tells the
sockets, so that a removed member, and the users of a suspended organization, hear
what is posted until their client leaves or their token expires, although
`is_account_usable` has them "locked out immediately".

## Runs

Every run finishes within three minutes on two cores.

| Run | Question | Result |
|---|---|---|
| `outbox_punctual` | Two workers, two emails, batches that fit into the stale window, two faults and one signal | a processing row is somebody's or stale, exclusion, bounded tries, explained duplicates, refinement of `Delivery` |
| `outbox_slow` | Sends that take any time, faults and a stopped worker, under fairness | the retry budget, the truth of "sent"; every email is settled |
| `sessions` | Two requests on one account, sign-ons through a provider among them | one live session per login; locked-out accounts keep only what raced or what a provider let in, old passwords only what raced; nobody waits in a circle |
| `accounts` | Two requests in one tenant, or one in two | types and employees' designations, designations exist, no escalation, no resurrection, isolation, the last admin is lost only by a race |
| `accounts_last_admin` | Two requests | **violated**: the last admin can go |
| `workspace` | Two requests on projects or on activities; one on moves, dates, time logs, attachments | nobody added twice but by a race, nothing orphaned, moves authorized, dates in order, files kept |
| `workspace_project_tasks` | One request | **violated**: a task in a deleted project |
| `discussion` | Two requests, a paging client, two sockets, crashes; or one request and one socket while access changes | new messages are unread, pages are complete, the cap, sockets agree with the database, strangers take part only if they lost access after the check |
| `timesheet` | Two requests on one leave, on two, or on an event, over two days | slots and times fit, nobody put on leave twice but by a race, leave and days agree but for races, past leave stays |
| `signon` | Callbacks against admins who connect, suspend and delete; three logins in one window, under fairness | settled tenants and suspensions, bounded failures, a refused client is let in again |
| `migrations` | All orders of twelve revisions with eleven kinds of rows | scripts apply, the schema follows from the revisions, rows survive |
| `migrations_models` | The same | **violated**: the schema with every revision is not that of the models |

Why the bounds are enough.  Every interleaving in question is between two actors
over one row or two: two workers, two requests.  Two emails make a batch that is
partly done; MaxAttempts = 2 makes one retry and one failure (a batch is at most
the number of emails, so BatchSize = 2 is the general case).  `RetryBudget` has a
third attempt.  Three tokens make a login and two refreshes of it.  Two
organizations make a tenant boundary; three users make a super admin and two
more; in `MCSessions` at most one of three things is otherwise than at the start, the
organization, an invited account and a changed password (`Few`), since no property is about
two of them; each scope names the roles its question needs, since the others only
multiply the states.  Two messages and pages of one make a page boundary,
also between equal times; two sockets of one user exceed a cap of one.  Access is
about one user and one request or socket, and an admin and a member are the two ways
to have it, so while it changes `MCDiscussion` allows one of each and one message
(`Few`); the clock leaves room for a post and an edit.  The theorems have no such
bound.  Two days
of two halves make leave that has begun and leave that has not, and a total that
changes; sizes 1 to 3 with a limit of 2 make a file that is too large and one that
has another size than declared.  Two connections make one that replaces another,
two tenants a change of tenant.  Three logins pass a check for the last of two
attempts together, and a window of three ticks makes failures of different ages.
Migrations has no bounds: its revisions are all there are, and a row of each kind
that some revision or constraint is about is enough, since a script asks only
whether there is one.

Runs of Orm's models and of Sessions do not check deadlock: with all tokens and rows
used up nothing need be possible any more.  Waiting for each other is
`NoDeadlock`: while requests wait for row locks, some request can go on.

Fairness.  `Outbox!FairSpec`: weak fairness of each worker's own step and of
time: `run()` loops for ever and `docker-compose.yml` restarts the container.
Crashes, failed transactions and signals are never fair.  `signon`: weak fairness
of `tick`, since time passes; nothing is assumed of the clients, which may go on
trying for ever.

## Proofs

The theorems hold for any values of the constants that satisfy the assumptions
named in the modules.  These say what the code and the database give for granted:
tables are disjoint, `None` is no row, users, tasks and days are finitely many.
TLC evaluates them in the runs.  Each theorem of the form `Spec => []Inv` rests on
an inductive invariant, which TLC checked on the instance of the run before it was
proved.

**Outbox** (`OutboxProofs`).

* `TypeCorrect`, `NothingAbandoned`, `RetryBudgetKept`, `SentIsTruthful`, without
  any assumption on time.  `TypeInv` adds to `TypeOK` where in its batch a worker
  can be (`AtStart`); `ProcessingIsHeld` is inductive together with it.
  `BudgetInv` says that the attempts of an unfinished row stay below MaxAttempts
  and that a worker about to record success holds an email the provider accepted.
* `NoCollision`.  Under `BatchFits` (punctual sends and
  BatchSize * SendTimeout < StaleAfter) the invariant `ExclusionInv` bounds the
  age of every row a worker still has to record by the time its sends can have
  taken so far: the row is therefore not stale, and a claim cannot take it.
* `TriesBounded`, `DuplicatesAreExplained` and the refinement
  `OutboxImplementsDelivery`.  `CountInv` relates the history to the rows: the
  calls of the sender are the attempts recorded, plus the one in hand, plus the
  ones lost.  It needs exclusion: without it two workers record one send each.

`BatchFits` is an assumption the code does not enforce: a batch of ten sends, each
bounded per socket operation only, can take longer than the stale window, and then
a second worker claims what the first is still to send, although `claim_batch`
says "SKIP LOCKED so workers never collide" (its locks end with the commit, before
the first send).  `outbox_slow` is about this case.

An email can be sent more often than `OUTBOX_MAX_ATTEMPTS`: once more for every
crash or failed transaction between a send and its record.  `BoundedTries` says
that this is all.

**Sessions** (`SessionsProofs`), for any sets of requests and tokens.  `LockInv`:
one request holds the lock of a session, a refresh holds a session that is not
revoked, and chains are those of logins that were issued.  `ChainInv` adds
`AtMostOneLive`; `RaceInv` adds `Overlooked`: a session that an update in progress
will not revoke is one that a login or refresh has made behind its snapshot, and
these are marked `raced`.  For sign-ons through a provider it needs two facts more: the
users row has one writer at a time (`OneWriter`), and once a sign-on has written it, the
account is as it was read after that (`Rechecked`), so that it is suspended or deleted
only after its session is there to be revoked.  Theorems: `LocksHeld`, `SessionsTyped`,
`OneLiveSession`, `LockedOut`, `OldPasswordsEnd`, and `LocksOrdered`
(`NoDeadlock`: an update holds the users row before it waits for sessions, and who holds
a session waits for nothing but the commit of a sign-on, which waits for nothing).

**Orm** (`OrmProofs`) has the lemmas that its users cite: what `Flush` and `Done` do
to the sessions of the requests, which columns `Changes` has, and that a commit
merges them into the rows it writes and leaves the others alone.

**Accounts** (`AccountsProofs`).  `AccountsInv` holds however requests interleave:
rows are well formed, a write is one its request is authorized to make, a row that
was loaded is still there and of the same organization, employees are designated.  `SerialInv` adds, for
scopes with one request, that what it is about to write leaves designations and
admins in order: nothing has changed since it checked.  Theorems: `AccountsTyped`,
`RowsStayDeleted`, `OnlySuperAdminsPromote`, `TenantsIsolated`,
`DesignationsStayAssigned`, `LastAdminLost`.

**Workspace and Attachments** (`WorkspaceProofs`).  `WorkInv`: rows, references
and writes are well formed, and two requests do not insert the same row.
`SerialInv`: the database, and the database as the request is about to leave it,
have live parents (`FeaturesIn`, `TasksIn`), dates in order and existing files,
and a move stays in a project.  Theorems: `WorkTyped`, `NothingLeftBehind`,
`DatesInOrder`, `FilesStay`, `MovesWithinProjects`, and `AddedTwiceByRace`.  This one
holds however requests interleave, by `LinksLooked`: a request that inserts a link has
looked at the links and found no live one of the same user and target, or inserts the
project as well.

**Timesheet** (`TimesheetProofs`).  `TimeInv` has four parts.  Rows fit, days of
leave included.  A write fits every row it may be merged into: portion, half and
slot are written together or the check of the table refuses what results.  Days
that have begun are written by those who may schedule.  A request either inserts a
leave or has read it with all its days and expects to leave both in agreement;
what it read is what the database holds, or `LeaveDisagreesOnlyByRace` allows the
difference.  `FreeInv` says of a request that writes days of leave that they overlap none
of the days it has loaded (`Free`), whose owner is that of the leave (`DaysOwned`,
`OwnersOK`): what it meets at the commit is therefore something else.  Theorems:
`TimesheetInvariant`, `TimesheetTyped`, `WritesAreFree`, `DoubleLeaveByRace`,
`LeaveAgreesWithDays`, `BegunLeaveStays`.  That the first and
last day of a leave exist (`FirstOf`, `LastOf`) follows from the order of the
naturals being well-founded.

**RateLimiter** (`SignOnProofs`), for any finite set of logins and any
settings: `FailuresBounded`.  `HitsBounded` is not inductive: a login that has
passed `check` may still record.  `PlacesTaken` counts it among the failures: their
number and that of the logins in `passed` together stay below max_attempts plus
the number of logins, since a login joins `passed` only when fewer than
max_attempts failures are left.

**SingleSignOn** (`SignOnProofs`), for any connections, tenants, accounts and number
of callbacks: `SettledLost`.  `SignOnInv` says that rows keep the columns of their
tables, that a callback for a tenant has loaded its connection, and that what a
callback is about to update was `Unsettled` when it was loaded: a connection without
tenant, or an account whose status changes only if it was invited.  Nothing can be
said of the row in the database at that time, which an admin may have settled; the
property allows just this.  The tables are assumed disjoint, and a redirect's state
is not a user.

**Discussion** (`DiscussionProofs`), for any numbers of users, requests, sockets and
messages.

* `RequestInv`: what a request knows is still so when it commits, its time is not
  in the future, and a message that is not in `raced` is in the hands of one
  request at a time; read markers are behind the clock.  From this
  `NewMessagesUnread`.
* `SocketInv`, of which `TypeOK` is a part: the list of sockets holds each open
  socket once, and no more of one user than the cap; an event on its way is of a
  committed message.  `RoomForOne`: after the eviction there is room for one more.
  `DiscussionTyped`.
* `HeardInv`, of each message two requests did not overlap on: what a request is
  about to publish agrees with the database; if there is no such request, the last
  event of the message in the loop does; and if there is none either, what a
  registered socket heard last.  From this `SocketsAgree`.
* `WalkInv`: what the client has got is not below its cursor, and what was there
  from the first page and is not below the cursor is what it has got.  A page
  (`Page`) is all rows below the cursor, or those down to its last, and no two keys
  are equal, so that the next cursor divides what is left (`ListStep`); what others
  post or delete in between does not move a key (`RowsStay`).  From this
  `PagesAreComplete`.

**DiscussionAccess** (`DiscussionProofs`), for any organization whose requests and
sockets are told apart.  `AccessImplementsDiscussion`: each step is one of
`Discussion` or changes access only, so that every theorem about `Discussion` holds
while access changes (`AccessKeepsDiscussion`).  `StrangersRaced` is inductive
together with the types of `Discussion`: what goes on without a check begins no
request and opens no socket (`NothingNew`), and what takes access away leaves its
mark on those it overtakes.

The order of pages and of the list of sockets is stated by `InOrder`, of which
`OrderExists` proves by well-founded induction over finite sets that there is one
for every strict order.

**Only model-checked**: liveness (`EventuallySettled`, `LetInAgain`), which is out
of the prover's reach, and Migrations, which has no constants, so that its run is
already the general case.

## Plan

The parts of the plan are built.  What could be added:

1. Expiry of access tokens, to bound in time how long a socket outlives the access of
   its user.
2. Roles that change in DiscussionAccess: admins stay admins here.

## Not modelled

* Names, descriptions and status of projects, features and tasks, which no
  operation depends on (`update_feature`, and these columns of `update_project`
  and `update_task`), the dates of tasks, and the leave check of
  `create_assignee`.
* `create_comment`: it passes `activity_id`, which the model class does not have,
  and cannot succeed at this commit.
* What row level security lets a statement see: policies evaluated inside
  PostgreSQL.  Migrations has which tables have one.
* The protocols with identity providers, SMTP and the object storage beyond their
  outcomes; cryptography; the wording of emails and errors.
* Schemas, settings, templates and seeds, which keep no state; listings, except the
  pages of a discussion.

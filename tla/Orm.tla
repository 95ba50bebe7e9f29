----------------------------------- MODULE Orm -----------------------------------
(***************************************************************************)
(* How a request of the API meets the database: core/database.py,          *)
(* base_repository.py and the commit at the end of every route.            *)
(*                                                                         *)
(* A request runs in one READ COMMITTED transaction, in three steps: it    *)
(* authenticates its caller, it reads and checks, and it writes and        *)
(* commits.  Between the steps other requests commit.  Its ORM session     *)
(* keeps the rows it has loaded, and writes back only the columns whose    *)
(* value was changed.                                                      *)
(***************************************************************************)
EXTENDS Naturals, FiniteSets

CONSTANTS Requests,       \* requests being served at the same time
          None,           \* SQL NULL
          Scopes          \* bounds: sets of requests, rows and values to use together

VARIABLES db,       \* the committed rows, soft-deleted ones included, by primary key
          caller,   \* the user a request was authenticated as
          loaded,   \* the rows in a request's session
          write,    \* the columns a request is about to write, by row
          scope     \* the bound that this behaviour keeps to

vars == <<db, caller, loaded, write, scope>>

\* Functions as TLC's module writes them, with definitions to reason from.
x :> y == [z \in {x} |-> y]
f @@ g == [x \in DOMAIN f \union DOMAIN g |-> IF x \in DOMAIN f THEN f[x] ELSE g[x]]

\* What this behaviour uses of a set.
Used(S) == S \intersect scope

\* One request at a time.
Serial == \E r \in Requests : Used(Requests) = {r}

Absent == [exists |-> FALSE]

Nothing == [x \in {} |-> None]

Idle == /\ caller = [r \in Requests |-> None]
        /\ loaded = [r \in Requests |-> Nothing]
        /\ write = [r \in Requests |-> Nothing]
        /\ scope \in Scopes

\* A row that exists and is not soft-deleted.
Live(row) == row.exists /\ ~row.deleted

Present(x) == Live(db[x])

\* db.get: the row as this session first saw it.
Loaded(r, x) == IF x \in DOMAIN loaded[r] THEN loaded[r][x] ELSE db[x]

\* The caller's row.
Me(r) == loaded[r][caller[r]]

\* A fresh primary key.
NewId(x) == ~db[x].exists /\ \A r \in Requests : x \notin DOMAIN write[r]

\* As if every column of a row that was touched were written back.
Changes_all(row, new) ==
  [f \in DOMAIN row \ {"exists"} |-> IF f \in DOMAIN new THEN new[f] ELSE row[f]]

\* The columns whose value differs from the one that was loaded.
Changes(row, new) ==
  LET changed == {f \in DOMAIN new : new[f] # row[f]} IN [f \in changed |-> new[f]]

\* The rows that the session will write.
Flush(r, rows) == /\ write' = [write EXCEPT ![r] = rows]
                  /\ UNCHANGED <<db, caller, loaded>>

\* The database as it will be when request r has committed.
Written(r) == [x \in DOMAIN db |-> IF x \in DOMAIN write[r] THEN write[r][x] @@ db[x]
                                   ELSE db[x]]

\* The rows that request r inserts.
Inserted(r) == {x \in DOMAIN write[r] : "exists" \in DOMAIN write[r][x]}

\* The session is closed.
Done(r) == /\ caller' = [caller EXCEPT ![r] = None]
           /\ loaded' = [loaded EXCEPT ![r] = Nothing]
           /\ write' = [write EXCEPT ![r] = Nothing]

\* A soft-deleted row stays deleted, whatever requests that loaded it before
\* write to it afterwards.
DeletedForGood ==
  [][\A x \in DOMAIN db : (db[x].exists /\ db[x].deleted) => (db'[x].exists /\ db'[x].deleted)]_db
===============================================================================

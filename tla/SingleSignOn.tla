------------------------------ MODULE SingleSignOn ------------------------------
(***************************************************************************)
(* Single sign-on: the connections of organizations to identity providers  *)
(* (sso_connection_services.py), and the two redirects through a provider  *)
(* that find out an organization's tenant and that sign a user on          *)
(* (sso_service.py), composed with Accounts.                               *)
(*                                                                         *)
(* A redirect carries a signed state for ten minutes.  In the meantime the *)
(* connection may be deleted, made again or configured, the account        *)
(* suspended or deleted, and the organization too, which no sign-on looks  *)
(* at; a callback waits for the provider in the middle of its transaction. *)
(* What a sign-on means for the sessions of an account is in Sessions.     *)
(***************************************************************************)
EXTENDS Accounts

CONSTANTS Connections,    \* sso_connections rows
          Tenants,        \* tenants of Azure AD
          Subjects,       \* identities that a provider vouches for
          Sessions,       \* sessions rows
          Admin           \* the admin of the first organization

Statuses == {"active", "suspended", "invited"}

ASSUME SsoAssumption ==
  /\ Admin \in Users \ {Root}
  /\ None \notin Tenants \union Subjects \union Statuses
  /\ Tenants \intersect Statuses = {}
  /\ Connections \intersect (Rows \union Sessions) = {} /\ Sessions \intersect Rows = {}

VARIABLE states     \* the states of redirects that have not expired

NewConnection(o, provider) == [exists |-> TRUE, deleted |-> FALSE, organization_id |-> o,
                               provider |-> provider, tenant_id |-> None]

NewAccount(o, role, s) == NewUser(o, role, None) @@ [sso_subject_id |-> s]

NewSession(u) == [exists |-> TRUE, deleted |-> FALSE, user |-> u]

\* A redirect's state, which stands for the caller of the callback.
Login(o) == [purpose |-> "login", of |-> o]
Discover(c) == [purpose |-> "discover", of |-> c]
State == {Login(o) : o \in Orgs} \union {Discover(c) : c \in Connections}

ASSUME CallerAssumption == State \intersect (Users \union {None}) = {}

\* An organization has its admin; some of the other users are known, but have not
\* signed on yet.
SsoInit ==
  /\ Idle
  /\ \E o \in Used(Orgs), known \in SUBSET (Used(Users) \ {Root}) :
       db = [x \in UNION {Rows, Connections, Sessions} |->
               CASE x = Root -> NewAccount(None, "super_admin", None)
                 [] x \in Orgs -> NewOrg
                 [] x = Admin -> NewAccount(o, "admin", None)
                 [] x \in known -> [NewAccount(o, "manager", None) EXCEPT !.status = "invited"]
                 [] OTHER -> Absent]
  /\ states = {}

-------------------------------------------------------------------------------
(* sso_connection_services.py                                              *)

\* A request of an admin, and not a callback.
ServingAdmin(r) == caller[r] \in Users /\ Serving(r)

\* A connection is deleted for good: a deleted row stands for none.
get_connection_by_org_id(o) == {c \in Connections : Present(c) /\ db[c].organization_id = o}

resolve_organization_id(r, o) == IF IsSuper(r) THEN o # None ELSE o = Me(r).org /\ o # None

create_connection(r, c, o, provider) ==
  /\ ServingAdmin(r)
  /\ resolve_organization_id(r, o)
  /\ get_connection_by_org_id(o) = {}
  /\ NewId(c)
  /\ Flush(r, c :> NewConnection(o, provider))
  /\ UNCHANGED states

delete_connection(r, c) ==
  /\ ServingAdmin(r)
  /\ Present(c)
  /\ assert_same_organization(r, db[c].organization_id)
  /\ Flush(r, c :> [deleted |-> TRUE])
  /\ UNCHANGED states

\* The account that a subject or, failing that, an email names, deleted or not;
\* not by an email of another organization.
Matching(s, u, o) ==
  LET linked == {v \in Users : db[v].exists /\ db[v].sso_subject_id = s}
  IN  IF linked # {} THEN linked
      ELSE {v \in {u} : db[v].exists /\ db[v].org \in {None, o}}

\* sync_users, of a directory with the one user s, u; only Azure AD has one, and
\* only a tenant's can be read.
sync_users(r, c, s, u) ==
  /\ ServingAdmin(r)
  /\ Present(c)
  /\ assert_same_organization(r, db[c].organization_id)
  /\ db[c].provider = "azure_ad" /\ db[c].tenant_id # None
  /\ LET o == db[c].organization_id IN
     \/ \E v \in Matching(s, u, o) :
          /\ db[v].sso_subject_id # s
          /\ Flush(r, v :> [sso_subject_id |-> s])
     \/ /\ Matching(s, u, o) = {}
        /\ ~db[u].exists
        /\ Flush(r, u :> NewAccount(o, "employee", s))
  /\ UNCHANGED states

-------------------------------------------------------------------------------
(* sso_service.py                                                          *)

\* Azure AD needs to know the tenant.
Configured(row) == row.provider = "azure_ad" => row.tenant_id # None

\* authorize, on the host of an organization.
authorize(o) ==
  /\ \E c \in get_connection_by_org_id(o) : Configured(db[c])
  /\ states' = states \union {Login(o)}
  /\ UNCHANGED vars

authorize_discovery(r, c) ==
  /\ ServingAdmin(r)
  /\ Present(c)
  /\ assert_same_organization(r, db[c].organization_id)
  /\ db[c].provider = "azure_ad"
  /\ states' = states \union {Discover(c)}
  /\ Done(r)
  /\ UNCHANGED db

\* After LOGIN_STATE_EXPIRE_MINUTES or DISCOVERY_STATE_EXPIRE_MINUTES.
expire(s) == /\ s \in states
             /\ states' = states \ {s}
             /\ UNCHANGED vars

\* callback: the connection is read, and the provider asked.
callback(r, s) ==
  /\ caller[r] = None
  /\ s \in states
  /\ \E c \in IF s.purpose = "discover" THEN {d \in Connections : d = s.of /\ Present(d)}
              ELSE {d \in get_connection_by_org_id(s.of) : Configured(db[d])} :
       loaded' = [loaded EXCEPT ![r] = c :> db[c]]
  /\ caller' = [caller EXCEPT ![r] = s]
  /\ UNCHANGED <<db, write, states>>

\* The provider's answer is awaited, in a callback for this purpose.
Answered(r, purpose) == /\ caller[r] \in State
                        /\ caller[r].purpose = purpose
                        /\ write[r] = Nothing

\* A client that takes the tokens of every tenant.
decode_id_token_any(row, t) == row.provider = "azure_ad"

\* The tenant t of a token suits the client made for the connection.  The client
\* for Google takes no nonce, and every call of it fails.
decode_id_token(row, t) ==
  /\ row.provider = "azure_ad"
  /\ row.tenant_id \in {None, t}

complete_discovery(r, t) ==
  /\ Answered(r, "discover")
  /\ \E c \in DOMAIN loaded[r] :
       /\ decode_id_token(loaded[r][c], t)
       /\ loaded[r][c].tenant_id # t
       /\ Flush(r, c :> [tenant_id |-> t])
  /\ UNCHANGED states

\* The account is loaded; the session of issue_tokens goes with its changes.
SignOn(r, v, new, n) ==
  /\ loaded' = [loaded EXCEPT ![r] = v :> db[v] @@ @]
  /\ write' = [write EXCEPT ![r] = n :> NewSession(v)
                                    @@ (IF new = Nothing THEN Nothing ELSE v :> new)]
  /\ UNCHANGED <<db, caller>>

\* complete_login for the claims s, u and t; the commit looks at the status of an
\* account that was changed.
complete_login(r, s, u, t, n) ==
  /\ Answered(r, "login")
  /\ NewId(n)
  /\ \E c \in DOMAIN loaded[r] : decode_id_token(loaded[r][c], t)
  /\ \/ \E v \in Matching(s, u, caller[r].of) :
          LET row == db[v]
              status == IF row.status = "invited" THEN "active" ELSE row.status
              new == Changes(row, [sso_subject_id |-> s, status |-> status])
          IN  /\ new = Nothing => row.status = "active"
              /\ SignOn(r, v, new, n)
     \/ /\ Matching(s, u, caller[r].of) = {}
        /\ SignOn(r, u, NewAccount(caller[r].of, "employee", s), n)
  /\ UNCHANGED states

-------------------------------------------------------------------------------
(* The database                                                            *)

\* An UPDATE finds its row; one connection per organization, one account per
\* subject; and an account that was changed is active when it is read again.
SsoConstraints(r, new) ==
  /\ Constraints(r, new)
  /\ \A c \in DOMAIN write[r] \intersect Connections :
       c \in Inserted(r) \/ "deleted" \in DOMAIN write[r][c] \/ Present(c)
  /\ \A c, d \in Connections : c # d /\ Live(new[c]) /\ Live(new[d])
       => new[c].organization_id # new[d].organization_id
  /\ \A u, v \in Users : u # v /\ new[u].exists /\ new[v].exists
       => new[u].sso_subject_id = None \/ new[u].sso_subject_id # new[v].sso_subject_id
  /\ \A n \in DOMAIN write[r] \intersect Sessions :
       new[n].user \in DOMAIN write[r] => new[new[n].user].status = "active"

sso_commit(r) == /\ write[r] # Nothing
                 /\ SsoConstraints(r, Written(r))
                 /\ db' = Written(r)
                 /\ Done(r)
                 /\ UNCHANGED states

sso_rollback(r) == /\ caller[r] # None
                   /\ write[r] = Nothing \/ ~SsoConstraints(r, Written(r))
                   /\ Done(r)
                   /\ UNCHANGED <<db, states>>

SsoNext ==
  \/ \E r \in Used(Requests) :
       \/ \E u \in Used(Users) : authenticate(r, u) /\ UNCHANGED states
       \/ \E u \in Used(Users), status \in Statuses :
            /\ ServingAdmin(r) /\ db[u].exists
            /\ \/ update_user(r, u, db[u].role, status, db[u].designation)
               \/ delete_user(r, u)
            /\ UNCHANGED states
       \/ \E o \in Used(Orgs), status \in {"active", "suspended"} :
            /\ ServingAdmin(r)
            /\ update_organization(r, o, status) \/ delete_organization(r, o)
            /\ UNCHANGED states
       \/ \E c \in Used(Connections) :
            \/ \E o \in Used(Orgs), provider \in {"azure_ad", "google"} :
                 create_connection(r, c, o, provider)
            \/ delete_connection(r, c)
            \/ \E s \in Used(Subjects), u \in Used(Users) : sync_users(r, c, s, u)
            \/ authorize_discovery(r, c)
       \/ \E s \in State : callback(r, s)
       \/ \E t \in Used(Tenants) : complete_discovery(r, t)
       \/ \E s \in Used(Subjects), u \in Used(Users), t \in Used(Tenants), n \in Used(Sessions) :
            complete_login(r, s, u, t, n)
       \/ sso_commit(r)
       \/ sso_rollback(r)
  \/ \E o \in Used(Orgs) : authorize(o)
  \/ \E s \in State : expire(s)

SsoSpec == SsoInit /\ [][SsoNext /\ UNCHANGED scope]_<<vars, states>>

-------------------------------------------------------------------------------
(* Properties                                                              *)

\* What is settled: the tenant of a connection once it is known, the suspension
\* of an account.
Settlement(row) == IF "tenant_id" \in DOMAIN row THEN row.tenant_id ELSE row.status

Settled(row) == Settlement(row) \in Tenants \union {"suspended"}

\* "If this connection is already pinned to a specific tenant, refuse any token
\* that came from a different tenant", and a sign-on makes only invited accounts
\* active: a callback changes what is settled only if it had loaded the row
\* before it was.
SettledLostOnlyByRace ==
  [][\A r \in Requests : caller[r] \in State /\ db' = Written(r) =>
       \A x \in DOMAIN write[r] \ Inserted(r) :
         Settled(db[x]) /\ Settlement(db'[x]) # Settlement(db[x])
           => ~Settled(loaded[r][x])]_vars
===============================================================================

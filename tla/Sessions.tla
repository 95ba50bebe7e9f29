-------------------------------- MODULE Sessions --------------------------------
(***************************************************************************)
(* Refresh sessions and the accounts they belong to: auth_service.py,      *)
(* session_repository.py, the transactions of routes/auth.py, sign-on      *)
(* through a provider included (sso_service.py), and what user_service.py  *)
(* and organization_service.py do to the accounts.                         *)
(*                                                                         *)
(* Every request runs in its own READ COMMITTED transaction: a statement   *)
(* sees what was committed when it started, a row lock lasts until the     *)
(* commit, and the writes of a transaction appear with its commit.  The    *)
(* steps of a request below are its statements that read or wait.  A       *)
(* request that is refused leaves everything as it was and is no step.     *)
(***************************************************************************)
EXTENDS Naturals, FiniteSets

CONSTANTS Users,          \* accounts of one organization
          Tokens,         \* refresh tokens that can be generated
          Requests,       \* requests being served at the same time
          None,           \* no account or token: the request needs none yet
          MaxPasswords    \* bound on password changes per account

ASSUME SessionsAssumption ==
  /\ None \notin Users \union Tokens
  /\ MaxPasswords \in Nat

VARIABLES account,   \* the users table
          org,       \* status of the organization
          session,   \* the sessions table, by refresh token
          pc,        \* what each request does next
          user,      \* the account the request works on
          token,     \* the refresh token the request works on
          snapshot,  \* the sessions revoke_all_for_user saw when it started
          login      \* what the login of a request went by

vars == <<account, org, session, pc, user, token, snapshot, login>>

Account == [status : {"active", "suspended", "invited"}, deleted : BOOLEAN,
            password : Nat]

\* The password a login was checked against, None for a sign-on through a
\* provider, and whether the account was already deleted.
Login == [password : Nat \union {None}, deleted : BOOLEAN]

NoLogin == [password |-> None, deleted |-> FALSE]

\* A row of the sessions table: revoked_at is set in "revoked" rows, expires_at
\* has passed in "expired" ones, a token without a row is "unused".  The rest
\* is history: the login the row goes back to, the one among these that came
\* first (chain), and whether the login or a refresh since was overtaken by a
\* change of the account.
Session == [state : {"unused", "live", "expired", "revoked"},
            user : Users \union {None}, chain : Tokens \union {None}, login : Login,
            raced : BOOLEAN]

Unused == [state |-> "unused", user |-> None, chain |-> None, login |-> NoLogin,
           raced |-> FALSE]
Revoked(row) == [row EXCEPT !.state = "revoked"]

Init == /\ account = [u \in Users |->
                        [status |-> "active", deleted |-> FALSE, password |-> 0]]
        /\ org = "active"
        /\ session = [t \in Tokens |-> Unused]
        /\ pc = [r \in Requests |-> "idle"]
        /\ user = [r \in Requests |-> None]
        /\ token = [r \in Requests |-> None]
        /\ snapshot = [r \in Requests |-> {}]
        /\ login = [r \in Requests |-> NoLogin]

-------------------------------------------------------------------------------
(* Reads                                                                   *)

is_account_usable(u) == /\ ~account[u].deleted
                        /\ account[u].status = "active"
                        /\ org = "active"

Issued(t) == session[t].state # "unused"

Unrevoked(t) == session[t].state \in {"live", "expired"}

\* _get_active_session
Active(t) == session[t].state = "live"

\* As if logout read its row with a share lock and upgraded it to write.
LockedIncludingReaders(t, r) ==
  \E q \in Requests \ {r} :
    /\ pc[q] \in {"refresh_user", "refresh_commit", "refresh_revoke", "logout_write"}
    /\ token[q] = t

\* The rows a refresh holds FOR UPDATE against request r.
Locked(t, r) == \E q \in Requests \ {r} :
                  /\ pc[q] \in {"refresh_user", "refresh_commit", "refresh_revoke"}
                  /\ token[q] = t

Updating == {"suspend", "invite", "activate", "change_password", "rename", "delete"}

\* A sign-on through a provider that has written the users row.
SigningOn == {"linked", "activated"}

\* The users row that another request has written and not committed.
UserLocked(u, r) ==
  \E q \in Requests \ {r} : pc[q] \in Updating \union SigningOn /\ user[q] = u

\* Its unique column sso_subject_id is written: rows that refer to it wait.
KeyLocked(u, r) == \E q \in Requests \ {r} : pc[q] = "linked" /\ user[q] = u

Goto(r, step) == pc' = [pc EXCEPT ![r] = step]

Done(r) == /\ pc' = [pc EXCEPT ![r] = "idle"]
           /\ user' = [user EXCEPT ![r] = None]
           /\ token' = [token EXCEPT ![r] = None]
           /\ snapshot' = [snapshot EXCEPT ![r] = {}]
           /\ login' = [login EXCEPT ![r] = NoLogin]

-------------------------------------------------------------------------------
(* routes/auth.py                                                          *)

\* A login for an email nobody has, let through.
login_check_unknown(r, u) ==
  /\ pc[r] = "idle"
  /\ is_account_usable(u)
  /\ Goto(r, "login_commit")
  /\ login' = [login EXCEPT ![r] = [password |-> account[u].password, deleted |-> FALSE]]
  /\ UNCHANGED <<account, org, session, user, token, snapshot>>

\* AuthService.login up to issue_tokens: the password and the account are fine.
login_check(r, u) ==
  /\ pc[r] = "idle"
  /\ is_account_usable(u)
  /\ Goto(r, "login_commit")
  /\ user' = [user EXCEPT ![r] = u]
  /\ login' = [login EXCEPT ![r] = [password |-> account[u].password, deleted |-> FALSE]]
  /\ UNCHANGED <<account, org, session, token, snapshot>>

\* The account is not the one that the login went by any more, or is being
\* changed by a request whose revoke_all_for_user has started.
Overtaken(u, lg) == \/ account[u].deleted /\ ~lg.deleted
                    \/ account[u].status # "active"
                    \/ lg.password \notin {None, account[u].password}
                    \/ \E q \in Requests : pc[q] \in Updating \ {"activate"} /\ user[q] = u

NewSession(u, chain, lg, raced) ==
  [state |-> "live", user |-> u, chain |-> chain, login |-> lg, raced |-> raced]

\* issue_tokens and the commit.
login_commit(r) ==
  /\ pc[r] = "login_commit"
  /\ ~KeyLocked(user[r], r)
  /\ \E t \in Tokens :
       /\ ~Issued(t)
       /\ session' = [session EXCEPT
                        ![t] = NewSession(user[r], t, login[r], Overtaken(user[r], login[r]))]
  /\ Done(r)
  /\ UNCHANGED <<account, org>>

\* A refresh that reads its session without FOR UPDATE.
refresh_lock_missing(r, t) ==
  /\ pc[r] = "idle"
  /\ Active(t)
  /\ Goto(r, "refresh_user")
  /\ token' = [token EXCEPT ![r] = t]
  /\ UNCHANGED <<account, org, session, user, snapshot, login>>

\* SELECT ... FOR UPDATE of the session, which waits for the holder.
refresh_lock(r, t) ==
  /\ pc[r] = "idle"
  /\ ~Locked(t, r)
  /\ Active(t)
  /\ Goto(r, "refresh_user")
  /\ token' = [token EXCEPT ![r] = t]
  /\ UNCHANGED <<account, org, session, user, snapshot, login>>

refresh_user(r) ==
  /\ pc[r] = "refresh_user"
  /\ IF is_account_usable(session[token[r]].user)
     THEN Goto(r, "refresh_commit") ELSE Goto(r, "refresh_revoke")
  /\ UNCHANGED <<account, org, session, user, token, snapshot, login>>

\* revoke, issue_tokens, commit.
refresh_commit(r) ==
  /\ pc[r] = "refresh_commit"
  /\ ~KeyLocked(session[token[r]].user, r)
  /\ \E t \in Tokens :
       /\ ~Issued(t)
       /\ LET old == session[token[r]]
          IN  session' = [session EXCEPT
                            ![token[r]] = Revoked(@),
                            ![t] = NewSession(old.user, old.chain, old.login,
                                              old.raced \/ Overtaken(old.user, old.login))]
  /\ Done(r)
  /\ UNCHANGED <<account, org>>

\* The account is unusable: the revocation is committed, then 401.
refresh_revoke(r) ==
  /\ pc[r] = "refresh_revoke"
  /\ session' = [session EXCEPT ![token[r]] = Revoked(@)]
  /\ Done(r)
  /\ UNCHANGED <<account, org>>

\* logout reads the session without a lock ...
logout_read(r, t) ==
  /\ pc[r] = "idle"
  /\ Active(t)
  /\ Goto(r, "logout_write")
  /\ token' = [token EXCEPT ![r] = t]
  /\ UNCHANGED <<account, org, session, user, snapshot, login>>

\* ... and its UPDATE waits for whoever holds the row.
logout_write(r) ==
  /\ pc[r] = "logout_write"
  /\ ~Locked(token[r], r)
  /\ session' = [session EXCEPT ![token[r]] = Revoked(@)]
  /\ Done(r)
  /\ UNCHANGED <<account, org>>

-------------------------------------------------------------------------------
(* sso_service.py: _complete_login                                         *)

\* The account a provider vouches for is read, deleted or not; nothing is to be
\* written, or its status, or the identity that it is linked to.
complete_login(r, u, step) ==
  /\ pc[r] = "idle"
  /\ CASE account[u].status = "invited" -> step = "activate_flush"
       [] account[u].status = "active"  -> step \in {"sso_commit", "link_flush"}
       [] OTHER                         -> step = "link_flush"
  /\ Goto(r, step)
  /\ user' = [user EXCEPT ![r] = u]
  /\ login' = [login EXCEPT ![r] = [password |-> None, deleted |-> account[u].deleted]]
  /\ UNCHANGED <<account, org, session, token, snapshot>>

\* The flush waits for the users row, which refresh then reads again; a status
\* that is not active is refused.
complete_login_flush(r) ==
  /\ pc[r] \in {"link_flush", "activate_flush"}
  /\ ~UserLocked(user[r], r)
  /\ IF pc[r] = "activate_flush" \/ account[user[r]].status = "active"
     THEN /\ Goto(r, IF pc[r] = "activate_flush" THEN "activated" ELSE "linked")
          /\ login' = [login EXCEPT ![r].deleted = account[user[r]].deleted]
          /\ UNCHANGED <<user, token, snapshot>>
     ELSE Done(r)
  /\ UNCHANGED <<account, org, session>>

\* issue_tokens and the commit of sso_callback.
sso_commit(r) ==
  /\ pc[r] \in {"sso_commit"} \union SigningOn
  /\ pc[r] = "sso_commit" => ~KeyLocked(user[r], r)
  /\ account' = IF pc[r] = "activated"
                THEN [account EXCEPT ![user[r]].status = "active"] ELSE account
  /\ \E t \in Tokens :
       /\ ~Issued(t)
       /\ session' = [session EXCEPT ![t] = NewSession(user[r], t, login[r],
                                   pc[r] = "sso_commit" /\ Overtaken(user[r], login[r]))]
  /\ Done(r)
  /\ UNCHANGED org

-------------------------------------------------------------------------------
(* user_service.py and organization_service.py                             *)

\* An administrator suspends, reactivates, invites again, renames or deletes the
\* account, or its owner changes the password: read and checked here, written in
\* update_flush.
\* (Renaming an active account touches nothing modelled here.)
update_read(r, u, change) ==
  /\ pc[r] = "idle"
  /\ ~account[u].deleted
  /\ \/ change = "read_suspend" /\ account[u].status # "suspended"
     \/ change = "read_invite" /\ account[u].status # "invited"
     \/ change \in {"read_activate", "read_rename"} /\ account[u].status # "active"
     \/ change = "read_delete"
     \/ /\ change = "read_change_password"
        /\ account[u].password < MaxPasswords
        /\ is_account_usable(u)
  /\ Goto(r, change)
  /\ user' = [user EXCEPT ![r] = u]
  /\ UNCHANGED <<account, org, session, token, snapshot, login>>

Flushed == [c \in {"read_suspend", "read_invite", "read_activate", "read_rename",
                    "read_delete", "read_change_password"} |->
              CASE c = "read_suspend" -> "suspend"
                [] c = "read_invite" -> "invite"
                [] c = "read_activate" -> "activate"
                [] c = "read_rename" -> "rename"
                [] c = "read_delete" -> "delete"
                [] c = "read_change_password" -> "change_password"]

\* Sessions are revoked only when the account is deleted.
update_flush_only_delete(r) ==
  /\ pc[r] \in DOMAIN Flushed
  /\ ~UserLocked(user[r], r)
  /\ snapshot' = [snapshot EXCEPT ![r] =
                    IF pc[r] = "read_delete"
                    THEN {t \in Tokens : Unrevoked(t) /\ session[t].user = user[r]} ELSE {}]
  /\ Goto(r, Flushed[pc[r]])
  /\ UNCHANGED <<account, org, session, user, token, login>>

\* The users row is written (and locked), then revoke_all_for_user starts: it
\* will revoke the sessions it sees now.
update_flush(r) ==
  /\ pc[r] \in DOMAIN Flushed
  /\ ~UserLocked(user[r], r)
  /\ snapshot' = [snapshot EXCEPT ![r] =
                    IF pc[r] = "read_activate" THEN {}
                    ELSE {t \in Tokens : Unrevoked(t) /\ session[t].user = user[r]}]
  /\ Goto(r, Flushed[pc[r]])
  /\ UNCHANGED <<account, org, session, user, token, login>>

Changed(a, change) ==
  [status   |-> CASE change = "suspend" -> "suspended"
                  [] change = "invite" -> "invited"
                  [] change = "activate" -> "active"
                  [] OTHER -> a.status,
   deleted  |-> a.deleted \/ change = "delete",
   password |-> IF change = "change_password" THEN a.password + 1 ELSE a.password]

\* The UPDATE has waited for the sessions others hold; commit.
update_commit(r) ==
  /\ pc[r] \in Updating
  /\ \A t \in snapshot[r] : ~Locked(t, r)
  /\ account' = [account EXCEPT ![user[r]] = Changed(@, pc[r])]
  /\ session' = [t \in Tokens |->
                   IF t \in snapshot[r] THEN Revoked(session[t]) ELSE session[t]]
  /\ Done(r)
  /\ UNCHANGED org

\* update_organization and delete_organization sweep no sessions.
update_organization(status) ==
  /\ org # "deleted"
  /\ org' = status
  /\ UNCHANGED <<account, session, pc, user, token, snapshot, login>>

\* A session's expires_at passes.
expire(t) ==
  /\ Active(t)
  /\ session' = [session EXCEPT ![t].state = "expired"]
  /\ UNCHANGED <<account, org, pc, user, token, snapshot, login>>

Finish(r) == \/ login_commit(r)
             \/ refresh_user(r) \/ refresh_commit(r) \/ refresh_revoke(r)
             \/ logout_write(r)
             \/ complete_login_flush(r) \/ sso_commit(r)
             \/ update_flush(r) \/ update_commit(r)

Next == \/ \E r \in Requests :
             \/ \E u \in Users : login_check(r, u)
             \/ \E u \in Users : \E step \in {"sso_commit", "link_flush", "activate_flush"} :
                  complete_login(r, u, step)
             \/ \E t \in Tokens : refresh_lock(r, t) \/ logout_read(r, t)
             \/ \E u \in Users : \E c \in DOMAIN Flushed : update_read(r, u, c)
             \/ Finish(r)
        \/ \E s \in {"active", "suspended", "deleted"} : update_organization(s)
        \/ \E t \in Tokens : expire(t)

Spec == Init /\ [][Next]_vars

-------------------------------------------------------------------------------
(* Properties                                                              *)

Steps == {"idle", "login_commit", "refresh_user", "refresh_commit", "refresh_revoke",
          "logout_write", "sso_commit", "link_flush", "activate_flush"}
         \union SigningOn \union Updating \union DOMAIN Flushed

\* Types; a request that works on a session works on one that exists.
TypeOK ==
  /\ account \in [Users -> Account]
  /\ org \in {"active", "suspended", "deleted"}
  /\ session \in [Tokens -> Session]
  /\ pc \in [Requests -> Steps]
  /\ user \in [Requests -> Users \union {None}]
  /\ token \in [Requests -> Tokens \union {None}]
  /\ snapshot \in [Requests -> SUBSET Tokens]
  /\ login \in [Requests -> Login]
  /\ \A r \in Requests :
       /\ pc[r] \in {"refresh_user", "refresh_commit", "refresh_revoke", "logout_write"}
            => token[r] \in Tokens /\ Issued(token[r])
       /\ pc[r] \in ({"login_commit", "sso_commit", "link_flush", "activate_flush"}
                     \union SigningOn \union Updating \union DOMAIN Flushed)
            => user[r] \in Users
       /\ \A t \in snapshot[r] : Issued(t)

\* However refreshes, logouts and administrators interleave, a login has at
\* most one unrevoked session: its refresh token cannot be redeemed twice
\* (get_by_refresh_token_hash ... for_update).
AtMostOneLive ==
  \A s, t \in Tokens :
    Unrevoked(s) /\ Unrevoked(t) /\ session[s].chain = session[t].chain => s = t

\* README: refresh sessions are "revoked on refresh, logout, user deletion and
\* suspension": an account that is deleted or not active has no session, but
\* those of a login or refresh that the change overtook (revoke_all_for_user),
\* and those of a sign-on through a provider that found the account deleted and
\* active, since nothing asks for deleted_at (_complete_login).
LockedOutButByRaceOrSso ==
  \A t \in Tokens : LET a == account[session[t].user]
                    IN  Unrevoked(t) /\ (a.deleted \/ a.status # "active")
                          => session[t].raced \/ session[t].login.deleted

\* A password change leaves no session that goes back to the old password, but
\* those of a login or refresh it overtook (update_user, password_changed).
OldPasswordOnlyByRace ==
  \A t \in Tokens :
    /\ Unrevoked(t)
    /\ session[t].login.password \notin {None, account[session[t].user].password}
    => session[t].raced

\* The request waits for a row that another one has locked.
Waits(r) == \/ pc[r] = "logout_write" /\ Locked(token[r], r)
            \/ pc[r] \in {"link_flush", "activate_flush"} \union DOMAIN Flushed
               /\ UserLocked(user[r], r)
            \/ pc[r] \in {"login_commit", "sso_commit"} /\ KeyLocked(user[r], r)
            \/ pc[r] = "refresh_commit" /\ KeyLocked(session[token[r]].user, r)
            \/ pc[r] \in Updating /\ \E t \in snapshot[r] : Locked(t, r)

\* Requests that wait for rows of sessions and users do not all wait for one
\* another: there is always one that can go on (get_by_refresh_token_hash with
\* for_update, revoke_all_for_user, the flush of the users row).
NoDeadlock == (\E r \in Requests : Waits(r)) => \E r \in Requests : pc[r] # "idle" /\ ~Waits(r)
===============================================================================

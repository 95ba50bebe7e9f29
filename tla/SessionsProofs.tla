----------------------------- MODULE SessionsProofs -----------------------------
(***************************************************************************)
(* Refresh sessions, for any accounts, tokens and number of requests.      *)
(***************************************************************************)
EXTENDS Sessions, TLAPS

\* The request has its session FOR UPDATE.
Holds(r) == pc[r] \in {"refresh_user", "refresh_commit", "refresh_revoke"}

\* A session has one holder, and nobody revokes it under the holder.
Exclusive == \A q, r \in Requests : Holds(q) /\ Holds(r) /\ token[q] = token[r] => q = r

HeldUnrevoked == \A r \in Requests : Holds(r) => Unrevoked(token[r])

\* A session goes back to a token that was issued: the token of a new login
\* starts a chain of its own.
ChainsIssued == \A t \in Tokens : Issued(t) => /\ session[t].chain \in Tokens
                                               /\ Issued(session[t].chain)
                                               /\ session[t].user \in Users

\* The users row has one writer at a time.
Writing(r) == pc[r] \in Updating \union SigningOn

OneWriter == \A q, r \in Requests :
               Writing(q) /\ Writing(r) /\ user[q] = user[r] => q = r

SsoSteps == {"sso_commit", "link_flush", "activate_flush"} \union SigningOn

\* A sign-on through a provider goes by no password; once it has written the
\* users row, the account is as it was read after that.
Rechecked ==
  \A r \in Requests :
    /\ pc[r] \in SsoSteps => login[r].password = None
    /\ pc[r] \in SigningOn /\ account[user[r]].deleted => login[r].deleted
    /\ pc[r] = "linked" => account[user[r]].status = "active"

\* The sessions of an account that is about to change and that its update does
\* not revoke are those of logins and refreshes that overtake it.
Overlooked == \A r \in Requests : \A t \in Tokens :
                /\ pc[r] \in Updating \ {"activate"}
                /\ Unrevoked(t)
                /\ session[t].user = user[r]
                => t \in snapshot[r] \/ session[t].raced

LockInv == TypeOK /\ Exclusive /\ HeldUnrevoked /\ ChainsIssued

ChainInv == LockInv /\ AtMostOneLive

RaceInv == /\ LockInv /\ OneWriter /\ Rechecked
           /\ Overlooked /\ LockedOutButByRaceOrSso /\ OldPasswordOnlyByRace

-------------------------------------------------------------------------------
(* Types                                                                   *)

LEMMA FlushedTypes ==
  /\ DOMAIN Flushed = {"read_suspend", "read_invite", "read_activate", "read_rename",
                       "read_delete", "read_change_password"}
  /\ \A c \in DOMAIN Flushed : /\ Flushed[c] \in Updating
                               /\ Flushed[c] = "activate" <=> c = "read_activate"
BY DEF Flushed, Updating

LEMMA NewSessionType ==
  ASSUME NEW u \in Users, NEW c \in Tokens, NEW lg \in Login, NEW b \in BOOLEAN
  PROVE  /\ NewSession(u, c, lg, b) \in Session
         /\ NewSession(u, c, lg, b).state = "live"
         /\ NewSession(u, c, lg, b).user = u
         /\ NewSession(u, c, lg, b).chain = c
         /\ NewSession(u, c, lg, b).login = lg
         /\ NewSession(u, c, lg, b).raced = b
BY DEF NewSession, Session

LEMMA RevokedType ==
  ASSUME NEW row \in Session
  PROVE  /\ Revoked(row) \in Session
         /\ Revoked(row).state = "revoked"
         /\ Revoked(row).user = row.user
         /\ Revoked(row).chain = row.chain
         /\ Revoked(row).login = row.login
         /\ Revoked(row).raced = row.raced
BY DEF Revoked, Session

LEMMA ChangedType ==
  ASSUME NEW a \in Account, NEW c
  PROVE  /\ Changed(a, c) \in Account
         /\ Changed(a, c).deleted <=> a.deleted \/ c = "delete"
         /\ c = "activate" => Changed(a, c).status = "active"
         /\ c \notin {"suspend", "invite"} /\ a.status = "active" => Changed(a, c).status = "active"
         /\ c # "change_password" => Changed(a, c).password = a.password
<1> DEFINE st == CASE c = "suspend" -> "suspended" [] c = "invite" -> "invited"
                   [] c = "activate" -> "active" [] OTHER -> a.status
           del == a.deleted \/ c = "delete"
           pw == IF c = "change_password" THEN a.password + 1 ELSE a.password
<1>1. Changed(a, c) = [status |-> st, deleted |-> del, password |-> pw]
  BY DEF Changed
<1>2. /\ a.status \in {"active", "suspended", "invited"}
      /\ a.deleted \in BOOLEAN /\ a.password \in Nat
  BY DEF Account
<1>3. /\ st \in {"active", "suspended", "invited"}
      /\ c = "activate" => st = "active"
      /\ c \notin {"suspend", "invite"} /\ a.status = "active" => st = "active"
  BY <1>2
<1>4. del \in BOOLEAN /\ (del <=> a.deleted \/ c = "delete")
  OBVIOUS
<1>5. pw \in Nat /\ (c # "change_password" => pw = a.password)
  BY <1>2
<1> HIDE DEF st, del, pw
<1> QED
  BY <1>1, <1>3, <1>4, <1>5 DEF Account

LEMMA StatusType ==
  ASSUME NEW a \in Account
  PROVE  /\ [a EXCEPT !.status = "active"] \in Account
         /\ [a EXCEPT !.status = "active"].status = "active"
         /\ [a EXCEPT !.status = "active"].deleted = a.deleted
         /\ [a EXCEPT !.status = "active"].password = a.password
BY DEF Account

LEMMA LoginTypes == /\ NoLogin \in Login
                    /\ \A pw \in Nat \union {None}, d \in BOOLEAN :
                         [password |-> pw, deleted |-> d] \in Login
BY DEF NoLogin, Login

\* Where a request works on an account.
OnAccount == {"login_commit", "sso_commit", "link_flush", "activate_flush"}
               \union SigningOn \union Updating \union DOMAIN Flushed

LEMMA StepTypes ==
  /\ {"idle", "login_commit", "refresh_user", "refresh_commit", "refresh_revoke",
      "logout_write", "sso_commit", "link_flush", "activate_flush", "linked", "activated"}
       \subseteq Steps
  /\ {"refresh_user", "refresh_commit", "refresh_revoke", "logout_write", "idle"}
       \intersect OnAccount = {}
  /\ \A step \in Updating \union SigningOn :
       step \notin {"idle", "login_commit", "sso_commit", "link_flush", "activate_flush",
                   "refresh_user", "refresh_commit", "refresh_revoke", "logout_write"}
                   \union DOMAIN Flushed
  /\ \A step \in Updating : step \notin SigningOn
BY FlushedTypes DEF Steps, OnAccount, SigningOn, Updating

-------------------------------------------------------------------------------
(* Types and locks                                                         *)

\* What an action does to a request that ends with it.
LEMMA DoneTypes ==
  ASSUME TypeOK, NEW r \in Requests, Done(r)
  PROVE  /\ pc' \in [Requests -> Steps] /\ user' \in [Requests -> Users \union {None}]
         /\ token' \in [Requests -> Tokens \union {None}]
         /\ snapshot' \in [Requests -> SUBSET Tokens]
         /\ login' \in [Requests -> Login]
         /\ pc'[r] = "idle" /\ snapshot'[r] = {}
         /\ \A q \in Requests \ {r} : /\ pc'[q] = pc[q] /\ user'[q] = user[q]
                                      /\ token'[q] = token[q]
                                      /\ snapshot'[q] = snapshot[q]
                                      /\ login'[q] = login[q]
<1>1. /\ "idle" \in Steps /\ None \in Users \union {None} /\ None \in Tokens \union {None}
      /\ NoLogin \in Login
  BY LoginTypes, StepTypes
<1> QED
  BY <1>1 DEF TypeOK, Done

\* A step that changes sessions and ends request r keeps types and locks, if no
\* session is taken back or changes its login, and those that others hold stay.
LEMMA SessionStep ==
  ASSUME LockInv, NEW r \in Requests, Done(r),
         account' \in [Users -> Account], org' = org,
         session' \in [Tokens -> Session],
         \A t \in Tokens : Issued(t) => /\ Issued(t)'
                                        /\ session'[t].chain = session[t].chain
                                        /\ session'[t].user = session[t].user,
         \A t \in Tokens : Issued(t)' /\ ~Issued(t)
                             => /\ session'[t].user \in Users
                                /\ session'[t].chain \in Tokens
                                /\ Issued(session[t].chain)',
         \A t \in Tokens : Unrevoked(t) /\ Locked(t, r) => Unrevoked(t)'
  PROVE  LockInv'
<1>0. TypeOK /\ Exclusive /\ HeldUnrevoked /\ ChainsIssued
  BY DEF LockInv
<1>d. /\ pc' \in [Requests -> Steps] /\ user' \in [Requests -> Users \union {None}]
      /\ token' \in [Requests -> Tokens \union {None}]
      /\ snapshot' \in [Requests -> SUBSET Tokens]
      /\ login' \in [Requests -> Login]
      /\ pc'[r] = "idle" /\ snapshot'[r] = {}
      /\ \A q \in Requests \ {r} : /\ pc'[q] = pc[q] /\ user'[q] = user[q]
                                   /\ token'[q] = token[q]
                                   /\ snapshot'[q] = snapshot[q]
  BY <1>0, DoneTypes
<1>1. TypeOK'
  <2>1. ASSUME NEW q \in Requests
        PROVE  /\ pc'[q] \in {"refresh_user", "refresh_commit", "refresh_revoke", "logout_write"}
                    => token'[q] \in Tokens /\ Issued(token[q])'
               /\ pc'[q] \in OnAccount => user'[q] \in Users
               /\ \A t \in snapshot'[q] : Issued(t)'
    <3>1. CASE q = r
      BY <1>d, <3>1, StepTypes
    <3>2. CASE q # r
      BY <1>0, <1>d, <3>2 DEF TypeOK, OnAccount
    <3> QED
      BY <3>1, <3>2
  <2> QED
    BY <1>0, <1>d, <2>1 DEF TypeOK, OnAccount
<1>2. Exclusive'
  BY <1>0, <1>d DEF Exclusive, Holds
<1>3. HeldUnrevoked'
  <2> SUFFICES ASSUME NEW q \in Requests, Holds(q)' PROVE Unrevoked(token[q])'
    BY DEF HeldUnrevoked
  <2>1. q # r /\ Holds(q) /\ token'[q] = token[q]
    BY <1>d DEF Holds
  <2>2. token[q] \in Tokens /\ Unrevoked(token[q])
    BY <1>0, <2>1 DEF TypeOK, HeldUnrevoked, Holds
  <2>3. Locked(token[q], r)
    BY <2>1 DEF Locked, Holds
  <2>4. \A t \in Tokens : Unrevoked(t) /\ Locked(t, r) => Unrevoked(t)'
    OBVIOUS
  <2>5. session'[token[q]].state \in {"live", "expired"}
    BY <2>2, <2>3, <2>4 DEF Unrevoked
  <2> QED
    BY <2>1, <2>5 DEF Unrevoked
<1>4. ChainsIssued'
  <2> SUFFICES ASSUME NEW t \in Tokens, Issued(t)'
               PROVE  /\ session'[t].chain \in Tokens
                      /\ Issued(session[t].chain)'
                      /\ session'[t].user \in Users
    BY DEF ChainsIssued
  <2>1. CASE Issued(t)
    BY <1>0, <2>1 DEF ChainsIssued, Issued
  <2>2. CASE ~Issued(t)
    BY <2>2 DEF Issued
  <2> QED
    BY <2>1, <2>2
<1> QED
  BY <1>1, <1>2, <1>3, <1>4 DEF LockInv

\* Revoking sessions that nobody else holds keeps types and locks.
LEMMA RevokeStep ==
  ASSUME LockInv, NEW r \in Requests, Done(r),
         account' \in [Users -> Account], org' = org,
         NEW S \in SUBSET Tokens, \A t \in S : Issued(t) /\ ~Locked(t, r),
         session' = [t \in Tokens |-> IF t \in S THEN Revoked(session[t]) ELSE session[t]]
  PROVE  LockInv'
<1>1. session \in [Tokens -> Session]
  BY DEF LockInv, TypeOK
<1>2. \A t \in S : /\ session'[t] \in Session /\ session'[t].state = "revoked"
                    /\ session'[t].chain = session[t].chain
                    /\ session'[t].user = session[t].user
  BY <1>1, RevokedType
<1>3. \A t \in Tokens \ S : session'[t] = session[t]
  OBVIOUS
<1>4. session' \in [Tokens -> Session]
  BY <1>1, <1>2, <1>3
<1> QED
  BY <1>2, <1>3, <1>4, SessionStep DEF Issued, Unrevoked

\* What the commit of a login does, by a password or through a provider: a
\* session that was never issued becomes live, as a chain of its own.
LEMMA LoginCommitEffect ==
  ASSUME LockInv, NEW r \in Requests, login_commit(r) \/ sso_commit(r)
  PROVE  \E t \in Tokens :
           /\ ~Issued(t)
           /\ session' \in [Tokens -> Session]
           /\ session'[t].state = "live" /\ session'[t].user = user[r]
           /\ session'[t].chain = t /\ session'[t].login = login[r]
           /\ user[r] \in Users
           /\ pc[r] \notin SigningOn /\ Overtaken(user[r], login[r]) => session'[t].raced
           /\ \A s \in Tokens \ {t} : session'[s] = session[s]
<1> DEFINE b == pc[r] \notin SigningOn /\ Overtaken(user[r], login[r])
<1>0. b \in BOOLEAN
  OBVIOUS
<1>a. /\ pc[r] \in {"login_commit", "sso_commit"} \union SigningOn
      /\ sso_commit(r) /\ pc[r] \notin SigningOn => pc[r] = "sso_commit"
      /\ login_commit(r) => pc[r] \notin SigningOn
      /\ pc[r] = "sso_commit" => pc[r] \notin SigningOn
  BY DEF login_commit, sso_commit, SigningOn
<1>1. PICK t \in Tokens : /\ ~Issued(t)
                          /\ session' = [session EXCEPT ![t] = NewSession(user[r], t, login[r], b)]
  <2>1. CASE login_commit(r)
    <3>1. b = Overtaken(user[r], login[r])
      BY <1>a, <2>1 DEF Overtaken
    <3> HIDE DEF b
    <3> QED
      BY <2>1, <3>1 DEF login_commit
  <2>2. CASE sso_commit(r)
    <3>1. b = (pc[r] = "sso_commit" /\ Overtaken(user[r], login[r]))
      BY <1>a, <2>2
    <3> HIDE DEF b
    <3> QED
      BY <2>2, <3>1 DEF sso_commit
  <2> QED
    BY <2>1, <2>2
<1>2. user[r] \in Users /\ login[r] \in Login /\ session \in [Tokens -> Session]
  BY <1>a DEF LockInv, TypeOK
<1> DEFINE n == NewSession(user[r], t, login[r], b)
<1>b. pc[r] \notin SigningOn /\ Overtaken(user[r], login[r]) => b
  OBVIOUS
<1> HIDE DEF b
<1>3. /\ n \in Session /\ n.state = "live" /\ n.user = user[r] /\ n.chain = t
      /\ n.login = login[r] /\ n.raced = b
  BY <1>0, <1>2, NewSessionType
<1> HIDE DEF n
<1>4. session' = [session EXCEPT ![t] = n]
  BY <1>1 DEF n
<1>5. session'[t] = n /\ \A s \in Tokens \ {t} : session'[s] = session[s]
  BY <1>2, <1>4
<1>6. session' \in [Tokens -> Session]
  BY <1>2, <1>3, <1>4
<1> WITNESS t \in Tokens
<1> QED
  BY <1>1, <1>2, <1>3, <1>5, <1>6, <1>b

\* What the commit of a refresh does: its session is revoked and one that was
\* never issued becomes live in the same chain.
LEMMA RefreshCommitEffect ==
  ASSUME LockInv, NEW r \in Requests, refresh_commit(r), NEW o, o = token[r]
  PROVE  \E t \in Tokens :
           /\ o \in Tokens /\ Unrevoked(o) /\ ~Issued(t) /\ t # o
           /\ session' \in [Tokens -> Session]
           /\ session'[o].state = "revoked" /\ session'[o].user = session[o].user
           /\ session'[o].chain = session[o].chain
           /\ session'[t].state = "live" /\ session'[t].user = session[o].user
           /\ session'[t].chain = session[o].chain
           /\ session'[t].login = session[o].login
           /\ session[o].user \in Users
           /\ \/ session[o].raced
              \/ Overtaken(session[o].user, session[o].login)
              => session'[t].raced
           /\ \A s \in Tokens \ {o, t} : session'[s] = session[s]
<1> DEFINE b == session[o].raced \/ Overtaken(session[o].user, session[o].login)
<1>1. PICK t \in Tokens :
        /\ ~Issued(t)
        /\ session' = [session EXCEPT
                         ![o] = Revoked(@),
                         ![t] = NewSession(session[o].user, session[o].chain,
                                           session[o].login, b)]
  BY DEF refresh_commit
<1>2. session \in [Tokens -> Session] /\ o \in Tokens /\ Unrevoked(o)
  BY DEF refresh_commit, LockInv, TypeOK, HeldUnrevoked, Holds
<1>3. Issued(o) /\ o # t
  BY <1>1, <1>2 DEF Unrevoked, Issued
<1>4. /\ session[o].user \in Users /\ session[o].chain \in Tokens
      /\ session[o].login \in Login
  BY <1>2, <1>3 DEF LockInv, ChainsIssued, Session
<1>b. /\ b \in BOOLEAN
      /\ session[o].raced \/ Overtaken(session[o].user, session[o].login) => b
  OBVIOUS
<1> HIDE DEF b
<1> DEFINE n == NewSession(session[o].user, session[o].chain, session[o].login, b)
           v == Revoked(session[o])
<1>5. /\ n \in Session /\ n.state = "live" /\ n.user = session[o].user
      /\ n.chain = session[o].chain /\ n.login = session[o].login /\ n.raced = b
  BY <1>4, <1>b, NewSessionType
<1>6. /\ v \in Session /\ v.state = "revoked" /\ v.user = session[o].user
      /\ v.chain = session[o].chain
  BY <1>2, RevokedType
<1>7. session' = [session EXCEPT ![o] = v, ![t] = n]
  BY <1>1, <1>2
<1> HIDE DEF n, v
<1>8. /\ session'[o] = v /\ session'[t] = n
      /\ \A s \in Tokens \ {o, t} : session'[s] = session[s]
  BY <1>2, <1>3, <1>7
<1>9. session' \in [Tokens -> Session]
  BY <1>2, <1>5, <1>6, <1>7
<1> WITNESS t \in Tokens
<1> QED
  BY <1>1, <1>2, <1>3, <1>4, <1>5, <1>6, <1>8, <1>9, <1>b

\* What update_commit does.
LEMMA UpdateCommitEffect ==
  ASSUME LockInv, NEW r \in Requests, update_commit(r)
  PROVE  /\ user[r] \in Users
         /\ account' = [account EXCEPT ![user[r]] = Changed(account[user[r]], pc[r])]
         /\ account' \in [Users -> Account]
         /\ snapshot[r] \in SUBSET Tokens
         /\ \A t \in snapshot[r] : Issued(t) /\ ~Locked(t, r)
<1>1. user[r] \in Users /\ account \in [Users -> Account] /\ snapshot[r] \in SUBSET Tokens
  BY DEF update_commit, LockInv, TypeOK
<1>2. \A t \in snapshot[r] : Issued(t) /\ ~Locked(t, r)
  BY DEF update_commit, LockInv, TypeOK
<1>3. account' = [account EXCEPT ![user[r]] = Changed(account[user[r]], pc[r])]
  BY DEF update_commit
<1>4. Changed(account[user[r]], pc[r]) \in Account
  BY <1>1, ChangedType
<1>5. account' \in [Users -> Account]
  BY <1>1, <1>3, <1>4
<1> QED
  BY <1>1, <1>2, <1>3, <1>5

LEMMA LockInitially == Init => LockInv
<1> SUFFICES ASSUME Init PROVE LockInv
  OBVIOUS
<1>1. Unused \in Session
  BY LoginTypes DEF Unused, Session
<1>2. [status |-> "active", deleted |-> FALSE, password |-> 0] \in Account
  BY DEF Account
<1>3. TypeOK
  BY <1>1, <1>2, LoginTypes, StepTypes DEF Init, TypeOK, OnAccount
<1>4. \A t \in Tokens : ~Issued(t)
  BY DEF Init, Issued, Unused
<1> QED
  BY <1>3, <1>4 DEF Init, LockInv, Exclusive, HeldUnrevoked, ChainsIssued, Holds

LEMMA LockStep == LockInv /\ [Next]_vars => LockInv'
<1> SUFFICES ASSUME LockInv, [Next]_vars PROVE LockInv'
  OBVIOUS
<1>0. TypeOK /\ Exclusive /\ HeldUnrevoked /\ ChainsIssued
  BY DEF LockInv
\* A step of request r that only begins or goes on, and changes no session.
<1>a. ASSUME NEW r \in Requests, UNCHANGED <<account, org, session>>,
             TypeOK',
             \A q \in Requests \ {r} : pc'[q] = pc[q] /\ token'[q] = token[q],
             Holds(r)' => Unrevoked(token'[r]) /\ ~Locked(token'[r], r)
      PROVE  LockInv'
  <2>1. Exclusive'
    BY <1>0, <1>a DEF Exclusive, Holds, Locked
  <2>2. HeldUnrevoked'
    BY <1>0, <1>a DEF HeldUnrevoked, Holds, Unrevoked
  <2>3. ChainsIssued'
    BY <1>0, <1>a DEF ChainsIssued, Issued
  <2> QED
    BY <1>a, <2>1, <2>2, <2>3 DEF LockInv
<1>1. ASSUME NEW r \in Requests, NEW u \in Users, login_check(r, u) PROVE LockInv'
  <2>1. [password |-> account[u].password, deleted |-> FALSE] \in Login
    BY <1>0, LoginTypes DEF TypeOK, Account
  <2>2. TypeOK'
    BY <1>0, <1>1, <2>1, StepTypes DEF TypeOK, login_check, Goto, OnAccount, Issued
  <2> QED
    BY <1>0, <1>1, <1>a, <2>2 DEF TypeOK, login_check, Goto, Holds
<1>2. ASSUME NEW r \in Requests, NEW t \in Tokens, refresh_lock(r, t) PROVE LockInv'
  <2>1. Issued(t) /\ Unrevoked(t)
    BY <1>2 DEF refresh_lock, Active, Issued, Unrevoked
  <2>2. TypeOK'
    BY <1>0, <1>2, <2>1, StepTypes DEF TypeOK, refresh_lock, Goto, OnAccount, Issued
  <2> QED
    BY <1>0, <1>2, <1>a, <2>1, <2>2 DEF TypeOK, refresh_lock, Goto, Holds
<1>3. ASSUME NEW r \in Requests, NEW t \in Tokens, logout_read(r, t) PROVE LockInv'
  <2>1. Issued(t)
    BY <1>3 DEF logout_read, Active, Issued
  <2>2. TypeOK'
    BY <1>0, <1>3, <2>1, StepTypes DEF TypeOK, logout_read, Goto, OnAccount, Issued
  <2> QED
    BY <1>0, <1>3, <1>a, <2>1, <2>2 DEF TypeOK, logout_read, Goto, Holds
<1>4. ASSUME NEW r \in Requests, NEW u \in Users, NEW c \in DOMAIN Flushed,
             update_read(r, u, c)
      PROVE  LockInv'
  <2>1. c \in {"read_suspend", "read_invite", "read_activate", "read_rename",
               "read_delete", "read_change_password"} /\ c \in Steps
    BY FlushedTypes DEF Steps
  <2>2. TypeOK'
    BY <1>0, <1>4, <2>1 DEF TypeOK, update_read, Goto, Issued
  <2> QED
    BY <1>0, <1>4, <1>a, <2>1, <2>2 DEF TypeOK, update_read, Goto, Holds
<1>c. ASSUME NEW r \in Requests, login_commit(r) \/ sso_commit(r),
             account' \in [Users -> Account]
      PROVE  LockInv'
  <2>1. PICK t \in Tokens :
          /\ ~Issued(t)
          /\ session' \in [Tokens -> Session]
          /\ session'[t].state = "live" /\ session'[t].user = user[r]
          /\ session'[t].chain = t
          /\ user[r] \in Users
          /\ \A s \in Tokens \ {t} : session'[s] = session[s]
    BY <1>c, LoginCommitEffect
  <2>2. Done(r) /\ org' = org
    BY <1>c DEF login_commit, sso_commit
  <2>3. \A s \in Tokens : Issued(s) => s # t /\ session'[s] = session[s]
    BY <2>1
  <2>4. \A s \in Tokens : s # t \/ Issued(s)'
    BY <2>1 DEF Issued
  <2> QED
    BY <1>c, <2>1, <2>2, <2>3, <2>4, SessionStep DEF Issued, Unrevoked
<1>5. ASSUME NEW r \in Requests, login_commit(r) PROVE LockInv'
  BY <1>0, <1>5, <1>c DEF login_commit, TypeOK
<1>15. ASSUME NEW r \in Requests, NEW u \in Users,
              NEW step \in {"sso_commit", "link_flush", "activate_flush"},
              complete_login(r, u, step)
       PROVE  LockInv'
  <2>1. [password |-> None, deleted |-> account[u].deleted] \in Login
    BY <1>0, LoginTypes DEF TypeOK, Account
  <2>2. TypeOK'
    BY <1>0, <1>15, <2>1, StepTypes DEF TypeOK, complete_login, Goto, OnAccount, Issued
  <2> QED
    BY <1>0, <1>15, <1>a, <2>2 DEF TypeOK, complete_login, Goto, Holds
<1>16. ASSUME NEW r \in Requests, complete_login_flush(r) PROVE LockInv'
  <2>0. user[r] \in Users /\ account[user[r]].deleted \in BOOLEAN
    BY <1>0, <1>16 DEF complete_login_flush, TypeOK, Account
  <2>1. CASE Done(r)
    <3>1. UNCHANGED <<account, org, session>>
      BY <1>16 DEF complete_login_flush
    <3> QED
      BY <1>0, <2>1, <3>1, SessionStep DEF TypeOK, Issued, Unrevoked
  <2>2. ASSUME NEW step \in SigningOn, Goto(r, step),
               login' = [login EXCEPT ![r].deleted = account[user[r]].deleted],
               UNCHANGED <<account, org, session, user, token, snapshot>>
        PROVE  LockInv'
    <3>1. login' \in [Requests -> Login]
      BY <1>0, <2>0, <2>2 DEF TypeOK, Login
    <3>2. step \in Steps /\ step \notin {"refresh_user", "refresh_commit", "refresh_revoke",
                                        "logout_write"}
      BY StepTypes DEF SigningOn
    <3>3. /\ pc' \in [Requests -> Steps] /\ pc'[r] = step
          /\ \A q \in Requests \ {r} : pc'[q] = pc[q]
      BY <1>0, <2>2, <3>2 DEF TypeOK, Goto
    <3>4. TypeOK'
      BY <1>0, <2>0, <2>2, <3>1, <3>2, <3>3 DEF TypeOK, Issued
    <3> QED
      BY <1>a, <2>2, <3>2, <3>3, <3>4 DEF Holds
  <2> QED
    BY <1>16, <2>1, <2>2 DEF complete_login_flush, SigningOn
<1>17. ASSUME NEW r \in Requests, sso_commit(r) PROVE LockInv'
  <2>1. user[r] \in Users /\ account[user[r]] \in Account
    BY <1>0, <1>17 DEF sso_commit, TypeOK
  <2>2. account' \in [Users -> Account]
    BY <1>0, <1>17, <2>1, StatusType DEF sso_commit, TypeOK
  <2> QED
    BY <1>17, <1>c, <2>2
<1>6. ASSUME NEW r \in Requests, refresh_user(r) PROVE LockInv'
  <2>1. TypeOK'
    BY <1>0, <1>6, StepTypes DEF TypeOK, refresh_user, Goto, OnAccount, Issued
  <2>2. Holds(r) /\ Unrevoked(token[r]) /\ ~Locked(token[r], r)
    BY <1>0, <1>6 DEF refresh_user, Holds, HeldUnrevoked, Exclusive, Locked
  <2> QED
    BY <1>0, <1>6, <1>a, <2>1, <2>2 DEF TypeOK, refresh_user, Goto
<1>7. ASSUME NEW r \in Requests, refresh_commit(r) PROVE LockInv'
  <2> DEFINE o == token[r]
  <2>1. PICK t \in Tokens :
          /\ o \in Tokens /\ Unrevoked(o) /\ ~Issued(t) /\ t # o
          /\ session' \in [Tokens -> Session]
          /\ session'[o].state = "revoked" /\ session'[o].user = session[o].user
          /\ session'[o].chain = session[o].chain
          /\ session'[t].state = "live" /\ session'[t].user = session[o].user
          /\ session'[t].chain = session[o].chain
          /\ session[o].user \in Users
          /\ \A s \in Tokens \ {o, t} : session'[s] = session[s]
    BY <1>7, RefreshCommitEffect
  <2>2. Done(r) /\ UNCHANGED <<account, org>> /\ Holds(r)
    BY <1>7 DEF refresh_commit, Holds
  <2>3. ~Locked(o, r) /\ Issued(o)
    BY <1>0, <2>1, <2>2 DEF Exclusive, Holds, Locked, Unrevoked, Issued
  <2> HIDE DEF o
  <2>4. \A s \in Tokens : Issued(s) => /\ Issued(s)'
                                       /\ session'[s].chain = session[s].chain
                                       /\ session'[s].user = session[s].user
    BY <2>1 DEF Issued
  <2>5. \A s \in Tokens : Issued(s)' /\ ~Issued(s)
                            => /\ session'[s].user \in Users
                               /\ session'[s].chain \in Tokens
                               /\ Issued(session[s].chain)'
    <3>1. session[o].chain \in Tokens /\ Issued(session[o].chain)
      BY <1>0, <2>1, <2>3 DEF ChainsIssued
    <3> QED
      BY <2>1, <2>4, <3>1 DEF Issued
  <2>6. \A s \in Tokens : Unrevoked(s) /\ Locked(s, r) => Unrevoked(s)'
    BY <2>1, <2>3 DEF Unrevoked, Issued
  <2> QED
    BY <1>0, <2>1, <2>2, <2>4, <2>5, <2>6, SessionStep DEF TypeOK
\* refresh_revoke and logout_write revoke one session, which no other holds.
<1>b. ASSUME NEW r \in Requests, Done(r), UNCHANGED <<account, org>>,
             token[r] \in Tokens, Issued(token[r]), ~Locked(token[r], r),
             session' = [session EXCEPT ![token[r]] = Revoked(@)]
      PROVE  LockInv'
  <2> DEFINE S == {token[r]}
  <2>1. session' = [t \in Tokens |-> IF t \in S THEN Revoked(session[t]) ELSE session[t]]
    BY <1>0, <1>b DEF TypeOK
  <2>2. S \in SUBSET Tokens /\ \A t \in S : Issued(t) /\ ~Locked(t, r)
    BY <1>b
  <2>3. account' \in [Users -> Account] /\ org' = org
    BY <1>0, <1>b DEF TypeOK
  <2> HIDE DEF S
  <2> QED
    BY <1>b, <2>1, <2>2, <2>3, RevokeStep
<1>8. ASSUME NEW r \in Requests, refresh_revoke(r) PROVE LockInv'
  <2>1. Holds(r) /\ token[r] \in Tokens /\ Issued(token[r]) /\ ~Locked(token[r], r)
    BY <1>0, <1>8 DEF refresh_revoke, TypeOK, Holds, Exclusive, Locked
  <2> QED
    BY <1>8, <1>b, <2>1 DEF refresh_revoke
<1>9. ASSUME NEW r \in Requests, logout_write(r) PROVE LockInv'
  <2>1. token[r] \in Tokens /\ Issued(token[r])
    BY <1>0, <1>9 DEF logout_write, TypeOK
  <2> QED
    BY <1>9, <1>b, <2>1 DEF logout_write
<1>10. ASSUME NEW r \in Requests, update_flush(r) PROVE LockInv'
  <2>1. /\ snapshot' \in [Requests -> SUBSET Tokens]
        /\ \A q \in Requests : \A t \in snapshot'[q] : Issued(t)
    BY <1>0, <1>10 DEF TypeOK, update_flush, Unrevoked, Issued
  <2>2. pc[r] \in DOMAIN Flushed /\ Flushed[pc[r]] \in Updating /\ user[r] \in Users
    BY <1>0, <1>10, FlushedTypes DEF update_flush, TypeOK
  <2>3. pc' = [pc EXCEPT ![r] = Flushed[pc[r]]] /\ Flushed[pc[r]] \in Steps
    BY <1>10, <2>2 DEF update_flush, Goto, Steps
  <2>4. /\ pc'[r] \in Updating /\ pc' \in [Requests -> Steps]
        /\ \A q \in Requests \ {r} : pc'[q] = pc[q]
    BY <1>0, <2>2, <2>3 DEF TypeOK
  <2>5. UNCHANGED <<account, org, session, user, token, login>>
    BY <1>10 DEF update_flush
  <2>6. TypeOK'
    <3>1. ASSUME NEW q \in Requests
          PROVE  /\ pc'[q] \in {"refresh_user", "refresh_commit", "refresh_revoke", "logout_write"}
                      => token'[q] \in Tokens /\ Issued(token[q])'
                 /\ pc'[q] \in OnAccount => user'[q] \in Users
                 /\ \A t \in snapshot'[q] : Issued(t)'
      BY <1>0, <2>1, <2>2, <2>4, <2>5, StepTypes DEF TypeOK, Issued, OnAccount
    <3> QED
      BY <1>0, <2>1, <2>4, <2>5, <3>1 DEF TypeOK, OnAccount
  <2> QED
    BY <1>a, <2>4, <2>5, <2>6, StepTypes DEF Holds
<1>11. ASSUME NEW r \in Requests, update_commit(r) PROVE LockInv'
  <2>1. Done(r) /\ org' = org
    BY <1>11 DEF update_commit
  <2>2. session' = [t \in Tokens |-> IF t \in snapshot[r] THEN Revoked(session[t])
                                     ELSE session[t]]
    BY <1>11 DEF update_commit
  <2> QED
    BY <1>11, <2>1, <2>2, UpdateCommitEffect, RevokeStep
<1>12. ASSUME NEW s \in {"active", "suspended", "deleted"}, update_organization(s)
       PROVE  LockInv'
  BY <1>0, <1>12 DEF update_organization, LockInv, TypeOK, Exclusive, HeldUnrevoked,
                     ChainsIssued, Holds, Unrevoked, Issued
<1>13. ASSUME NEW t \in Tokens, expire(t) PROVE LockInv'
  <2>1. session[t] \in Session /\ session[t].state = "live"
    BY <1>0, <1>13 DEF expire, Active, TypeOK
  <2>2. session' = [session EXCEPT ![t] = [session[t] EXCEPT !.state = "expired"]]
    BY <1>13 DEF expire
  <2> DEFINE n == [session[t] EXCEPT !.state = "expired"]
  <2>3. /\ n \in Session /\ n.state = "expired" /\ n.chain = session[t].chain
        /\ n.user = session[t].user
    BY <2>1 DEF Session
  <2> HIDE DEF n
  <2>4. /\ session' \in [Tokens -> Session] /\ session'[t] = n
        /\ \A s \in Tokens \ {t} : session'[s] = session[s]
    BY <1>0, <2>2, <2>3 DEF TypeOK, n
  <2>5. \A s \in Tokens : /\ Issued(s)' <=> Issued(s)
                          /\ Unrevoked(s)' <=> Unrevoked(s)
                          /\ session'[s].chain = session[s].chain
                          /\ session'[s].user = session[s].user
    BY <2>1, <2>3, <2>4 DEF Issued, Unrevoked
  <2>6. UNCHANGED <<account, org, pc, user, token, snapshot, login>>
    BY <1>13 DEF expire
  <2>7. TypeOK'
    BY <1>0, <2>4, <2>5, <2>6 DEF TypeOK
  <2>8. Exclusive' /\ HeldUnrevoked' /\ ChainsIssued'
    BY <1>0, <2>5, <2>6 DEF TypeOK, Exclusive, HeldUnrevoked, ChainsIssued, Holds
  <2> QED
    BY <2>7, <2>8 DEF LockInv
<1>14. CASE UNCHANGED vars
  BY <1>0, <1>14 DEF vars, LockInv, TypeOK, Exclusive, HeldUnrevoked, ChainsIssued, Holds,
                     Unrevoked, Issued
<1> QED
  BY <1>1, <1>2, <1>3, <1>4, <1>5, <1>6, <1>7, <1>8, <1>9, <1>10, <1>11, <1>12, <1>13, <1>14,
     <1>15, <1>16, <1>17 DEF Next, Finish

\* No reachable state has a session that two requests hold, that is revoked
\* under its holder, or that goes back to no login.
THEOREM LocksHeld == Spec => []LockInv
<1> QED
  BY LockInitially, LockStep, PTL DEF Spec

\* Types (see TypeOK), for any number of requests, tokens and accounts.
THEOREM SessionsTyped == Spec => []TypeOK
<1>1. LockInv => TypeOK
  BY DEF LockInv
<1> QED
  BY <1>1, LocksHeld, PTL

-------------------------------------------------------------------------------
(* One live session per login                                              *)

Issues(r) == login_commit(r) \/ sso_commit(r) \/ refresh_commit(r)

\* A step that is neither the commit of a login nor of a refresh makes no
\* session usable.
LEMMA OnlyCommitsIssue ==
  ASSUME LockInv, [Next]_vars,
         \A r \in Requests : ~Issues(r),
         NEW t \in Tokens, Unrevoked(t)'
  PROVE  /\ Unrevoked(t)
         /\ session'[t].chain = session[t].chain
         /\ session'[t].user = session[t].user
         /\ session'[t].login = session[t].login
         /\ session'[t].raced = session[t].raced
<1>0. session \in [Tokens -> Session]
  BY DEF LockInv, TypeOK
<1>1. CASE UNCHANGED session
  BY <1>1 DEF Unrevoked
<1>2. ASSUME NEW r \in Requests, refresh_revoke(r) \/ logout_write(r)
      PROVE  t # token[r] /\ session'[t] = session[t]
  <2>1. session' = [session EXCEPT ![token[r]] = Revoked(@)]
    BY <1>2 DEF refresh_revoke, logout_write
  <2>2. t # token[r]
    BY <1>0, <2>1, RevokedType DEF Unrevoked
  <2> QED
    BY <1>0, <2>1, <2>2
<1>3. ASSUME NEW r \in Requests, update_commit(r) PROVE session'[t] = session[t]
  <2>1. session' = [s \in Tokens |-> IF s \in snapshot[r] THEN Revoked(session[s])
                                     ELSE session[s]]
    BY <1>3 DEF update_commit
  <2>2. t \notin snapshot[r]
    BY <1>0, <2>1, RevokedType DEF Unrevoked
  <2> QED
    BY <2>1, <2>2
<1>4. ASSUME NEW s \in Tokens, expire(s)
      PROVE  /\ Unrevoked(t)
             /\ session'[t].chain = session[t].chain
             /\ session'[t].user = session[t].user
             /\ session'[t].login = session[t].login
             /\ session'[t].raced = session[t].raced
  <2>1. session[s] \in Session /\ session[s].state = "live"
    BY <1>0, <1>4 DEF expire, Active
  <2>2. session' = [session EXCEPT ![s] = [session[s] EXCEPT !.state = "expired"]]
    BY <1>4 DEF expire
  <2>3. CASE t = s
    BY <1>0, <2>1, <2>2, <2>3 DEF Unrevoked, Session
  <2>4. CASE t # s
    <3>1. session'[t] = session[t]
      BY <1>0, <2>2, <2>4
    <3> QED
      BY <3>1 DEF Unrevoked
  <2> QED
    BY <2>3, <2>4
<1>5. /\ \A r \in Requests : refresh_user(r) \/ update_flush(r) \/ complete_login_flush(r)
                               => UNCHANGED session
      /\ \A r \in Requests : \A u \in Users :
           \A step \in {"sso_commit", "link_flush", "activate_flush"} :
             complete_login(r, u, step) => UNCHANGED session
      /\ \A r \in Requests : \A u \in Users : login_check(r, u) => UNCHANGED session
      /\ \A r \in Requests : \A s \in Tokens :
           refresh_lock(r, s) \/ logout_read(r, s) => UNCHANGED session
      /\ \A r \in Requests : \A u \in Users : \A c \in DOMAIN Flushed :
           update_read(r, u, c) => UNCHANGED session
      /\ \A s \in {"active", "suspended", "deleted"} :
           update_organization(s) => UNCHANGED session
  BY DEF login_check, refresh_lock, refresh_user, logout_read, update_read, update_flush,
         update_organization, complete_login, complete_login_flush
<1>6. CASE UNCHANGED vars
  BY <1>1, <1>6 DEF vars
<1> QED
  BY <1>1, <1>2, <1>3, <1>4, <1>5, <1>6 DEF Next, Finish, Unrevoked, Issues

LEMMA AtMostOneLiveStep == ChainInv /\ [Next]_vars => AtMostOneLive'
<1> SUFFICES ASSUME ChainInv, [Next]_vars PROVE AtMostOneLive'
  OBVIOUS
<1>0. LockInv /\ AtMostOneLive /\ ChainsIssued
  BY DEF ChainInv, LockInv
<1>1. ASSUME NEW r \in Requests, login_commit(r) \/ sso_commit(r) PROVE AtMostOneLive'
  <2>1. PICK n \in Tokens : /\ ~Issued(n)
                            /\ session'[n].chain = n
                            /\ \A s \in Tokens \ {n} : session'[s] = session[s]
    BY <1>0, <1>1, LoginCommitEffect
  <2>2. \A s \in Tokens \ {n} : Unrevoked(s)' => Unrevoked(s) /\ session'[s].chain # n
    BY <1>0, <2>1 DEF Unrevoked, Issued, ChainsIssued
  <2> QED
    BY <1>0, <2>1, <2>2 DEF AtMostOneLive
<1>2. ASSUME NEW r \in Requests, refresh_commit(r) PROVE AtMostOneLive'
  <2> DEFINE o == token[r]
  <2>1. PICK n \in Tokens :
          /\ o \in Tokens /\ Unrevoked(o) /\ ~Issued(n) /\ n # o
          /\ session'[o].state = "revoked"
          /\ session'[n].chain = session[o].chain
          /\ \A s \in Tokens \ {o, n} : session'[s] = session[s]
    BY <1>0, <1>2, RefreshCommitEffect
  <2> HIDE DEF o
  <2>2. \A s \in Tokens \ {n} : Unrevoked(s)' => /\ s # o /\ Unrevoked(s)
                                                /\ session'[s].chain = session[s].chain
    BY <2>1 DEF Unrevoked
  <2>3. \A s \in Tokens : Unrevoked(s) /\ s # o => session[s].chain # session[o].chain
    BY <1>0, <2>1 DEF AtMostOneLive
  <2> QED
    BY <1>0, <2>1, <2>2, <2>3 DEF AtMostOneLive
<1>3. CASE \A r \in Requests : ~Issues(r)
  <2>1. \A t \in Tokens : Unrevoked(t)' => /\ Unrevoked(t)
                                           /\ session'[t].chain = session[t].chain
    BY <1>0, <1>3, OnlyCommitsIssue
  <2> QED
    BY <1>0, <2>1 DEF AtMostOneLive
<1> QED
  BY <1>1, <1>2, <1>3 DEF Issues

\* However refreshes, logouts, expiry and administrators interleave, a login
\* has at most one unrevoked session (AtMostOneLive).
THEOREM OneLiveSession == Spec => []AtMostOneLive
<1>1. Init => AtMostOneLive
  BY DEF Init, AtMostOneLive, Unrevoked, Unused
<1>2. LockInv /\ AtMostOneLive /\ [Next]_vars => AtMostOneLive'
  BY AtMostOneLiveStep DEF ChainInv
<1> QED
  BY <1>1, <1>2, LocksHeld, PTL DEF Spec

-------------------------------------------------------------------------------
(* Sessions of locked-out accounts and of old passwords                    *)

\* What request r does itself, and what leaves it where it is.
Own(r) == \/ \E u \in Users : login_check(r, u)
          \/ \E u \in Users : \E step \in {"sso_commit", "link_flush", "activate_flush"} :
               complete_login(r, u, step)
          \/ \E t \in Tokens : refresh_lock(r, t) \/ logout_read(r, t)
          \/ \E u \in Users : \E c \in DOMAIN Flushed : update_read(r, u, c)
          \/ Finish(r)

Kept(r) == /\ pc'[r] = pc[r] /\ user'[r] = user[r]
           /\ snapshot'[r] = snapshot[r] /\ login'[r] = login[r]

LEMMA NextCases ==
  ASSUME [Next]_vars
  PROVE  \/ UNCHANGED <<account, session, pc, user, snapshot, login>>
         \/ \E t \in Tokens : expire(t)
         \/ \E r \in Requests : Own(r)
BY DEF Next, vars, update_organization, Own

\* The steps of a request leave the others where they are.
LEMMA OthersKept ==
  ASSUME LockInv, NEW r \in Requests, Own(r), NEW q \in Requests, q # r
  PROVE  Kept(q)
<1>0. TypeOK
  BY DEF LockInv
<1>1. Done(r) => Kept(q)
  BY <1>0, DoneTypes DEF Kept
<1>2. ASSUME NEW step, Goto(r, step),
             user'[q] = user[q], snapshot'[q] = snapshot[q], login'[q] = login[q]
      PROVE  Kept(q)
  BY <1>0, <1>2 DEF TypeOK, Goto, Kept
<1>3. ASSUME NEW u \in Users, login_check(r, u) PROVE Kept(q)
  BY <1>0, <1>2, <1>3 DEF login_check, TypeOK
<1>4. ASSUME NEW u \in Users, NEW step \in {"sso_commit", "link_flush", "activate_flush"},
             complete_login(r, u, step)
      PROVE  Kept(q)
  BY <1>0, <1>2, <1>4 DEF complete_login, TypeOK
<1>5. ASSUME NEW t \in Tokens, refresh_lock(r, t) \/ logout_read(r, t) PROVE Kept(q)
  BY <1>2, <1>5 DEF refresh_lock, logout_read
<1>6. ASSUME NEW u \in Users, NEW c \in DOMAIN Flushed, update_read(r, u, c)
      PROVE  Kept(q)
  BY <1>0, <1>2, <1>6 DEF update_read, TypeOK
<1>7. CASE refresh_user(r)
  BY <1>2, <1>7 DEF refresh_user
<1>8. CASE update_flush(r)
  BY <1>0, <1>2, <1>8 DEF update_flush, TypeOK
<1>9. CASE complete_login_flush(r)
  BY <1>0, <1>1, <1>2, <1>9 DEF complete_login_flush, TypeOK
<1>10. CASE \/ login_commit(r) \/ refresh_commit(r) \/ refresh_revoke(r)
            \/ logout_write(r) \/ sso_commit(r) \/ update_commit(r)
  BY <1>1, <1>10 DEF login_commit, refresh_commit, refresh_revoke, logout_write, sso_commit,
                     update_commit
<1> QED
  BY <1>3, <1>4, <1>5, <1>6, <1>7, <1>8, <1>9, <1>10 DEF Own, Finish

LEMMA GoesOn ==
  ASSUME LockInv, [Next]_vars, NEW q \in Requests
  PROVE  Own(q) \/ Kept(q)
<1>1. CASE UNCHANGED <<account, session, pc, user, snapshot, login>>
  BY <1>1 DEF Kept
<1>2. ASSUME NEW t \in Tokens, expire(t) PROVE Kept(q)
  BY <1>2 DEF expire, Kept
<1> QED
  BY <1>1, <1>2, NextCases, OthersKept

\* Where a request is after a step of its own.
LEMMA OwnEnds ==
  ASSUME LockInv, NEW r \in Requests, Own(r)
  PROVE  \/ update_flush(r) \/ complete_login_flush(r)
         \/ \E u \in Users : \E step \in {"sso_commit", "link_flush", "activate_flush"} :
              complete_login(r, u, step)
         \/ pc'[r] \in {"idle", "login_commit", "refresh_user", "refresh_commit",
                        "refresh_revoke", "logout_write"} \union DOMAIN Flushed
<1>0. TypeOK
  BY DEF LockInv
<1>1. Done(r) => pc'[r] = "idle"
  BY <1>0, DoneTypes
<1>2. \A step : Goto(r, step) => pc'[r] = step
  BY <1>0 DEF TypeOK, Goto
<1>3. \A u \in Users : login_check(r, u) => pc'[r] = "login_commit"
  BY <1>2 DEF login_check
<1>4. \A t \in Tokens : /\ refresh_lock(r, t) => pc'[r] = "refresh_user"
                        /\ logout_read(r, t) => pc'[r] = "logout_write"
  BY <1>2 DEF refresh_lock, logout_read
<1>5. \A u \in Users : \A c \in DOMAIN Flushed : update_read(r, u, c) => pc'[r] = c
  BY <1>2 DEF update_read
<1>6. refresh_user(r) => pc'[r] \in {"refresh_commit", "refresh_revoke"}
  BY <1>2 DEF refresh_user
<1>7. \/ login_commit(r) \/ refresh_commit(r) \/ refresh_revoke(r)
      \/ logout_write(r) \/ sso_commit(r) \/ update_commit(r)
      => pc'[r] = "idle"
  BY <1>1 DEF login_commit, refresh_commit, refresh_revoke, logout_write, sso_commit,
              update_commit
<1> QED
  BY <1>3, <1>4, <1>5, <1>6, <1>7 DEF Own, Finish

\* A request that has written the users row has just done so, or keeps what it
\* knows.
LEMMA WritersGoOn ==
  ASSUME LockInv, [Next]_vars, NEW q \in Requests, Writing(q)'
  PROVE  update_flush(q) \/ complete_login_flush(q) \/ Kept(q)
<1>0. TypeOK
  BY DEF LockInv
<1>1. pc'[q] \in Updating \union SigningOn
  BY DEF Writing
<1>2. ASSUME NEW u \in Users, NEW step \in {"sso_commit", "link_flush", "activate_flush"}
      PROVE  ~complete_login(q, u, step)
  BY <1>0, <1>1, StepTypes DEF complete_login, Goto, TypeOK
<1> QED
  BY <1>1, <1>2, StepTypes, GoesOn, OwnEnds

\* Who writes the users row waits for its lock.
LEMMA OneWriterStep == LockInv /\ OneWriter /\ [Next]_vars => OneWriter'
<1> SUFFICES ASSUME LockInv, OneWriter, [Next]_vars,
                    NEW q \in Requests, NEW r \in Requests,
                    Writing(q)', Writing(r)', user'[q] = user'[r], q # r
             PROVE  FALSE
  BY DEF OneWriter
<1> DEFINE Flushes(p) == update_flush(p) \/ complete_login_flush(p)
<1>0. TypeOK
  BY DEF LockInv
<1>1. ASSUME NEW p \in Requests, NEW o \in Requests, p # o, Flushes(p), Writing(p)',
             Writing(o)', user'[p] = user'[o]
      PROVE  FALSE
  <2>1. /\ \A x \in Requests \ {p} : pc'[x] = pc[x] /\ user'[x] = user[x]
        /\ ~UserLocked(user[p], p)
        /\ user'[p] = user[p]
    <3>1. CASE update_flush(p)
      BY <1>0, <3>1 DEF update_flush, Goto, TypeOK
    <3>2. CASE complete_login_flush(p)
      <4>1. ~Done(p)
        BY <1>0, <1>1, DoneTypes, StepTypes DEF Writing
      <4> QED
        BY <1>0, <3>2, <4>1 DEF complete_login_flush, Goto, TypeOK
    <3> QED
      BY <1>1, <3>1, <3>2
  <2>2. Writing(o) /\ user[o] = user[p]
    BY <1>1, <2>1 DEF Writing
  <2> QED
    BY <1>1, <2>1, <2>2 DEF UserLocked, Writing
<1>2. Flushes(q) \/ (pc'[q] = pc[q] /\ user'[q] = user[q])
  BY WritersGoOn DEF Kept
<1>3. Flushes(r) \/ (pc'[r] = pc[r] /\ user'[r] = user[r])
  BY WritersGoOn DEF Kept
<1> HIDE DEF Flushes
<1>4. ~Flushes(q)
  BY <1>1
<1>5. ~Flushes(r)
  BY <1>1
<1> QED
  BY <1>2, <1>3, <1>4, <1>5 DEF OneWriter, Writing

\* Accounts change with the commit of an update, or of a sign-on that activates.
LEMMA AccountsKept ==
  ASSUME [Next]_vars,
         \A r \in Requests : ~update_commit(r) /\ ~(sso_commit(r) /\ pc[r] = "activated")
  PROVE  account' = account
<1>1. /\ \A r \in Requests : \/ refresh_user(r) \/ update_flush(r) \/ refresh_revoke(r)
                             \/ logout_write(r) \/ complete_login_flush(r)
                             \/ login_commit(r) \/ refresh_commit(r)
                             => account' = account
      /\ \A r \in Requests : sso_commit(r) /\ pc[r] # "activated" => account' = account
  BY DEF refresh_user, update_flush, refresh_revoke, logout_write, complete_login_flush,
         login_commit, refresh_commit, sso_commit
<1>2. /\ \A r \in Requests : \A v \in Users : login_check(r, v) => account' = account
      /\ \A r \in Requests : \A v \in Users :
           \A step \in {"sso_commit", "link_flush", "activate_flush"} :
             complete_login(r, v, step) => account' = account
      /\ \A r \in Requests : \A s \in Tokens :
           refresh_lock(r, s) \/ logout_read(r, s) => account' = account
      /\ \A r \in Requests : \A v \in Users : \A c \in DOMAIN Flushed :
           update_read(r, v, c) => account' = account
      /\ \A s \in Tokens : expire(s) => account' = account
  BY DEF login_check, complete_login, refresh_lock, logout_read, update_read, expire
<1> QED
  BY <1>1, <1>2, NextCases DEF Own, Finish

\* The rest of Rechecked: a sign-on through a provider goes by no password.
LEMMA RecheckedStep == LockInv /\ OneWriter /\ Rechecked /\ [Next]_vars => Rechecked'
<1> SUFFICES ASSUME LockInv, OneWriter, Rechecked, [Next]_vars, NEW r \in Requests
             PROVE  /\ pc'[r] \in SsoSteps => login'[r].password = None
                    /\ pc'[r] \in SigningOn /\ account'[user'[r]].deleted => login'[r].deleted
                    /\ pc'[r] = "linked" => account'[user'[r]].status = "active"
  BY DEF Rechecked
<1>0. TypeOK
  BY DEF LockInv
<1>a. \A step \in SigningOn : step \in SsoSteps /\ step \in Updating \union SigningOn
  BY DEF SsoSteps
<1>1. CASE /\ pc'[r] \in {"idle", "login_commit", "refresh_user", "refresh_commit",
                          "refresh_revoke", "logout_write"} \union DOMAIN Flushed
  BY <1>1, FlushedTypes DEF SsoSteps, SigningOn
<1>2. CASE update_flush(r)
  <2>1. pc'[r] \in Updating
    BY <1>0, <1>2, FlushedTypes DEF update_flush, Goto, TypeOK
  <2> QED
    BY <2>1 DEF SsoSteps, SigningOn, Updating
<1>3. ASSUME NEW u \in Users, NEW step \in {"sso_commit", "link_flush", "activate_flush"},
             complete_login(r, u, step)
      PROVE  pc'[r] \notin SigningOn /\ login'[r].password = None
  BY <1>0, <1>3 DEF complete_login, Goto, TypeOK, SigningOn
<1>4. CASE complete_login_flush(r)
  <2>1. CASE Done(r)
    BY <1>0, <2>1, DoneTypes DEF SsoSteps, SigningOn
  <2>2. CASE ~Done(r)
    <3>1. /\ pc[r] \in {"link_flush", "activate_flush"}
          /\ pc[r] = "activate_flush" \/ account[user[r]].status = "active"
          /\ Goto(r, IF pc[r] = "activate_flush" THEN "activated" ELSE "linked")
          /\ login' = [login EXCEPT ![r].deleted = account[user[r]].deleted]
          /\ UNCHANGED <<account, user>>
      BY <1>4, <2>2 DEF complete_login_flush
    <3>2. /\ login'[r].password = login[r].password
          /\ login'[r].deleted = account[user[r]].deleted
      BY <1>0, <3>1 DEF TypeOK, Login
    <3>3. login[r].password = None
      BY <3>1 DEF Rechecked, SsoSteps
    <3>4. pc'[r] = "linked" => account[user[r]].status = "active"
      BY <1>0, <3>1 DEF Goto, TypeOK
    <3> QED
      BY <3>1, <3>2, <3>3, <3>4
  <2> QED
    BY <2>1, <2>2
<1>5. CASE Kept(r)
  <2>1. pc'[r] = pc[r] /\ user'[r] = user[r] /\ login'[r] = login[r]
    BY <1>5 DEF Kept
  <2>2. pc[r] \in SigningOn => user[r] \in Users
    BY <1>0 DEF TypeOK
  <2>3. ASSUME NEW q \in Requests, pc[r] \in SigningOn, q # r,
               update_commit(q) \/ (sso_commit(q) /\ pc[q] = "activated")
        PROVE  account'[user[r]] = account[user[r]]
    <3>1. Writing(q) /\ Writing(r)
      BY <2>3 DEF update_commit, Writing, SigningOn
    <3>2. user[q] # user[r]
      BY <2>3, <3>1 DEF OneWriter
    <3>3. \/ account' = [account EXCEPT ![user[q]] = Changed(@, pc[q])]
          \/ account' = [account EXCEPT ![user[q]].status = "active"]
      BY <2>3 DEF update_commit, sso_commit
    <3> QED
      BY <1>0, <2>2, <2>3, <3>2, <3>3 DEF TypeOK
  <2>4. pc[r] \in SigningOn => ~update_commit(r) /\ ~sso_commit(r)
    <3>1. update_commit(r) \/ sso_commit(r) => pc'[r] = "idle"
      BY <1>0, DoneTypes DEF update_commit, sso_commit
    <3> QED
      BY <2>1, <3>1 DEF SigningOn
  <2>5. pc[r] \in SigningOn => account'[user[r]] = account[user[r]]
    BY <2>3, <2>4, AccountsKept
  <2> QED
    BY <2>1, <2>5 DEF Rechecked, SigningOn
<1>6. ASSUME NEW u \in Users, NEW step \in {"sso_commit", "link_flush", "activate_flush"},
             complete_login(r, u, step)
      PROVE  /\ pc'[r] \in SsoSteps => login'[r].password = None
             /\ pc'[r] \in SigningOn /\ account'[user'[r]].deleted => login'[r].deleted
             /\ pc'[r] = "linked" => account'[user'[r]].status = "active"
  <2>1. pc'[r] \notin SigningOn /\ login'[r].password = None
    BY <1>3, <1>6
  <2> QED
    BY <2>1 DEF SigningOn
<1>7. CASE Own(r)
  BY <1>1, <1>2, <1>4, <1>6, <1>7, OwnEnds
<1> QED
  BY <1>5, <1>7, GoesOn

\* A session that is made while its account is being changed is marked.
LEMMA OvertakenMarked ==
  ASSUME NEW u \in Users, NEW lg,
         \/ account[u].deleted /\ ~lg.deleted
         \/ account[u].status # "active"
         \/ lg.password \notin {None, account[u].password}
         \/ \E q \in Requests : pc[q] \in Updating \ {"activate"} /\ user[q] = u
  PROVE  Overtaken(u, lg)
BY DEF Overtaken

LEMMA OverlookedStep == RaceInv /\ [Next]_vars => Overlooked'
<1> SUFFICES ASSUME RaceInv, [Next]_vars,
                    NEW q \in Requests, NEW t \in Tokens,
                    pc'[q] \in Updating \ {"activate"},
                    Unrevoked(t)', session'[t].user = user'[q]
             PROVE  t \in snapshot'[q] \/ session'[t].raced
  BY DEF Overlooked, Unrevoked
<1>0. LockInv /\ TypeOK /\ Overlooked /\ OneWriter
  BY DEF RaceInv, LockInv
<1>1. update_flush(q) \/ (pc'[q] = pc[q] /\ user'[q] = user[q] /\ snapshot'[q] = snapshot[q])
  <2>1. Writing(q)'
    BY DEF Writing
  <2>2. ~complete_login_flush(q)
    <3>1. complete_login_flush(q) => pc'[q] \in {"idle", "linked", "activated"}
      BY <1>0, DoneTypes DEF complete_login_flush, Goto, TypeOK
    <3> QED
      BY <3>1 DEF Updating
  <2> QED
    BY <1>0, <2>1, <2>2, WritersGoOn DEF Kept
<1>2. CASE update_flush(q)
  <2>1. pc'[q] = Flushed[pc[q]] /\ pc[q] \in DOMAIN Flushed
    BY <1>0, <1>2 DEF update_flush, Goto, TypeOK
  <2>2. pc[q] # "read_activate"
    BY <2>1, FlushedTypes
  <2>3. snapshot'[q] = {s \in Tokens : Unrevoked(s) /\ session[s].user = user[q]}
    BY <1>0, <1>2, <2>2 DEF update_flush, TypeOK
  <2>4. UNCHANGED <<session, user>>
    BY <1>2 DEF update_flush
  <2> QED
    BY <2>3, <2>4 DEF Unrevoked
<1>3. ASSUME pc'[q] = pc[q], user'[q] = user[q], snapshot'[q] = snapshot[q],
             NEW r \in Requests, login_commit(r) \/ sso_commit(r)
      PROVE  t \in snapshot'[q] \/ session'[t].raced
  <2>1. PICK n \in Tokens :
          /\ session'[n].user = user[r] /\ user[r] \in Users
          /\ pc[r] \notin SigningOn /\ Overtaken(user[r], login[r]) => session'[n].raced
          /\ \A s \in Tokens \ {n} : session'[s] = session[s]
    BY <1>0, <1>3, LoginCommitEffect
  <2>2. CASE t = n
    <3>1. pc[q] \in Updating \ {"activate"} /\ user[q] = user[r]
      BY <1>3, <2>1, <2>2
    <3>2. pc[r] \notin SigningOn
      <4>1. SUFFICES ASSUME pc[r] \in SigningOn PROVE FALSE
        OBVIOUS
      <4>2. q # r
        BY <3>1, <4>1, StepTypes
      <4> QED
        BY <1>0, <3>1, <4>1, <4>2 DEF OneWriter, Writing
    <3>3. Overtaken(user[r], login[r])
      BY <2>1, <3>1, OvertakenMarked
    <3> QED
      BY <2>1, <2>2, <3>2, <3>3
  <2>3. CASE t # n
    BY <1>0, <1>3, <2>1, <2>3 DEF Overlooked, Unrevoked
  <2> QED
    BY <2>2, <2>3
<1>4. ASSUME pc'[q] = pc[q], user'[q] = user[q], snapshot'[q] = snapshot[q],
             NEW r \in Requests, refresh_commit(r)
      PROVE  t \in snapshot'[q] \/ session'[t].raced
  <2> DEFINE o == token[r]
  <2>1. PICK n \in Tokens :
          /\ o \in Tokens
          /\ session'[o].state = "revoked"
          /\ session'[n].user = session[o].user /\ session[o].user \in Users
          /\ \/ session[o].raced
             \/ Overtaken(session[o].user, session[o].login)
             => session'[n].raced
          /\ \A s \in Tokens \ {o, n} : session'[s] = session[s]
    BY <1>0, <1>4, RefreshCommitEffect
  <2> HIDE DEF o
  <2>2. CASE t = n
    BY <1>4, <2>1, <2>2, OvertakenMarked
  <2>3. CASE t # n
    BY <1>0, <1>4, <2>1, <2>3 DEF Overlooked, Unrevoked
  <2> QED
    BY <2>2, <2>3
<1>5. ASSUME pc'[q] = pc[q], user'[q] = user[q], snapshot'[q] = snapshot[q],
             \A r \in Requests : ~Issues(r)
      PROVE  t \in snapshot'[q] \/ session'[t].raced
  <2>1. Unrevoked(t) /\ session'[t].user = session[t].user /\ session'[t].raced = session[t].raced
    BY <1>0, <1>5, OnlyCommitsIssue
  <2> QED
    BY <1>0, <1>5, <2>1 DEF Overlooked
<1> QED
  BY <1>1, <1>2, <1>3, <1>4, <1>5 DEF Issues

\* What is asked of a session, by the account and the login it goes back to.
LockedOutOf(a) == a.deleted \/ a.status # "active"

Excused(a, s) == /\ LockedOutOf(a) => s.raced \/ s.login.deleted
                 /\ s.login.password \notin {None, a.password} => s.raced

AllExcused == \A t \in Tokens : Unrevoked(t) => Excused(account[session[t].user], session[t])

LEMMA AllExcusedMeans == AllExcused <=> LockedOutButByRaceOrSso /\ OldPasswordOnlyByRace
BY DEF AllExcused, Excused, LockedOutOf, LockedOutButByRaceOrSso, OldPasswordOnlyByRace

\* The accounts that a commit changes, and what it makes of their sessions.
LEMMA ExcusedByUpdate ==
  ASSUME RaceInv, NEW r \in Requests, update_commit(r),
         NEW t \in Tokens, Unrevoked(t), Unrevoked(t)', session'[t].user = session[t].user,
         session'[t].login = session[t].login, session'[t].raced = session[t].raced
  PROVE  Excused(account'[session'[t].user], session'[t])
<1>0. LockInv /\ TypeOK /\ Overlooked /\ ChainsIssued /\ AllExcused
  BY AllExcusedMeans DEF RaceInv, LockInv
<1> DEFINE u == session[t].user
<1>1. u \in Users /\ account[u] \in Account
  BY <1>0 DEF ChainsIssued, Unrevoked, Issued, TypeOK
<1>2. Excused(account[u], session[t])
  BY <1>0 DEF AllExcused
<1>3. /\ user[r] \in Users
      /\ account' = [account EXCEPT ![user[r]] = Changed(account[user[r]], pc[r])]
  BY <1>0, UpdateCommitEffect
<1>4. CASE u # user[r]
  <2>1. account'[u] = account[u]
    BY <1>0, <1>1, <1>3, <1>4 DEF TypeOK
  <2> QED
    BY <1>2, <2>1 DEF Excused
<1>5. CASE u = user[r] /\ pc[r] = "activate"
  <2>1. account'[u] = Changed(account[u], "activate")
    BY <1>0, <1>3, <1>5 DEF TypeOK
  <2>2. /\ account'[u].deleted <=> account[u].deleted
        /\ account'[u].status = "active"
        /\ account'[u].password = account[u].password
    BY <1>1, <2>1, ChangedType
  <2> QED
    BY <1>2, <2>2 DEF Excused, LockedOutOf
<1>6. CASE u = user[r] /\ pc[r] # "activate"
  <2>1. pc[r] \in Updating \ {"activate"}
    BY <1>6 DEF update_commit
  <2>2. t \in snapshot[r] \/ session[t].raced
    BY <1>0, <1>6, <2>1 DEF Overlooked
  <2>3. t \notin snapshot[r]
    <3>1. t \in snapshot[r] => session'[t] = Revoked(session[t])
      BY DEF update_commit
    <3>2. session[t] \in Session
      BY <1>0 DEF TypeOK
    <3> QED
      BY <3>1, <3>2, RevokedType DEF Unrevoked
  <2> QED
    BY <2>2, <2>3 DEF Excused
<1> QED
  BY <1>4, <1>5, <1>6

LEMMA ExcusedBySignOn ==
  ASSUME RaceInv, NEW r \in Requests, sso_commit(r), NEW t \in Tokens, Unrevoked(t)'
  PROVE  Excused(account'[session'[t].user], session'[t])
<1>0. LockInv /\ TypeOK /\ ChainsIssued /\ AllExcused /\ Rechecked
  BY AllExcusedMeans DEF RaceInv, LockInv
<1> DEFINE v == user[r]
<1>1. v \in Users /\ account[v] \in Account /\ pc[r] \in {"sso_commit"} \union SigningOn
  BY <1>0 DEF sso_commit, TypeOK
<1>2. /\ \A u \in Users \ {v} : account'[u] = account[u]
      /\ account'[v].deleted = account[v].deleted
      /\ account'[v].password = account[v].password
      /\ account'[v].status \in {"active", account[v].status}
      /\ pc[r] = "activated" => account'[v].status = "active"
  BY <1>0, <1>1, StatusType DEF sso_commit, TypeOK
<1>3. PICK n \in Tokens :
        /\ session'[n].user = v /\ session'[n].login = login[r]
        /\ pc[r] \notin SigningOn /\ Overtaken(v, login[r]) => session'[n].raced
        /\ \A s \in Tokens \ {n} : session'[s] = session[s]
  BY <1>0, LoginCommitEffect
<1> HIDE DEF v
<1>4. CASE t # n
  <2>1. Unrevoked(t) /\ session'[t] = session[t]
    BY <1>3, <1>4 DEF Unrevoked
  <2>2. session[t].user \in Users /\ Excused(account[session[t].user], session[t])
    BY <1>0, <2>1 DEF AllExcused, ChainsIssued, Unrevoked, Issued
  <2> QED
    BY <1>2, <2>1, <2>2 DEF Excused, LockedOutOf
<1>5. CASE t = n
  <2>1. login[r].password = None
    BY <1>0, <1>1 DEF Rechecked, SsoSteps
  <2>2. CASE pc[r] \in SigningOn
    <3>1. account[v].deleted => login[r].deleted
      BY <1>0, <2>2 DEF Rechecked, v
    <3>2. account'[v].status = "active"
      BY <1>0, <1>2, <2>2 DEF Rechecked, SigningOn, v
    <3> QED
      BY <1>2, <1>3, <1>5, <2>1, <3>1, <3>2 DEF Excused, LockedOutOf
  <2>3. CASE pc[r] \notin SigningOn
    <3>1. LockedOutOf(account'[v]) /\ ~login[r].deleted => Overtaken(v, login[r])
      BY <1>1, <1>2, OvertakenMarked DEF LockedOutOf
    <3> QED
      BY <1>3, <1>5, <2>1, <2>3, <3>1 DEF Excused
  <2> QED
    BY <2>2, <2>3
<1> QED
  BY <1>4, <1>5

LEMMA AllExcusedStep == RaceInv /\ [Next]_vars => AllExcused'
<1> SUFFICES ASSUME RaceInv, [Next]_vars, NEW t \in Tokens, Unrevoked(t)'
             PROVE  Excused(account'[session'[t].user], session'[t])
  BY DEF AllExcused, Excused, LockedOutOf
<1>0. LockInv /\ TypeOK /\ ChainsIssued /\ AllExcused
  BY AllExcusedMeans DEF RaceInv, LockInv
<1>1. ASSUME NEW r \in Requests, login_commit(r)
      PROVE  Excused(account'[session'[t].user], session'[t])
  <2>1. PICK n \in Tokens : /\ session'[n].user = user[r] /\ user[r] \in Users
                            /\ session'[n].login = login[r]
                            /\ pc[r] \notin SigningOn /\ Overtaken(user[r], login[r])
                                 => session'[n].raced
                            /\ \A s \in Tokens \ {n} : session'[s] = session[s]
    BY <1>0, <1>1, LoginCommitEffect
  <2>2. account' = account /\ pc[r] \notin SigningOn
    BY <1>1 DEF login_commit, SigningOn
  <2>3. CASE t = n
    <3>1. \/ LockedOutOf(account[user[r]]) /\ ~login[r].deleted
          \/ login[r].password \notin {None, account[user[r]].password}
          => Overtaken(user[r], login[r])
      BY <2>1, OvertakenMarked DEF LockedOutOf
    <3> QED
      BY <2>1, <2>2, <2>3, <3>1 DEF Excused
  <2>4. CASE t # n
    BY <1>0, <2>1, <2>2, <2>4 DEF AllExcused, Unrevoked
  <2> QED
    BY <2>3, <2>4
<1>2. ASSUME NEW r \in Requests, refresh_commit(r)
      PROVE  Excused(account'[session'[t].user], session'[t])
  <2> DEFINE o == token[r]
             u == session[o].user
  <2>1. PICK n \in Tokens :
          /\ o \in Tokens
          /\ session'[o].state = "revoked"
          /\ session'[n].user = u /\ u \in Users
          /\ session'[n].login = session[o].login
          /\ \/ session[o].raced
             \/ Overtaken(u, session[o].login)
             => session'[n].raced
          /\ \A s \in Tokens \ {o, n} : session'[s] = session[s]
    BY <1>0, <1>2, RefreshCommitEffect
  <2>2. account' = account
    BY <1>2 DEF refresh_commit
  <2> HIDE DEF o
  <2>3. CASE t = n
    <3>1. \/ LockedOutOf(account[u]) /\ ~session[o].login.deleted
          \/ session[o].login.password \notin {None, account[u].password}
          => Overtaken(u, session[o].login)
      BY <2>1, OvertakenMarked DEF LockedOutOf
    <3> HIDE DEF u
    <3> QED
      BY <2>1, <2>2, <2>3, <3>1 DEF Excused
  <2>4. CASE t # n
    BY <1>0, <2>1, <2>2, <2>4 DEF AllExcused, Unrevoked
  <2> QED
    BY <2>3, <2>4
<1>3. ASSUME NEW r \in Requests, sso_commit(r)
      PROVE  Excused(account'[session'[t].user], session'[t])
  BY <1>3, ExcusedBySignOn
<1>4. ASSUME \A r \in Requests : ~Issues(r)
      PROVE  Excused(account'[session'[t].user], session'[t])
  <2>1. /\ Unrevoked(t) /\ session'[t].user = session[t].user
        /\ session'[t].login = session[t].login
        /\ session'[t].raced = session[t].raced
    BY <1>0, <1>4, OnlyCommitsIssue
  <2>2. ASSUME NEW r \in Requests, update_commit(r)
        PROVE  Excused(account'[session'[t].user], session'[t])
    BY <2>1, <2>2, ExcusedByUpdate
  <2>3. CASE account' = account
    BY <1>0, <2>1, <2>3 DEF AllExcused, Excused
  <2> QED
    BY <1>4, <2>2, <2>3, AccountsKept DEF Issues
<1> QED
  BY <1>1, <1>2, <1>3, <1>4 DEF Issues

LEMMA RaceHolds == Spec => []RaceInv
<1>1. Init => RaceInv
  <2> SUFFICES ASSUME Init PROVE RaceInv
    OBVIOUS
  <2>1. \A t \in Tokens : ~Unrevoked(t)
    BY DEF Init, Unrevoked, Unused
  <2>2. \A r \in Requests : pc[r] \notin SsoSteps \union Updating \union SigningOn
    BY StepTypes DEF Init, SsoSteps
  <2>3. Overlooked /\ LockedOutButByRaceOrSso /\ OldPasswordOnlyByRace
    BY <2>1 DEF Overlooked, LockedOutButByRaceOrSso, OldPasswordOnlyByRace
  <2>4. OneWriter /\ Rechecked
    BY <2>2 DEF OneWriter, Writing, Rechecked, SigningOn
  <2> QED
    BY <2>3, <2>4, LockInitially DEF RaceInv
<1>2. RaceInv /\ [Next]_vars => RaceInv'
  <2> SUFFICES ASSUME RaceInv, [Next]_vars PROVE RaceInv'
    OBVIOUS
  <2>1. LockInv' /\ OneWriter' /\ Rechecked'
    BY LockStep, OneWriterStep, RecheckedStep DEF RaceInv
  <2>2. Overlooked' /\ AllExcused'
    BY OverlookedStep, AllExcusedStep
  <2>3. LockedOutButByRaceOrSso' /\ OldPasswordOnlyByRace'
    BY <2>2, AllExcusedMeans, PTL
  <2> QED
    BY <2>1, <2>2, <2>3 DEF RaceInv
<1> QED
  BY <1>1, <1>2, PTL DEF Spec

\* An account that is deleted or not active keeps no usable session but those of
\* logins and refreshes that the change overtook, and those of sign-ons through a
\* provider after it was deleted (LockedOutButByRaceOrSso).
THEOREM LockedOut == Spec => []LockedOutButByRaceOrSso
<1>1. RaceInv => LockedOutButByRaceOrSso
  BY DEF RaceInv
<1> QED
  BY <1>1, RaceHolds, PTL

\* A password change leaves no session of the old password but those that it
\* overtook (OldPasswordOnlyByRace).
THEOREM OldPasswordsEnd == Spec => []OldPasswordOnlyByRace
<1>1. RaceInv => OldPasswordOnlyByRace
  BY DEF RaceInv
<1> QED
  BY <1>1, RaceHolds, PTL

-------------------------------------------------------------------------------
(* Locks are taken in one order                                            *)

\* The users row is locked before the sessions; who holds a session waits for
\* nothing but the commit of a sign-on, which waits for nothing: some request can
\* always go on (NoDeadlock).
THEOREM LocksOrdered == Spec => []NoDeadlock
<1>1. NoDeadlock
  <2> DEFINE SomeGoesOn == \E q \in Requests : pc[q] # "idle" /\ ~Waits(q)
  <2>1. ASSUME NEW q \in Requests, pc[q] \in SigningOn PROVE SomeGoesOn
    BY <2>1, StepTypes DEF Waits
  <2>2. ASSUME NEW r \in Requests, NEW u, KeyLocked(u, r) PROVE SomeGoesOn
    BY <2>1, <2>2 DEF KeyLocked, SigningOn
  <2>3. ASSUME NEW q \in Requests, Holds(q) PROVE SomeGoesOn
    <3>1. pc[q] # "idle" /\ (Waits(q) => KeyLocked(session[token[q]].user, q))
      BY <2>3, FlushedTypes DEF Holds, Waits, Updating
    <3> QED
      BY <2>2, <3>1
  <2>4. ASSUME NEW r \in Requests, NEW t, Locked(t, r) PROVE SomeGoesOn
    BY <2>3, <2>4 DEF Locked, Holds
  <2>5. ASSUME NEW r \in Requests, UserLocked(user[r], r) PROVE SomeGoesOn
    <3>1. PICK q \in Requests : pc[q] \in Updating \union SigningOn
      BY <2>5 DEF UserLocked
    <3>2. CASE pc[q] \in Updating
      <4>1. pc[q] # "idle" /\ (Waits(q) => \E t \in snapshot[q] : Locked(t, q))
        BY <3>2, FlushedTypes DEF Waits, Updating
      <4> QED
        BY <2>4, <4>1
    <3> QED
      BY <2>1, <3>1, <3>2
  <2> HIDE DEF SomeGoesOn
  <2>6. ASSUME NEW r \in Requests, Waits(r) PROVE SomeGoesOn
    BY <2>2, <2>4, <2>5, <2>6 DEF Waits
  <2> QED
    BY <2>6 DEF NoDeadlock, SomeGoesOn
<1> QED
  BY <1>1, PTL
===============================================================================

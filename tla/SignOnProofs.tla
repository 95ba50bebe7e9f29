------------------------------ MODULE SignOnProofs ------------------------------
(***************************************************************************)
(* The two ways to sign on, for any number of logins, callbacks and other  *)
(* requests served at the same time.                                       *)
(***************************************************************************)
EXTENDS SingleSignOn, RateLimiter, OrmProofs, FiniteSetTheorems

-------------------------------------------------------------------------------
(* Passwords: the bound on remembered failures                             *)

LimiterTypeOK == /\ hits \in Seq(Nat)
                 /\ \A i \in DOMAIN hits : hits[i] <= window_seconds
                 /\ passed \in SUBSET Logins

\* A login that has passed check has its place among the failures, whether or
\* not it will be one.
PlacesTaken == Len(hits) + Cardinality(passed) < max_attempts + Cardinality(Logins)

LimiterInv == LimiterTypeOK /\ PlacesTaken

\* What _prune leaves is not longer, and its ages are ages of before.
LEMMA PruneShortens ==
  ASSUME NEW h \in Seq(Nat), \A i \in DOMAIN h : h[i] <= window_seconds
  PROVE  /\ _prune(h) \in Seq(Nat)
         /\ Len(_prune(h)) \in Nat
         /\ Len(_prune(h)) <= Len(h)
         /\ \A i \in DOMAIN _prune(h) : _prune(h)[i] <= window_seconds
<1>1. Cardinality(Old(h)) \in Nat
  <2>1. DOMAIN h = 1..Len(h) /\ Len(h) \in Nat
    OBVIOUS
  <2>2. IsFiniteSet(DOMAIN h)
    BY <2>1, FS_Interval
  <2>3. IsFiniteSet(Old(h))
    BY <2>2, FS_Subset DEF Old
  <2> QED
    BY <2>3, FS_CardinalityType
<1> DEFINE n == Cardinality(Old(h))
<1> HIDE DEF n
<1>2. _prune(h) = SubSeq(h, n + 1, Len(h))
  BY DEF _prune, n
<1>3. n \in Nat
  BY <1>1 DEF n
<1>4. SubSeq(h, n + 1, Len(h)) \in Seq(Nat)
  BY <1>3
<1>5. Len(SubSeq(h, n + 1, Len(h))) <= Len(h)
  BY <1>3
<1>6. ASSUME NEW i \in DOMAIN SubSeq(h, n + 1, Len(h))
      PROVE  SubSeq(h, n + 1, Len(h))[i] <= window_seconds
  BY <1>3, LimiterAssumption
<1> QED
  BY <1>2, <1>4, <1>5, <1>6

\* The numbers of logins.
LEMMA CountsAreNumbers ==
  ASSUME NEW S \in SUBSET Logins
  PROVE  /\ IsFiniteSet(S)
         /\ Cardinality(S) \in Nat
         /\ Cardinality(S) <= Cardinality(Logins)
         /\ Cardinality(Logins) \in Nat
         /\ Cardinality({}) = 0
         /\ \A a \in S : Cardinality(S \ {a}) = Cardinality(S) - 1
<1>1. IsFiniteSet(Logins)
  BY LimiterAssumption
<1>2. IsFiniteSet(S)
  BY <1>1, FS_Subset
<1>3. Cardinality(S) <= Cardinality(Logins)
  BY <1>1, FS_Subset
<1>4. Cardinality(S) \in Nat /\ Cardinality(Logins) \in Nat
  BY <1>1, <1>2, FS_CardinalityType
<1>5. Cardinality({}) = 0
  BY FS_EmptySet
<1>6. \A a \in S : Cardinality(S \ {a}) = Cardinality(S) - 1
  BY <1>2, FS_RemoveElement
<1> QED
  BY <1>2, <1>3, <1>4, <1>5, <1>6

LEMMA LimiterInitially == LimiterInit => LimiterInv
<1> SUFFICES ASSUME LimiterInit PROVE LimiterInv
  OBVIOUS
<1>1. LimiterTypeOK
  BY DEF LimiterInit, LimiterTypeOK
<1>2. PlacesTaken
  <2>1. Cardinality({}) = 0 /\ Cardinality(Logins) \in Nat
    BY CountsAreNumbers
  <2> QED
    BY <2>1, LimiterAssumption DEF LimiterInit, PlacesTaken
<1> QED
  BY <1>1, <1>2 DEF LimiterInv

LEMMA LimiterStep == LimiterInv /\ [LimiterNext]_limiter => LimiterInv'
<1> SUFFICES ASSUME LimiterInv, [LimiterNext]_limiter PROVE LimiterInv'
  OBVIOUS
<1>1. LimiterTypeOK /\ PlacesTaken
  BY DEF LimiterInv
<1>2. /\ _prune(hits) \in Seq(Nat)
      /\ Len(_prune(hits)) \in Nat
      /\ Len(_prune(hits)) <= Len(hits)
      /\ \A i \in DOMAIN _prune(hits) : _prune(hits)[i] <= window_seconds
  BY <1>1, PruneShortens DEF LimiterTypeOK
<1>3. /\ Cardinality(passed) \in Nat
      /\ Cardinality(Logins) \in Nat
      /\ Cardinality({}) = 0
      /\ \A a \in passed : Cardinality(passed \ {a}) = Cardinality(passed) - 1
  BY <1>1, CountsAreNumbers DEF LimiterTypeOK
<1>4. hits \in Seq(Nat) /\ Len(hits) \in Nat /\ max_attempts \in Nat \ {0}
      /\ window_seconds \in Nat \ {0}
  BY <1>1, LimiterAssumption DEF LimiterTypeOK
<1>5. ASSUME NEW a \in Logins, check(a) PROVE LimiterInv'
  <2>1. LimiterTypeOK'
    <3>1. hits' = _prune(hits)
      BY <1>5 DEF check
    <3>2. passed' \in SUBSET Logins
      BY <1>1, <1>5 DEF check, LimiterTypeOK
    <3> QED
      BY <1>2, <3>1, <3>2 DEF LimiterTypeOK
  <2>2. CASE is_limited(hits)
    <3>1. hits' = _prune(hits) /\ passed' = passed
      BY <1>5, <2>2 DEF check
    <3>2. PlacesTaken'
      BY <1>1, <1>2, <1>3, <1>4, <3>1 DEF PlacesTaken
    <3> QED
      BY <2>1, <3>2 DEF LimiterInv
  <2>3. CASE ~is_limited(hits)
    <3>1. Len(hits') < max_attempts /\ Len(hits') \in Nat
      BY <1>2, <1>4, <1>5, <2>3 DEF check, is_limited
    <3>2. Cardinality(passed') \in Nat /\ Cardinality(passed') <= Cardinality(Logins)
      BY <2>1, CountsAreNumbers DEF LimiterTypeOK
    <3>3. PlacesTaken'
      BY <1>3, <1>4, <3>1, <3>2 DEF PlacesTaken
    <3> QED
      BY <2>1, <3>3 DEF LimiterInv
  <2> QED
    BY <2>2, <2>3
<1>6. ASSUME NEW a \in Logins, record(a) PROVE LimiterInv'
  <2>1. a \in passed /\ hits' = Append(_prune(hits), 0) /\ passed' = passed \ {a}
    BY <1>6 DEF record
  <2>2. LimiterTypeOK'
    BY <1>1, <1>2, <1>4, <2>1 DEF LimiterTypeOK
  <2>3. Len(hits') = Len(_prune(hits)) + 1
    BY <1>2, <2>1
  <2>4. Cardinality(passed') = Cardinality(passed) - 1
    BY <1>3, <2>1
  <2>5. PlacesTaken'
    BY <1>1, <1>2, <1>3, <1>4, <2>3, <2>4 DEF PlacesTaken
  <2> QED
    BY <2>2, <2>5 DEF LimiterInv
<1>7. ASSUME NEW a \in Logins, reset(a) PROVE LimiterInv'
  <2>1. a \in passed /\ hits' = <<>> /\ passed' = passed \ {a}
    BY <1>7 DEF reset
  <2>2. LimiterTypeOK'
    BY <1>1, <2>1 DEF LimiterTypeOK
  <2>3. Cardinality(passed') = Cardinality(passed) - 1
    BY <1>3, <2>1
  <2>4. PlacesTaken'
    BY <1>1, <1>3, <1>4, <2>1, <2>3 DEF PlacesTaken
  <2> QED
    BY <2>2, <2>4 DEF LimiterInv
<1>8. ASSUME NEW a \in Logins, inactive(a) PROVE LimiterInv'
  <2>1. a \in passed /\ hits' = hits /\ passed' = passed \ {a}
    BY <1>8 DEF inactive
  <2>2. LimiterTypeOK'
    BY <1>1, <2>1 DEF LimiterTypeOK
  <2>3. Cardinality(passed') = Cardinality(passed) - 1
    BY <1>3, <2>1
  <2>4. PlacesTaken'
    BY <1>1, <1>3, <1>4, <2>1, <2>3 DEF PlacesTaken
  <2> QED
    BY <2>2, <2>4 DEF LimiterInv
<1>9. CASE tick
  <2>1. passed' = passed
    BY <1>9 DEF tick
  <2>2. hits' = [i \in 1..Len(hits) |-> IF hits[i] < window_seconds THEN hits[i] + 1
                                        ELSE hits[i]]
    BY <1>4, <1>9 DEF tick
  <2>3. hits' \in Seq(Nat) /\ Len(hits') = Len(hits)
    BY <1>4, <2>2
  <2>4. \A i \in DOMAIN hits' : hits'[i] <= window_seconds
    BY <1>1, <1>4, <2>2 DEF LimiterTypeOK
  <2>5. LimiterTypeOK'
    BY <1>1, <2>1, <2>3, <2>4 DEF LimiterTypeOK
  <2>6. PlacesTaken'
    BY <1>1, <2>1, <2>3 DEF PlacesTaken
  <2> QED
    BY <2>5, <2>6 DEF LimiterInv
<1>10. CASE restart
  <2>1. LimiterTypeOK'
    BY <1>10 DEF restart, LimiterTypeOK
  <2>2. PlacesTaken'
    BY <1>3, <1>4, <1>10 DEF restart, PlacesTaken
  <2> QED
    BY <2>1, <2>2 DEF LimiterInv
<1>11. CASE UNCHANGED limiter
  BY <1>1, <1>11 DEF limiter, LimiterInv, LimiterTypeOK, PlacesTaken
<1> QED
  BY <1>5, <1>6, <1>7, <1>8, <1>9, <1>10, <1>11 DEF LimiterNext

\* However many logins are served at the same time, and whatever the settings of
\* the limiter, the failures it remembers stay below max_attempts plus the number
\* of those logins (check and record of core/rate_limit.py as routes/auth.py
\* calls them).
THEOREM FailuresBounded == LimiterSpec => []HitsBounded
<1>1. LimiterInv => HitsBounded
  <2> SUFFICES ASSUME LimiterInv PROVE HitsBounded
    OBVIOUS
  <2>1. Cardinality(passed) \in Nat /\ Cardinality(Logins) \in Nat /\ Len(hits) \in Nat
    BY CountsAreNumbers DEF LimiterInv, LimiterTypeOK
  <2> QED
    BY <2>1, LimiterAssumption DEF LimiterInv, LimiterTypeOK, PlacesTaken, HitsBounded
<1> QED
  BY <1>1, LimiterInitially, LimiterStep, PTL DEF LimiterSpec

-------------------------------------------------------------------------------
(* Providers: what is settled                                              *)

\* Tables keep their columns: users have a status, connections a tenant.
RowShape(x, row) ==
  /\ "exists" \in DOMAIN row
  /\ x \in Users => "tenant_id" \notin DOMAIN row
  /\ x \in Users /\ row.exists => "status" \in DOMAIN row
  /\ x \in Connections /\ row.exists => "tenant_id" \in DOMAIN row

Insert(w) == "exists" \in DOMAIN w

WriteShape(x, w) ==
  /\ Insert(w) => w.exists
  /\ x \in Users => "tenant_id" \notin DOMAIN w
  /\ x \in Users /\ Insert(w) => "status" \in DOMAIN w
  /\ x \in Connections /\ Insert(w) => "tenant_id" \in DOMAIN w

\* An update of a callback is of a connection that had no tenant when it was
\* loaded, or of an account that was invited if its status is to change.
Unsettled(r, x) ==
  \/ /\ x \in Connections /\ "tenant_id" \in DOMAIN loaded[r][x]
     /\ loaded[r][x].tenant_id = None
  \/ /\ x \in Users /\ db[x].exists /\ "tenant_id" \notin DOMAIN loaded[r][x]
     /\ "status" \in DOMAIN write[r][x] => loaded[r][x].status = "invited"

CallbackOK(r) ==
  caller[r] \in State =>
    /\ caller[r].purpose = "discover" =>
         \A x \in DOMAIN loaded[r] : x \in Connections /\ "tenant_id" \in DOMAIN loaded[r][x]
    /\ \A x \in DOMAIN write[r] : Insert(write[r][x]) \/ Unsettled(r, x)

SignOnRows == UNION {Rows, Connections, Sessions}

SignOnInv ==
  /\ OpenSessions /\ DOMAIN db = SignOnRows
  /\ \A x \in SignOnRows : RowShape(x, db[x])
  /\ \A r \in Requests : \A x \in DOMAIN write[r] : WriteShape(x, write[r][x])
  /\ \A r \in Requests : caller[r] = None => DOMAIN write[r] = {}
  /\ \A r \in Requests : CallbackOK(r)

\* A callback that does nothing finds its session as it was.
LEMMA CallbackSame ==
  ASSUME NEW q \in Requests, CallbackOK(q),
         caller'[q] = caller[q], loaded'[q] = loaded[q], write'[q] = write[q],
         \A x \in Users : db[x].exists => db'[x].exists
  PROVE  CallbackOK(q)'
<1> SUFFICES ASSUME caller[q] \in State
             PROVE  /\ caller'[q].purpose = "discover" =>
                         \A x \in DOMAIN loaded'[q] :
                           x \in Connections /\ "tenant_id" \in DOMAIN loaded'[q][x]
                    /\ \A x \in DOMAIN write'[q] : Insert(write'[q][x]) \/ Unsettled(q, x)'
  BY DEF CallbackOK
<1>1. caller'[q].purpose = "discover" =>
        \A x \in DOMAIN loaded'[q] : x \in Connections /\ "tenant_id" \in DOMAIN loaded'[q][x]
  BY DEF CallbackOK
<1>2. ASSUME NEW x \in DOMAIN write[q] PROVE Insert(write[q][x]) \/ Unsettled(q, x)'
  <2>1. Insert(write[q][x]) \/ Unsettled(q, x)
    BY DEF CallbackOK
  <2>2. CASE Unsettled(q, x)
    BY <2>2 DEF Unsettled
  <2> QED
    BY <2>1, <2>2
<1> QED
  BY <1>1, <1>2

\* A request of an admin writes rows with the columns of their tables.
LEMMA AdminFlush ==
  ASSUME SignOnInv, NEW r \in Requests, caller[r] \in Users, NEW rows, Flush(r, rows),
         \A x \in DOMAIN rows : WriteShape(x, rows[x])
  PROVE  SignOnInv'
<1>1. /\ OpenSessions' /\ db' = db /\ caller' = caller /\ loaded' = loaded
      /\ write'[r] = rows
      /\ \A q \in Requests \ {r} : write'[q] = write[q]
  BY FlushEffect DEF SignOnInv
<1>2. caller[r] \notin State /\ caller[r] # None
  BY AccountsAssumption, CallerAssumption
<1>3. ASSUME NEW q \in Requests PROVE CallbackOK(q)'
  <2>1. CASE q = r
    BY <1>1, <1>2, <2>1 DEF CallbackOK
  <2>2. CASE q # r
    BY <1>1, <2>2, CallbackSame DEF SignOnInv
  <2> QED
    BY <2>1, <2>2
<1>4. \A q \in Requests : \A x \in DOMAIN write'[q] : WriteShape(x, write'[q][x])
  BY <1>1 DEF SignOnInv
<1>5. \A q \in Requests : caller'[q] = None => DOMAIN write'[q] = {}
  BY <1>1, <1>2 DEF SignOnInv
<1>6. DOMAIN db' = SignOnRows /\ \A x \in SignOnRows : RowShape(x, db'[x])
  BY <1>1 DEF SignOnInv
<1> QED
  BY <1>1, <1>3, <1>4, <1>5, <1>6 DEF SignOnInv

\* A request that ends leaves an empty session.
LEMMA SignOnDone ==
  ASSUME SignOnInv, NEW r \in Requests, Done(r),
         DOMAIN db' = SignOnRows, \A x \in SignOnRows : RowShape(x, db'[x]),
         \A x \in Users : db[x].exists => db'[x].exists
  PROVE  SignOnInv'
<1>1. /\ OpenSessions'
      /\ caller'[r] = None /\ write'[r] = Nothing
      /\ \A q \in Requests \ {r} : /\ caller'[q] = caller[q] /\ loaded'[q] = loaded[q]
                                   /\ write'[q] = write[q]
  BY DoneEffect DEF SignOnInv
<1>2. None \notin State
  BY CallerAssumption
<1>3. ASSUME NEW q \in Requests PROVE CallbackOK(q)'
  <2>1. CASE q = r
    BY <1>1, <1>2, <2>1 DEF CallbackOK
  <2>2. CASE q # r
    BY <1>1, <2>2, CallbackSame DEF SignOnInv
  <2> QED
    BY <2>1, <2>2
<1>4. \A q \in Requests : \A x \in DOMAIN write'[q] : WriteShape(x, write'[q][x])
  BY <1>1, NothingIsEmpty DEF SignOnInv
<1>5. \A q \in Requests : caller'[q] = None => DOMAIN write'[q] = {}
  BY <1>1, NothingIsEmpty DEF SignOnInv
<1> QED
  BY <1>1, <1>3, <1>4, <1>5 DEF SignOnInv

\* A row keeps its columns when a request is merged into it.
LEMMA MergedShape ==
  ASSUME NEW x, NEW row, RowShape(x, row), NEW w, WriteShape(x, w), NEW new, new = w @@ row
  PROVE  RowShape(x, new) /\ (row.exists => new.exists)
<1>1. /\ DOMAIN new = DOMAIN w \union DOMAIN row
      /\ \A f \in DOMAIN w : new[f] = w[f]
      /\ \A f \in DOMAIN row \ DOMAIN w : new[f] = row[f]
  BY DEF @@
<1>2. CASE Insert(w)
  <2>1. new["exists"] = w["exists"]
    BY <1>1, <1>2 DEF Insert
  <2>2. new.exists
    BY <1>2, <2>1 DEF WriteShape
  <2> QED
    BY <1>1, <1>2, <2>2 DEF RowShape, WriteShape
<1>3. CASE ~Insert(w)
  <2>1. new["exists"] = row["exists"]
    BY <1>1, <1>3 DEF Insert, RowShape
  <2>2. new.exists <=> row.exists
    BY <2>1
  <2> QED
    BY <1>1, <2>2 DEF RowShape, WriteShape
<1> QED
  BY <1>2, <1>3

LEMMA SignOnCommit ==
  ASSUME SignOnInv, NEW r \in Requests, sso_commit(r)
  PROVE  SignOnInv'
<1>1. db' = Written(r) /\ Done(r)
  BY DEF sso_commit
<1>2. ASSUME NEW x \in SignOnRows
      PROVE  RowShape(x, db'[x]) /\ (db[x].exists => db'[x].exists)
  <2>1. x \in DOMAIN db /\ RowShape(x, db[x])
    BY DEF SignOnInv
  <2>2. CASE x \in DOMAIN write[r]
    <3>1. db'[x] = write[r][x] @@ db[x]
      BY <1>1, <2>1, <2>2, WrittenRows
    <3>2. WriteShape(x, write[r][x])
      BY <2>2 DEF SignOnInv
    <3> QED
      BY <2>1, <3>1, <3>2, MergedShape
  <2>3. CASE x \notin DOMAIN write[r]
    BY <1>1, <2>1, <2>3, WrittenRows
  <2> QED
    BY <2>2, <2>3
<1>3. DOMAIN db' = SignOnRows
  BY <1>1, WrittenRows DEF SignOnInv
<1>4. Users \subseteq SignOnRows
  BY DEF SignOnRows, Rows
<1> QED
  BY <1>1, <1>2, <1>3, <1>4, SignOnDone

\* A request ends without effect.
LEMMA SignOnEnds ==
  ASSUME SignOnInv, NEW r \in Requests, Done(r), UNCHANGED db
  PROVE  SignOnInv'
BY SignOnDone DEF SignOnInv

LEMMA SignOnAuthenticate ==
  ASSUME SignOnInv, NEW r \in Requests, NEW u \in Users, authenticate(r, u)
  PROVE  SignOnInv'
<1>1. /\ caller[r] = None /\ caller' = [caller EXCEPT ![r] = u]
      /\ db' = db /\ write' = write
      /\ \A q \in Requests \ {r} : loaded'[q] = loaded[q]
      /\ DOMAIN loaded' = DOMAIN loaded
  BY DEF authenticate, SignOnInv, OpenSessions
<1>2. OpenSessions' /\ caller'[r] = u /\ \A q \in Requests \ {r} : caller'[q] = caller[q]
  BY <1>1 DEF SignOnInv, OpenSessions
<1>3. u \notin State /\ u # None
  BY AccountsAssumption, CallerAssumption
<1>4. ASSUME NEW q \in Requests PROVE CallbackOK(q)'
  <2>1. CASE q = r
    BY <1>2, <1>3, <2>1 DEF CallbackOK
  <2>2. CASE q # r
    BY <1>1, <1>2, <2>2, CallbackSame DEF SignOnInv
  <2> QED
    BY <2>1, <2>2
<1>5. \A q \in Requests : caller'[q] = None => DOMAIN write'[q] = {}
  BY <1>1, <1>2, <1>3 DEF SignOnInv
<1>6. \A q \in Requests : \A x \in DOMAIN write'[q] : WriteShape(x, write'[q][x])
  BY <1>1 DEF SignOnInv
<1>7. DOMAIN db' = SignOnRows /\ \A x \in SignOnRows : RowShape(x, db'[x])
  BY <1>1 DEF SignOnInv
<1> QED
  BY <1>2, <1>4, <1>5, <1>6, <1>7 DEF SignOnInv

\* What tables are disjoint.
LEMMA SignOnTables ==
  /\ Users \intersect Connections = {} /\ Users \intersect Sessions = {}
  /\ Connections \intersect Sessions = {}
  /\ Users \intersect Orgs = {} /\ Orgs \intersect Connections = {}
BY AccountsAssumption, SsoAssumption DEF Rows

\* An account has a status and no tenant.
LEMMA AccountShape ==
  ASSUME NEW o, NEW role, NEW s, NEW u \in Users, NEW row, row = NewAccount(o, role, s)
  PROVE  WriteShape(u, row) /\ RowShape(u, row) /\ Insert(row)
<1> DEFINE user == NewUser(o, role, None)
           sso == [sso_subject_id |-> s]
<1>1. DOMAIN user = {"exists", "deleted", "org", "role", "status", "designation"} /\ user.exists
  BY DEF NewUser
<1>2. DOMAIN sso = {"sso_subject_id"}
  OBVIOUS
<1>3. row = user @@ sso
  BY DEF NewAccount
<1> HIDE DEF user, sso
<1>4. DOMAIN row = DOMAIN user \union DOMAIN sso /\ \A f \in DOMAIN user : row[f] = user[f]
  BY <1>3 DEF @@
<1>5. row["exists"] = user["exists"]
  BY <1>1, <1>4
<1>6. row.exists
  BY <1>1, <1>5
<1> QED
  BY <1>1, <1>2, <1>4, <1>6, SignOnTables DEF WriteShape, RowShape, Insert

LEMMA FlushOneRow ==
  ASSUME SignOnInv, NEW r \in Requests, caller[r] \in Users, NEW x, NEW w, Flush(r, x :> w),
         WriteShape(x, w)
  PROVE  SignOnInv'
<1> DEFINE rows == x :> w
<1>1. DOMAIN rows = {x} /\ rows[x] = w
  BY OneRow
<1> HIDE DEF rows
<1>2. Flush(r, rows)
  BY DEF rows
<1> QED
  BY <1>1, <1>2, AdminFlush

\* An update leaves a row where it is.
LEMMA UpdateShape ==
  ASSUME NEW x, NEW w, "exists" \notin DOMAIN w, "tenant_id" \notin DOMAIN w
  PROVE  WriteShape(x, w)
BY DEF WriteShape, Insert

LEMMA UpdateAccount ==
  ASSUME SignOnInv, NEW r \in Requests, caller[r] \in Users,
         NEW u \in Users, NEW role, NEW status, NEW d, update_user(r, u, role, status, d)
  PROVE  SignOnInv'
<1> DEFINE new == [role |-> role, status |-> status, designation |-> d]
           w == Changes(Loaded(r, u), new)
<1>1. Flush(r, u :> w)
  BY DEF update_user
<1>2. DOMAIN new = {"role", "status", "designation"}
  OBVIOUS
<1> HIDE DEF new
<1>3. DOMAIN w \subseteq DOMAIN new
  BY ChangesOfRow
<1> HIDE DEF w
<1>4. WriteShape(u, w)
  BY <1>2, <1>3, UpdateShape
<1> QED
  BY <1>1, <1>4, FlushOneRow

\* One column of an account or an organization.
LEMMA OneColumn ==
  ASSUME SignOnInv, NEW r \in Requests, caller[r] \in Users, NEW x, NEW w, Flush(r, x :> w),
         DOMAIN w \in {{"deleted"}, {"status"}}
  PROVE  SignOnInv'
<1>1. WriteShape(x, w)
  BY UpdateShape
<1> QED
  BY <1>1, FlushOneRow

LEMMA DeleteAccount ==
  ASSUME SignOnInv, NEW r \in Requests, caller[r] \in Users, NEW u, delete_user(r, u)
  PROVE  SignOnInv'
<1> DEFINE w == [deleted |-> TRUE]
<1>1. Flush(r, u :> w) /\ DOMAIN w = {"deleted"}
  BY DEF delete_user
<1> HIDE DEF w
<1> QED
  BY <1>1, OneColumn

LEMMA UpdateOrganization ==
  ASSUME SignOnInv, NEW r \in Requests, caller[r] \in Users, NEW o, NEW status,
         update_organization(r, o, status) \/ delete_organization(r, o)
  PROVE  SignOnInv'
<1>1. CASE update_organization(r, o, status)
  <2> DEFINE w == [status |-> status]
  <2>1. Flush(r, o :> w) /\ DOMAIN w = {"status"}
    BY <1>1 DEF update_organization
  <2> HIDE DEF w
  <2> QED
    BY <2>1, OneColumn
<1>2. CASE delete_organization(r, o)
  <2> DEFINE w == [deleted |-> TRUE]
  <2>1. Flush(r, o :> w) /\ DOMAIN w = {"deleted"}
    BY <1>2 DEF delete_organization
  <2> HIDE DEF w
  <2> QED
    BY <2>1, OneColumn
<1> QED
  BY <1>1, <1>2

LEMMA CreateConnection ==
  ASSUME SignOnInv, NEW r \in Requests, NEW c \in Connections, NEW o, NEW provider,
         create_connection(r, c, o, provider)
  PROVE  SignOnInv'
<1> DEFINE w == NewConnection(o, provider)
<1>1. caller[r] \in Users /\ Flush(r, c :> w)
  BY DEF create_connection, ServingAdmin
<1>2. DOMAIN w = {"exists", "deleted", "organization_id", "provider", "tenant_id"} /\ w.exists
  BY DEF NewConnection
<1> HIDE DEF w
<1>3. WriteShape(c, w)
  BY <1>2, SignOnTables DEF WriteShape, Insert
<1> QED
  BY <1>1, <1>3, FlushOneRow

LEMMA DeleteConnection ==
  ASSUME SignOnInv, NEW r \in Requests, NEW c \in Connections, delete_connection(r, c)
  PROVE  SignOnInv'
<1> DEFINE w == [deleted |-> TRUE]
<1>1. caller[r] \in Users /\ Flush(r, c :> w)
  BY DEF delete_connection, ServingAdmin
<1>2. DOMAIN w = {"deleted"}
  OBVIOUS
<1> HIDE DEF w
<1>3. WriteShape(c, w)
  BY <1>2, UpdateShape
<1> QED
  BY <1>1, <1>3, FlushOneRow

LEMMA SyncUsers ==
  ASSUME SignOnInv, NEW r \in Requests, NEW c \in Connections, NEW s, NEW u \in Users,
         sync_users(r, c, s, u)
  PROVE  SignOnInv'
<1>1. caller[r] \in Users
  BY DEF sync_users, ServingAdmin
<1> DEFINE w == [sso_subject_id |-> s]
           o == db[c].organization_id
           new == NewAccount(o, "employee", s)
<1>2. (\E v \in Matching(s, u, o) : Flush(r, v :> w)) \/ Flush(r, u :> new)
  BY DEF sync_users
<1>3. DOMAIN w = {"sso_subject_id"}
  OBVIOUS
<1>4. WriteShape(u, new)
  BY AccountShape
<1> HIDE DEF w, new, o
<1>5. \A v : WriteShape(v, w)
  BY <1>3, UpdateShape
<1>6. CASE \E v \in Matching(s, u, o) : Flush(r, v :> w)
  BY <1>1, <1>5, <1>6, FlushOneRow
<1>7. CASE Flush(r, u :> new)
  BY <1>1, <1>4, <1>7, FlushOneRow
<1> QED
  BY <1>2, <1>6, <1>7

\* A callback has loaded the connection it is for.
LEMMA CallbackBegins ==
  ASSUME SignOnInv, NEW r \in Requests, NEW s \in State, callback(r, s)
  PROVE  SignOnInv'
<1>1. caller[r] = None /\ DOMAIN write[r] = {} /\ db' = db /\ write' = write
  BY DEF callback, SignOnInv
<1>2. /\ OpenSessions' /\ caller'[r] = s
      /\ \A q \in Requests \ {r} : caller'[q] = caller[q] /\ loaded'[q] = loaded[q]
  BY DEF callback, SignOnInv, OpenSessions
<1>3. PICK c \in Connections : Present(c) /\ loaded'[r] = c :> db[c]
  BY DEF callback, SignOnInv, OpenSessions, get_connection_by_org_id
<1>4. \A x \in DOMAIN loaded'[r] : x \in Connections /\ "tenant_id" \in DOMAIN loaded'[r][x]
  <2>1. "tenant_id" \in DOMAIN db[c]
    BY <1>3 DEF Present, Live, SignOnInv, RowShape, SignOnRows
  <2>2. DOMAIN (c :> db[c]) = {c} /\ (c :> db[c])[c] = db[c]
    BY OneRow
  <2> QED
    BY <1>3, <2>1, <2>2
<1>5. ASSUME NEW q \in Requests PROVE CallbackOK(q)'
  <2>1. CASE q = r
    BY <1>1, <1>4, <2>1 DEF CallbackOK
  <2>2. CASE q # r
    BY <1>1, <1>2, <2>2, CallbackSame DEF SignOnInv
  <2> QED
    BY <2>1, <2>2
<1>6. \A q \in Requests : caller'[q] = None => DOMAIN write'[q] = {}
  BY <1>1, <1>2 DEF SignOnInv
<1>7. \A q \in Requests : \A x \in DOMAIN write'[q] : WriteShape(x, write'[q][x])
  BY <1>1 DEF SignOnInv
<1>8. DOMAIN db' = SignOnRows /\ \A x \in SignOnRows : RowShape(x, db'[x])
  BY <1>1 DEF SignOnInv
<1> QED
  BY <1>2, <1>5, <1>6, <1>7, <1>8 DEF SignOnInv

\* An answer that a callback gets, for a callback that has written nothing.
LEMMA CallbackFlush ==
  ASSUME SignOnInv, NEW r \in Requests, caller[r] \in State,
         caller' = caller, db' = db, OpenSessions',
         \A q \in Requests \ {r} : loaded'[q] = loaded[q] /\ write'[q] = write[q],
         \A x \in DOMAIN write'[r] : WriteShape(x, write'[r][x]),
         CallbackOK(r)'
  PROVE  SignOnInv'
<1>1. caller[r] # None
  BY CallerAssumption
<1>2. ASSUME NEW q \in Requests PROVE CallbackOK(q)'
  <2>1. CASE q # r
    BY <2>1, CallbackSame DEF SignOnInv
  <2> QED
    BY <2>1
<1>3. \A q \in Requests : \A x \in DOMAIN write'[q] : WriteShape(x, write'[q][x])
  BY DEF SignOnInv
<1>4. \A q \in Requests : caller'[q] = None => DOMAIN write'[q] = {}
  BY <1>1 DEF SignOnInv
<1> QED
  BY <1>2, <1>3, <1>4 DEF SignOnInv

\* A token of another tenant than the connection's is refused: the tenant that is
\* written is the first.
LEMMA DiscoveryStep ==
  ASSUME SignOnInv, NEW r \in Requests, NEW t \in Tenants, complete_discovery(r, t)
  PROVE  SignOnInv'
<1>1. caller[r] \in State /\ caller[r].purpose = "discover"
  BY DEF complete_discovery, Answered
<1> DEFINE w == [tenant_id |-> t]
<1>2. PICK c \in DOMAIN loaded[r] : /\ decode_id_token(loaded[r][c], t)
                                    /\ loaded[r][c].tenant_id # t
                                    /\ Flush(r, c :> w)
  BY DEF complete_discovery
<1>3. c \in Connections /\ "tenant_id" \in DOMAIN loaded[r][c]
  BY <1>1 DEF SignOnInv, CallbackOK
<1>4. loaded[r][c].tenant_id = None
  BY <1>2 DEF decode_id_token
<1>5. /\ OpenSessions' /\ db' = db /\ caller' = caller /\ loaded' = loaded
      /\ write'[r] = c :> w
      /\ \A q \in Requests \ {r} : write'[q] = write[q]
  BY <1>2, FlushEffect DEF SignOnInv
<1>6. DOMAIN w = {"tenant_id"}
  OBVIOUS
<1> HIDE DEF w
<1>7. DOMAIN write'[r] = {c} /\ write'[r][c] = w
  BY <1>5, OneRow
<1>8. WriteShape(c, w)
  BY <1>3, <1>6, SignOnTables DEF WriteShape, Insert
<1>9. Unsettled(r, c)'
  BY <1>3, <1>4, <1>5 DEF Unsettled
<1>10. CallbackOK(r)'
  <2>1. \A x \in DOMAIN loaded'[r] : x \in Connections /\ "tenant_id" \in DOMAIN loaded'[r][x]
    BY <1>1, <1>5 DEF SignOnInv, CallbackOK
  <2>2. \A x \in DOMAIN write'[r] : Insert(write'[r][x]) \/ Unsettled(r, x)'
    BY <1>7, <1>9
  <2> QED
    BY <2>1, <2>2 DEF CallbackOK
<1> QED
  BY <1>1, <1>5, <1>7, <1>8, <1>10, CallbackFlush

\* A sign-on makes a session, and an account or changes one: its status only if it
\* was invited.
LEMMA LoginStep ==
  ASSUME SignOnInv, NEW r \in Requests, NEW s, NEW u \in Users, NEW t, NEW n \in Sessions,
         complete_login(r, s, u, t, n)
  PROVE  SignOnInv'
<1>1. caller[r] \in State /\ caller[r].purpose = "login"
  BY DEF complete_login, Answered
<1> DEFINE Changed(v, new) == \/ \E o : new = NewAccount(o, "employee", s)
                              \/ /\ db[v].exists
                                 /\ DOMAIN new \subseteq {"sso_subject_id", "status"}
                                 /\ "status" \in DOMAIN new => db[v].status = "invited"
<1>a. \E v \in Users : \E new : SignOn(r, v, new, n) /\ Changed(v, new)
  <2>1. CASE /\ Matching(s, u, caller[r].of) = {}
             /\ SignOn(r, u, NewAccount(caller[r].of, "employee", s), n)
    BY <2>1
  <2>2. ASSUME NEW v \in Matching(s, u, caller[r].of), NEW row, row = db[v],
               NEW status, status = IF row.status = "invited" THEN "active" ELSE row.status,
               NEW columns, columns = [sso_subject_id |-> s, status |-> status],
               SignOn(r, v, Changes(row, columns), n)
        PROVE  \E x \in Users : \E new : SignOn(r, x, new, n) /\ Changed(x, new)
    <3>1. v \in Users /\ db[v].exists
      BY DEF Matching
    <3>2. DOMAIN Changes(row, columns) = {f \in DOMAIN columns : columns[f] # row[f]}
      BY ChangesOfRow
    <3>3. DOMAIN columns = {"sso_subject_id", "status"} /\ columns["status"] = status
      BY <2>2
    <3>4. "status" \in DOMAIN Changes(row, columns) => row.status = "invited"
      BY <2>2, <3>2, <3>3
    <3> QED
      BY <2>2, <3>1, <3>2, <3>3, <3>4
  <2>3. \/ \E v \in Matching(s, u, caller[r].of) :
             LET row == db[v]
                 status == IF row.status = "invited" THEN "active" ELSE row.status
             IN  SignOn(r, v, Changes(row, [sso_subject_id |-> s, status |-> status]), n)
        \/ /\ Matching(s, u, caller[r].of) = {}
           /\ SignOn(r, u, NewAccount(caller[r].of, "employee", s), n)
    BY DEF complete_login
  <2> QED
    BY <2>1, <2>2, <2>3
<1>b. PICK v \in Users : \E new : SignOn(r, v, new, n) /\ Changed(v, new)
  BY <1>a
<1>2. PICK new : SignOn(r, v, new, n) /\ Changed(v, new)
  BY <1>b
<1> DEFINE session == n :> NewSession(v)
           account == IF new = Nothing THEN Nothing ELSE v :> new
<1>3. /\ OpenSessions' /\ caller' = caller /\ db' = db
      /\ loaded'[r] = v :> db[v] @@ loaded[r]
      /\ write'[r] = session @@ account
      /\ \A q \in Requests \ {r} : loaded'[q] = loaded[q] /\ write'[q] = write[q]
  BY <1>2 DEF SignOn, SignOnInv, OpenSessions
<1>4. DOMAIN session = {n} /\ session[n] = NewSession(v)
  BY OneRow
<1>5. v \notin {n} /\ DOMAIN account \subseteq {v} /\ (v \in DOMAIN account => account[v] = new)
  BY SignOnTables, NothingIsEmpty, OneRow
<1> HIDE DEF session, account
<1>6. /\ DOMAIN write'[r] \subseteq {n, v}
      /\ write'[r][n] = NewSession(v)
      /\ v \in DOMAIN write'[r] => write'[r][v] = new
  BY <1>3, <1>4, <1>5 DEF @@
<1>7. loaded'[r][v] = db[v]
  BY <1>3 DEF @@, :>
<1>8. Insert(NewSession(v)) /\ WriteShape(n, NewSession(v))
  BY SignOnTables DEF NewSession, Insert, WriteShape
<1>9. WriteShape(v, new) /\ (Insert(new) \/ v \in DOMAIN write'[r] => Insert(new) \/ Unsettled(r, v)')
  <2>1. CASE \E o : new = NewAccount(o, "employee", s)
    BY <2>1, AccountShape
  <2>2. CASE /\ db[v].exists
             /\ DOMAIN new \subseteq {"sso_subject_id", "status"}
             /\ "status" \in DOMAIN new => db[v].status = "invited"
    <3>1. WriteShape(v, new)
      BY <2>2, UpdateShape
    <3>2. "tenant_id" \notin DOMAIN loaded'[r][v]
      BY <1>7 DEF SignOnInv, RowShape, SignOnRows, Rows
    <3>3. v \in DOMAIN write'[r] => Unsettled(r, v)'
      BY <1>3, <1>6, <1>7, <2>2, <3>2 DEF Unsettled
    <3> QED
      BY <3>1, <3>3
  <2> QED
    BY <1>2, <2>1, <2>2
<1>10. CallbackOK(r)'
  BY <1>1, <1>3, <1>6, <1>8, <1>9 DEF CallbackOK
<1>11. \A x \in DOMAIN write'[r] : WriteShape(x, write'[r][x])
  BY <1>6, <1>8, <1>9
<1> QED
  BY <1>1, <1>3, <1>10, <1>11, CallbackFlush

LEMMA SignOnInitially == SsoInit => SignOnInv
<1> SUFFICES ASSUME SsoInit PROVE SignOnInv
  OBVIOUS
<1>1. Idle
  BY DEF SsoInit
<1>2. PICK o \in Used(Orgs), known \in SUBSET (Used(Users) \ {Root}) :
        db = [x \in SignOnRows |->
               CASE x = Root -> NewAccount(None, "super_admin", None)
                 [] x \in Orgs -> NewOrg
                 [] x = Admin -> NewAccount(o, "admin", None)
                 [] x \in known -> [NewAccount(o, "manager", None) EXCEPT !.status = "invited"]
                 [] OTHER -> Absent]
  BY DEF SsoInit, SignOnRows
<1>3. Root \in Users /\ Admin \in Users /\ known \subseteq Users
  BY AccountsAssumption, SsoAssumption DEF Used
<1>4. \A x \in Users : RowShape(x, Absent) /\ RowShape(x, NewAccount(None, "super_admin", None))
                       /\ RowShape(x, NewAccount(o, "admin", None))
  BY AccountShape, SignOnTables DEF RowShape, Absent
<1>5. \A x \in Users : RowShape(x, [NewAccount(o, "manager", None) EXCEPT !.status = "invited"])
  <2> TAKE x \in Users
  <2> DEFINE row == NewAccount(o, "manager", None)
             known_row == [row EXCEPT !.status = "invited"]
  <2>1. RowShape(x, row) /\ WriteShape(x, row) /\ Insert(row)
    BY AccountShape
  <2> HIDE DEF row
  <2>2. DOMAIN known_row = DOMAIN row
    OBVIOUS
  <2>3. known_row["exists"] = row["exists"]
    BY <2>1 DEF RowShape
  <2> HIDE DEF known_row
  <2>4. known_row.exists <=> row.exists
    BY <2>3
  <2>5. RowShape(x, known_row)
    BY <2>1, <2>2, <2>4, SignOnTables DEF RowShape
  <2> QED
    BY <2>5 DEF known_row, row
<1>6. ASSUME NEW x \in SignOnRows PROVE RowShape(x, db[x])
  <2>1. CASE x \in Users
    <3>1. x \notin Orgs
      BY <2>1, SignOnTables
    <3>2. db[x] \in {Absent, NewAccount(None, "super_admin", None), NewAccount(o, "admin", None),
                     [NewAccount(o, "manager", None) EXCEPT !.status = "invited"]}
      BY <1>2, <3>1
    <3> QED
      BY <1>4, <1>5, <2>1, <3>2
  <2>2. CASE x \in Orgs
    <3>1. db[x] = NewOrg
      BY <1>2, <1>3, <2>2, SignOnTables
    <3>2. "exists" \in DOMAIN NewOrg
      BY DEF NewOrg
    <3> QED
      BY <2>2, <3>1, <3>2, SignOnTables DEF RowShape
  <2>3. CASE x \notin Users \union Orgs
    <3>1. db[x] = Absent
      BY <1>2, <1>3, <2>3
    <3> QED
      BY <2>3, <3>1 DEF RowShape, Absent
  <2> QED
    BY <2>1, <2>2, <2>3
<1>7. OpenSessions /\ \A r \in Requests : DOMAIN write[r] = {} /\ caller[r] = None
  BY <1>1, NothingIsEmpty DEF Idle, OpenSessions
<1>8. \A r \in Requests : CallbackOK(r)
  BY <1>7, CallerAssumption DEF CallbackOK
<1>9. DOMAIN db = SignOnRows
  BY <1>2
<1> QED
  BY <1>6, <1>7, <1>8, <1>9 DEF SignOnInv

LEMMA SignOnStep == SignOnInv /\ [SsoNext /\ UNCHANGED scope]_<<vars, states>> => SignOnInv'
<1> SUFFICES ASSUME SignOnInv, [SsoNext /\ UNCHANGED scope]_<<vars, states>> PROVE SignOnInv'
  OBVIOUS
<1> USE DEF Used
<1>1. ASSUME NEW r \in Requests, NEW u \in Users, authenticate(r, u) PROVE SignOnInv'
  BY <1>1, SignOnAuthenticate
<1>2. ASSUME NEW r \in Requests, NEW u \in Users, NEW status \in Statuses, ServingAdmin(r),
             \/ update_user(r, u, db[u].role, status, db[u].designation)
             \/ delete_user(r, u)
      PROVE  SignOnInv'
  <2>1. caller[r] \in Users
    BY <1>2 DEF ServingAdmin
  <2> QED
    BY <1>2, <2>1, UpdateAccount, DeleteAccount
<1>3. ASSUME NEW r \in Requests, NEW c \in Connections, NEW o \in Orgs,
             NEW provider \in {"azure_ad", "google"}, create_connection(r, c, o, provider)
      PROVE  SignOnInv'
  BY <1>3, CreateConnection
<1>4. ASSUME NEW r \in Requests, NEW c \in Connections, delete_connection(r, c) PROVE SignOnInv'
  BY <1>4, DeleteConnection
<1>5. ASSUME NEW r \in Requests, NEW c \in Connections, NEW s \in Subjects, NEW u \in Users,
             sync_users(r, c, s, u)
      PROVE  SignOnInv'
  BY <1>5, SyncUsers
<1>6. ASSUME NEW r \in Requests, NEW c \in Connections, authorize_discovery(r, c) PROVE SignOnInv'
  BY <1>6, SignOnEnds DEF authorize_discovery
<1>7. ASSUME NEW r \in Requests, NEW s \in State, callback(r, s) PROVE SignOnInv'
  BY <1>7, CallbackBegins
<1>8. ASSUME NEW r \in Requests, NEW t \in Tenants, complete_discovery(r, t) PROVE SignOnInv'
  BY <1>8, DiscoveryStep
<1>9. ASSUME NEW r \in Requests, NEW s \in Subjects, NEW u \in Users, NEW t \in Tenants,
             NEW n \in Sessions, complete_login(r, s, u, t, n)
      PROVE  SignOnInv'
  BY <1>9, LoginStep
<1>10. ASSUME NEW r \in Requests, sso_commit(r) PROVE SignOnInv'
  BY <1>10, SignOnCommit
<1>11. ASSUME NEW r \in Requests, sso_rollback(r) PROVE SignOnInv'
  BY <1>11, SignOnEnds DEF sso_rollback
<1>12. CASE UNCHANGED vars
  BY <1>12 DEF vars, SignOnInv, OpenSessions, CallbackOK, Unsettled
<1>13. ASSUME NEW o \in Orgs, authorize(o) PROVE UNCHANGED vars
  BY <1>13 DEF authorize
<1>14. ASSUME NEW s \in State, expire(s) PROVE UNCHANGED vars
  BY <1>14 DEF expire
<1>15. UNCHANGED <<vars, states>> => UNCHANGED vars
  OBVIOUS
<1>16. ASSUME NEW r \in Requests, NEW o \in Orgs, NEW status \in {"active", "suspended"},
              ServingAdmin(r), update_organization(r, o, status) \/ delete_organization(r, o)
       PROVE  SignOnInv'
  BY <1>16, UpdateOrganization DEF ServingAdmin
<1> QED
  BY <1>1, <1>2, <1>3, <1>4, <1>5, <1>6, <1>7, <1>8, <1>9, <1>10, <1>11, <1>12, <1>13, <1>14,
     <1>15, <1>16 DEF SsoNext

\* However redirects, callbacks and changes by admins interleave, a callback changes
\* the known tenant of a connection, or the status of a suspended account, only if
\* it had loaded the row before that was settled (_complete_discovery and
\* _complete_login of sso_service.py).
THEOREM SettledLost == SsoSpec => SettledLostOnlyByRace
<1>1. ASSUME SignOnInv, NEW r \in Requests, caller[r] \in State, db' = Written(r),
             NEW x \in DOMAIN write[r] \ Inserted(r),
             Settled(db[x]), Settlement(db'[x]) # Settlement(db[x])
      PROVE  ~Settled(loaded[r][x])
  <2>1. Unsettled(r, x)
    BY <1>1 DEF SignOnInv, CallbackOK, Inserted, Insert
  <2>2. CASE x \in Connections /\ "tenant_id" \in DOMAIN loaded[r][x]
             /\ loaded[r][x].tenant_id = None
    BY <2>2, SsoAssumption DEF Settled, Settlement, Statuses
  <2>3. CASE /\ x \in Users /\ db[x].exists /\ "tenant_id" \notin DOMAIN loaded[r][x]
             /\ "status" \in DOMAIN write[r][x] => loaded[r][x].status = "invited"
    <3>1. x \in SignOnRows
      BY <2>3 DEF SignOnRows, Rows
    <3>2. /\ db'[x] = write[r][x] @@ db[x]
          /\ "tenant_id" \notin DOMAIN db[x] /\ "status" \in DOMAIN db[x]
          /\ "tenant_id" \notin DOMAIN write[r][x]
      BY <1>1, <2>3, <3>1, WrittenRows DEF SignOnInv, RowShape, WriteShape
    <3>3. /\ DOMAIN db'[x] = DOMAIN write[r][x] \union DOMAIN db[x]
          /\ \A f \in DOMAIN db[x] \ DOMAIN write[r][x] : db'[x][f] = db[x][f]
      BY <3>2 DEF @@
    <3>4. Settlement(db'[x]) = db'[x].status /\ Settlement(db[x]) = db[x].status
      BY <3>2, <3>3 DEF Settlement
    <3>5. "status" \in DOMAIN write[r][x]
      BY <1>1, <3>2, <3>3, <3>4
    <3>6. Settlement(loaded[r][x]) = "invited"
      BY <2>3, <3>5 DEF Settlement
    <3> QED
      BY <3>6, SsoAssumption DEF Settled, Statuses
  <2> QED
    BY <2>1, <2>2, <2>3 DEF Unsettled
<1>2. SignOnInv => [\A r \in Requests : caller[r] \in State /\ db' = Written(r) =>
                      \A x \in DOMAIN write[r] \ Inserted(r) :
                        Settled(db[x]) /\ Settlement(db'[x]) # Settlement(db[x])
                          => ~Settled(loaded[r][x])]_vars
  BY <1>1
<1> QED
  BY <1>2, SignOnInitially, SignOnStep, PTL DEF SsoSpec, SettledLostOnlyByRace
===============================================================================

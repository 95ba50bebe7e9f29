--------------------------- MODULE DiscussionProofs ---------------------------
(* Theorems about Discussion and DiscussionAccess.                         *)
EXTENDS DiscussionAccess, TLAPS, FiniteSetTheorems, SequenceTheorems, WellFoundedInduction

-------------------------------------------------------------------------------
(* Order                                                                   *)

\* R is a strict order of S.
Orders(R, S) == /\ \A x \in S : <<x, x>> \notin R
                /\ \A x, y, z \in S : <<x, y>> \in R /\ <<y, z>> \in R => <<x, z>> \in R

\* A finite set that is not empty has an element that is before no other.
LEMMA LastElement ==
  ASSUME NEW S, IsFiniteSet(S), S # {}, NEW R, Orders(R, S)
  PROVE  \E x \in S : \A y \in S : <<x, y>> \notin R
<1> DEFINE HasLast(U) == \E x \in U : \A y \in U : <<x, y>> \notin R
           Bad == {U \in SUBSET S : U # {} /\ ~HasLast(U)}
<1>1. SUFFICES ASSUME Bad # {} PROVE FALSE
  OBVIOUS
<1>2. IsWellFoundedOn(StrictSubsetOrdering(S), SUBSET S)
  BY FS_StrictSubsetOrderingWellFounded, FS_FiniteSubsetsOfFinite
<1>3. Bad \subseteq SUBSET S
  OBVIOUS
<1> HIDE DEF Bad
<1>4. PICK U \in Bad : \A V \in Bad : <<V, U>> \notin StrictSubsetOrdering(S)
  BY <1>1, <1>2, <1>3, WFMin
<1> USE DEF Bad
<1>5. PICK x \in U : TRUE
  BY <1>4
<1> DEFINE V == {y \in U : <<x, y>> \in R}
<1>6. V \in SUBSET S /\ V # U /\ V \subseteq U
  BY <1>4, <1>5 DEF Orders
<1>7. <<V, U>> \in StrictSubsetOrdering(S)
  BY <1>4, <1>6 DEF StrictSubsetOrdering
<1>8. V \notin Bad
  BY <1>4, <1>7
<1>9. V # {}
  BY <1>4, <1>5
<1>10. PICK z \in V : \A y \in V : <<z, y>> \notin R
  BY <1>6, <1>8, <1>9
<1>11. \A y \in U : <<z, y>> \notin R
  <2> SUFFICES ASSUME NEW y \in U, <<z, y>> \in R PROVE FALSE
    OBVIOUS
  <2>1. x \in S /\ y \in S /\ z \in S /\ <<x, z>> \in R
    BY <1>4, <1>5, <1>10
  <2>2. <<x, y>> \in R
    BY <2>1 DEF Orders
  <2> QED
    BY <1>10, <2>2
<1> QED
  BY <1>4, <1>10, <1>11

InOrderOf(seq, S, R) == /\ seq \in Bijection(1 .. Cardinality(S), S)
                        /\ \A i, j \in 1 .. Cardinality(S) : i < j => <<seq[j], seq[i]>> \notin R

\* Every finite set can be put in order: its last element goes to the end.
LEMMA OrderExists ==
  ASSUME NEW S, IsFiniteSet(S), NEW R, Orders(R, S)
  PROVE  \E seq : InOrderOf(seq, S, R)
<1> DEFINE Bad == {U \in SUBSET S : ~\E seq : InOrderOf(seq, U, R)}
<1>1. SUFFICES ASSUME Bad # {} PROVE FALSE
  OBVIOUS
<1>2. IsWellFoundedOn(StrictSubsetOrdering(S), SUBSET S)
  BY FS_StrictSubsetOrderingWellFounded, FS_FiniteSubsetsOfFinite
<1>3. Bad \subseteq SUBSET S
  OBVIOUS
<1> HIDE DEF Bad
<1>4. PICK U \in Bad : \A V \in Bad : <<V, U>> \notin StrictSubsetOrdering(S)
  BY <1>1, <1>2, <1>3, WFMin
<1> USE DEF Bad
<1>5. U \subseteq S /\ IsFiniteSet(U) /\ Orders(R, U)
  BY <1>4, FS_Subset DEF Orders
<1>6. U # {}
  <2> SUFFICES ASSUME U = {} PROVE FALSE
    OBVIOUS
  <2>1. Cardinality(U) = 0
    BY FS_EmptySet
  <2>2. 1 .. Cardinality(U) = {}
    BY <2>1
  <2> DEFINE seq == [i \in {} |-> i]
  <2>3. InOrderOf(seq, U, R)
    BY <2>2 DEF InOrderOf, Bijection, Injection, Surjection, IsInjective
  <2> QED
    BY <1>4, <2>3
<1>7. PICK x \in U : \A y \in U : <<x, y>> \notin R
  BY <1>5, <1>6, LastElement
<1> DEFINE V == U \ {x}
           n == Cardinality(V)
<1>8. IsFiniteSet(V) /\ n \in Nat /\ Cardinality(U) = n + 1
  <2>1. IsFiniteSet(V) /\ Cardinality(V) = Cardinality(U) - 1
    BY <1>5, <1>7, FS_RemoveElement
  <2>2. Cardinality(V) \in Nat /\ Cardinality(U) \in Nat
    BY <1>5, <2>1, FS_CardinalityType
  <2> QED
    BY <2>1, <2>2
<1>9. <<V, U>> \in StrictSubsetOrdering(S)
  BY <1>5, <1>7 DEF StrictSubsetOrdering
<1>10. V \in SUBSET S /\ V \notin Bad
  BY <1>4, <1>5, <1>9
<1>11. PICK head : InOrderOf(head, V, R)
  BY <1>10
<1> DEFINE seq == [i \in 1 .. n + 1 |-> IF i = n + 1 THEN x ELSE head[i]]
<1> HIDE DEF n, V
<1>12. /\ head \in [1 .. n -> V]
       /\ \A a, b \in 1 .. n : head[a] = head[b] => a = b
       /\ \A t \in V : \E s \in 1 .. n : head[s] = t
       /\ \A i, j \in 1 .. n : i < j => <<head[j], head[i]>> \notin R
  BY <1>11 DEF InOrderOf, Bijection, Injection, Surjection, IsInjective, n
<1>13. \A y : y \in V <=> y \in U /\ y # x
  BY DEF V
<1>14. seq \in [1 .. n + 1 -> U]
  <2> SUFFICES ASSUME NEW i \in 1 .. n + 1, i # n + 1 PROVE head[i] \in U
    BY <1>7
  <2> QED
    BY <1>8, <1>12, <1>13
<1>15. \A a, b \in 1 .. n + 1 : seq[a] = seq[b] => a = b
  <2> SUFFICES ASSUME NEW a \in 1 .. n + 1, NEW b \in 1 .. n + 1, seq[a] = seq[b] PROVE a = b
    OBVIOUS
  <2>1. \A i \in 1 .. n + 1 : i # n + 1 => i \in 1 .. n /\ head[i] # x /\ seq[i] = head[i]
    BY <1>8, <1>12, <1>13
  <2>2. seq[n + 1] = x
    BY <1>8
  <2> HIDE DEF seq
  <2> QED
    BY <1>12, <2>1, <2>2
<1>16. \A t \in U : \E s \in 1 .. n + 1 : seq[s] = t
  <2> TAKE t \in U
  <2>1. CASE t = x
    <3>1. n + 1 \in 1 .. n + 1 /\ seq[n + 1] = x
      BY <1>8
    <3> QED
      BY <2>1, <3>1
  <2>2. CASE t # x
    <3>1. PICK s \in 1 .. n : head[s] = t
      BY <1>12, <1>13, <2>2
    <3>2. s \in 1 .. n + 1 /\ seq[s] = t
      BY <1>8, <3>1
    <3> QED
      BY <3>2
  <2> QED
    BY <2>1, <2>2
<1>17. \A i, j \in 1 .. n + 1 : i < j => <<seq[j], seq[i]>> \notin R
  <2> SUFFICES ASSUME NEW i \in 1 .. n + 1, NEW j \in 1 .. n + 1, i < j
      PROVE  <<seq[j], seq[i]>> \notin R
    OBVIOUS
  <2>1. i \in 1 .. n /\ seq[i] = head[i] /\ head[i] \in U
    BY <1>8, <1>12, <1>13
  <2>2. CASE j = n + 1
    <3>1. seq[j] = x
      BY <2>2
    <3> QED
      BY <1>7, <2>1, <3>1
  <2>3. CASE j # n + 1
    <3>1. j \in 1 .. n /\ seq[j] = head[j]
      BY <1>8, <2>3
    <3> QED
      BY <1>12, <2>1, <3>1
  <2> QED
    BY <2>2, <2>3
<1>18. InOrderOf(seq, U, R)
  <2> HIDE DEF seq
  <2> QED
    BY <1>8, <1>14, <1>15, <1>16, <1>17
    DEF InOrderOf, Bijection, Injection, Surjection, IsInjective
<1> QED
  BY <1>4, <1>18

\* InOrder lists every element of a finite set once, in order.
LEMMA Ordered ==
  ASSUME NEW S, IsFiniteSet(S), NEW R, Orders(R, S)
  PROVE  LET seq == InOrder(S, R)
         IN  /\ seq \in Seq(S) /\ Len(seq) = Cardinality(S)
             /\ Range(seq) = S /\ IsInjective(seq)
             /\ \A i, j \in DOMAIN seq : i < j => <<seq[j], seq[i]>> \notin R
<1> DEFINE seq == InOrder(S, R)
<1>1. PICK some : InOrderOf(some, S, R)
  BY OrderExists
<1>2. InOrderOf(seq, S, R)
  BY <1>1 DEF InOrder, InOrderOf
<1> HIDE DEF seq
<1>3. Cardinality(S) \in Nat
  BY FS_CardinalityType
<1>4. /\ seq \in [1 .. Cardinality(S) -> S] /\ IsInjective(seq)
      /\ \A t \in S : \E s \in 1 .. Cardinality(S) : seq[s] = t
      /\ \A i, j \in 1 .. Cardinality(S) : i < j => <<seq[j], seq[i]>> \notin R
  BY <1>2 DEF InOrderOf, Bijection, Injection, Surjection
<1>5. seq \in Seq(S) /\ Len(seq) = Cardinality(S) /\ DOMAIN seq = 1 .. Cardinality(S)
  BY <1>3, <1>4, IsASeq
<1>6. Range(seq) = S
  BY <1>4, <1>5 DEF Range
<1> QED
  BY <1>4, <1>5, <1>6 DEF seq

-------------------------------------------------------------------------------
(* Requests                                                                *)

Steps == {"idle", "post", "read", "edit", "delete", "created", "updated", "deleted"}
Request == [step : Steps, user : Users \union {None}, msg : Messages \union {None},
            at : Nat, content : Nat]

OnMessage(r, m) == req[r].step # "idle" /\ req[r].msg = m

RequestTypes == /\ clock \in Nat
                /\ comment \in [Messages -> Comment]
                /\ last_read \in [Users -> Nat]
                /\ req \in [Requests -> Request]
                /\ raced \subseteq Messages
                /\ marker \in [Messages -> [Users -> Nat]]

\* What a request knows: who it is for and of which message; the message it is
\* about to post is its own, the one it is about to change is there.
RequestOK(r) ==
  /\ req[r].step # "idle" => req[r].user \in Users /\ req[r].at <= clock
  /\ req[r].step = "read" => req[r].msg = None
  /\ req[r].step \notin {"idle", "read"} => req[r].msg \in Messages
  /\ req[r].step = "post" =>
       /\ ~comment[req[r].msg].exists
       /\ \A u \in Users : marker[req[r].msg][u] < req[r].at
       /\ \A q \in Requests : OnMessage(q, req[r].msg) => q = r
  /\ req[r].step \in {"edit", "delete", "created", "updated", "deleted"} =>
       comment[req[r].msg].exists

\* A message is younger than the marks its request found; unless requests on it
\* overlapped, there is one at a time, and it changes what is not deleted.
MessageOK(m) ==
  /\ ~comment[m].exists => comment[m] = NoComment
  /\ comment[m].exists => \A u \in Users : marker[m][u] < comment[m].created
  /\ m \notin raced =>
       \A r \in Requests : OnMessage(r, m) =>
         /\ \A q \in Requests : OnMessage(q, m) => q = r
         /\ req[r].step \in {"edit", "delete"} => ~comment[m].deleted

RequestInv == /\ RequestTypes
              /\ \A u \in Users : last_read[u] < clock
              /\ \A r \in Requests : RequestOK(r)
              /\ \A m \in Messages : MessageOK(m)

LEMMA RequestsInitially == Init => RequestInv
<1> SUFFICES ASSUME Init PROVE RequestInv
  OBVIOUS
<1>1. NoComment \in Comment /\ ~NoComment.exists
  BY DEF NoComment, Comment
<1>2. RequestTypes
  BY <1>1 DEF Init, RequestTypes, Request, Steps, IdleRequest
<1>3. \A r \in Requests : RequestOK(r)
  BY DEF Init, RequestOK, IdleRequest
<1>4. \A m \in Messages : MessageOK(m)
  BY <1>1 DEF Init, MessageOK, OnMessage, IdleRequest
<1> QED
  BY <1>2, <1>3, <1>4 DEF Init, RequestInv

\* A request that begins disturbs no other.
LEMMA BeginEffect ==
  ASSUME RequestInv, NEW r \in Requests, NEW u \in Users, NEW m \in Messages \union {None},
         NEW step \in {"post", "read", "edit", "delete"}, Begin(r, u, step, m)
  PROVE  /\ req' \in [Requests -> Request]
         /\ req'[r] = [step |-> step, user |-> u, msg |-> m, at |-> clock, content |-> 0]
         /\ \A q \in Requests : q # r => req'[q] = req[q]
         /\ req[r].step = "idle"
         /\ UNCHANGED <<clock, comment, last_read>>
<1> DEFINE new == [step |-> step, user |-> u, msg |-> m, at |-> clock, content |-> 0]
<1>1. req' = [req EXCEPT ![r] = new] /\ req[r].step = "idle" /\ UNCHANGED <<clock, comment, last_read>>
  BY DEF Begin, dbvars
<1>2. new \in Request
  BY DEF RequestInv, RequestTypes, Request, Steps
<1> HIDE DEF new
<1>3. req \in [Requests -> Request]
  BY DEF RequestInv, RequestTypes
<1>4. req' \in [Requests -> Request] /\ req'[r] = new /\ \A q \in Requests : q # r => req'[q] = req[q]
  BY <1>1, <1>2, <1>3
<1> QED
  BY <1>1, <1>4 DEF new

LEMMA PostMessageStep ==
  ASSUME RequestInv, NEW r \in Requests, NEW u \in Users, post_message(r, u)
  PROVE  RequestInv'
<1>1. PICK m \in Messages : /\ ~comment[m].exists /\ ~InFlight(m)
                            /\ Begin(r, u, "post", m)
                            /\ marker' = [marker EXCEPT ![m] = last_read]
  BY DEF post_message
<1>2. raced' = raced
  BY DEF post_message
<1>3. /\ req' \in [Requests -> Request]
      /\ req'[r] = [step |-> "post", user |-> u, msg |-> m, at |-> clock, content |-> 0]
      /\ \A q \in Requests : q # r => req'[q] = req[q]
      /\ req[r].step = "idle"
      /\ UNCHANGED <<clock, comment, last_read>>
  BY <1>1, BeginEffect
<1>4. \A q \in Requests : ~OnMessage(q, m)
  BY <1>1 DEF InFlight, OnMessage
<1>5. \A q \in Requests, n \in Messages : OnMessage(q, n)' <=> (q = r /\ n = m) \/ OnMessage(q, n)
  BY <1>3 DEF OnMessage
<1>6. RequestTypes /\ \A v \in Users : last_read[v] < clock
  BY DEF RequestInv
<1>7. RequestTypes'
  BY <1>1, <1>2, <1>3, <1>6 DEF RequestTypes
<1>8. marker'[m] = last_read /\ \A n \in Messages : n # m => marker'[n] = marker[n]
  BY <1>1, <1>6 DEF RequestTypes
<1>9. ASSUME NEW q \in Requests
      PROVE  RequestOK(q)'
  <2>1. CASE q = r
    BY <1>1, <1>3, <1>4, <1>5, <1>6, <1>8, <2>1 DEF RequestOK, RequestTypes
  <2>2. CASE q # r
    <3>1. req'[q] = req[q] /\ RequestOK(q)
      BY <1>3, <2>2 DEF RequestInv
    <3>2. req[q].step # "idle" => req[q].msg # m
      BY <1>4 DEF OnMessage
    <3> QED
      BY <1>3, <1>5, <1>8, <3>1, <3>2 DEF RequestOK
  <2> QED
    BY <2>1, <2>2
<1>10. ASSUME NEW n \in Messages
       PROVE  MessageOK(n)'
  <2>1. MessageOK(n)
    BY DEF RequestInv
  <2>2. CASE n = m
    BY <1>1, <1>2, <1>3, <1>4, <1>5, <2>1, <2>2 DEF MessageOK
  <2>3. CASE n # m
    BY <1>2, <1>3, <1>5, <1>8, <2>1, <2>3 DEF MessageOK, OnMessage
  <2> QED
    BY <2>2, <2>3
<1> QED
  BY <1>3, <1>6, <1>7, <1>9, <1>10 DEF RequestInv

LEMMA MarkReadStep ==
  ASSUME RequestInv, NEW r \in Requests, NEW u \in Users, mark_read(r, u)
  PROVE  RequestInv'
<1>1. Begin(r, u, "read", None) /\ raced' = raced /\ marker' = marker
  BY DEF mark_read
<1>2. /\ req' \in [Requests -> Request]
      /\ req'[r] = [step |-> "read", user |-> u, msg |-> None, at |-> clock, content |-> 0]
      /\ \A q \in Requests : q # r => req'[q] = req[q]
      /\ req[r].step = "idle"
      /\ UNCHANGED <<clock, comment, last_read>>
  BY <1>1, BeginEffect
<1>3. None \notin Messages
  BY DiscussionAssumption DEF Messages
<1>4. \A q \in Requests, n \in Messages : OnMessage(q, n)' <=> OnMessage(q, n)
  BY <1>2, <1>3 DEF OnMessage
<1>5. RequestTypes'
  BY <1>1, <1>2 DEF RequestTypes, RequestInv
<1>6. ASSUME NEW q \in Requests
      PROVE  RequestOK(q)'
  <2>1. CASE q = r
    BY <1>2, <2>1 DEF RequestOK, RequestInv, RequestTypes
  <2>2. CASE q # r
    BY <1>1, <1>2, <1>4, <2>2 DEF RequestOK, RequestInv
  <2> QED
    BY <2>1, <2>2
<1>7. ASSUME NEW n \in Messages
      PROVE  MessageOK(n)'
  BY <1>1, <1>2, <1>4 DEF MessageOK, RequestInv, OnMessage
<1> QED
  BY <1>2, <1>5, <1>6, <1>7 DEF RequestInv

\* A request on a message that is there marks it if it is not the only one.
LEMMA ChangeStep ==
  ASSUME RequestInv, NEW r \in Requests, NEW u \in Users, NEW m \in Messages,
         NEW step \in {"edit", "delete"},
         Live(m), Begin(r, u, step, m), Race(m), UNCHANGED marker
  PROVE  RequestInv'
<1>1. /\ req' \in [Requests -> Request]
      /\ req'[r] = [step |-> step, user |-> u, msg |-> m, at |-> clock, content |-> 0]
      /\ \A q \in Requests : q # r => req'[q] = req[q]
      /\ req[r].step = "idle"
      /\ UNCHANGED <<clock, comment, last_read>>
  <2>1. m \in Messages \union {None} /\ step \in {"post", "read", "edit", "delete"}
    OBVIOUS
  <2> QED
    BY <2>1, BeginEffect
<1>2. comment[m].exists /\ ~comment[m].deleted
  BY DEF Live
<1>3. \A q \in Requests, n \in Messages : OnMessage(q, n)' <=> (q = r /\ n = m) \/ OnMessage(q, n)
  BY <1>1 DEF OnMessage
<1>4. raced' = IF InFlight(m) THEN raced \union {m} ELSE raced
  BY DEF Race
<1>5. RequestTypes /\ RequestTypes'
  BY <1>1, <1>4 DEF RequestTypes, RequestInv
<1>6. ASSUME NEW q \in Requests
      PROVE  RequestOK(q)'
  <2>1. CASE q = r
    BY <1>1, <1>2, <1>5, <2>1 DEF RequestOK, RequestTypes
  <2>2. CASE q # r
    <3>1. req'[q] = req[q] /\ RequestOK(q)
      BY <1>1, <2>2 DEF RequestInv
    <3>2. req[q].step = "post" => req[q].msg # m
      BY <1>2, <3>1 DEF RequestOK
    <3> QED
      BY <1>1, <1>3, <3>1, <3>2 DEF RequestOK
  <2> QED
    BY <2>1, <2>2
<1>7. ASSUME NEW n \in Messages
      PROVE  MessageOK(n)'
  <2>1. MessageOK(n)
    BY DEF RequestInv
  <2>2. CASE n # m
    BY <1>1, <1>3, <1>4, <2>1, <2>2 DEF MessageOK, OnMessage
  <2>3. CASE n = m
    <3>1. n \notin raced' => \A q \in Requests : ~OnMessage(q, n)
      BY <1>4, <2>3 DEF InFlight, OnMessage
    <3> QED
      BY <1>1, <1>2, <1>3, <2>1, <2>3, <3>1 DEF MessageOK
  <2> QED
    BY <2>2, <2>3
<1> QED
  BY <1>1, <1>5, <1>6, <1>7 DEF RequestInv

\* A commit advances the clock and leaves its request with an event, or idle.
LEMMA CommitEffect ==
  ASSUME RequestInv, NEW r \in Requests, NEW step,
         NEW event, event = NoEvent \/ event \in [type : {"created", "updated", "deleted"}, content : Nat],
         Commit(r, step, event)
  PROVE  /\ req' \in [Requests -> Request]
         /\ event = NoEvent => req'[r] = IdleRequest
         /\ event # NoEvent => /\ req'[r].step = event.type /\ req'[r].content = event.content
                               /\ req'[r].user = req[r].user /\ req'[r].msg = req[r].msg
                               /\ req'[r].at = req[r].at
         /\ \A q \in Requests : q # r => req'[q] = req[q]
         /\ req[r].step = step
         /\ clock' = clock + 1
         /\ UNCHANGED <<raced, marker>>
<1> DEFINE new == IF event = NoEvent THEN IdleRequest
                  ELSE [req[r] EXCEPT !.step = event.type, !.content = event.content]
<1>1. /\ req' = [req EXCEPT ![r] = new] /\ req[r].step = step
      /\ clock' = clock + 1 /\ UNCHANGED <<raced, marker>>
  BY DEF Commit
<1>2. req \in [Requests -> Request] /\ req[r] \in Request
  BY DEF RequestInv, RequestTypes
<1>3. CASE event = NoEvent
  <2>1. new = IdleRequest
    BY <1>3
  <2>2. IdleRequest \in Request
    BY DEF IdleRequest, Request, Steps
  <2> HIDE DEF new
  <2> QED
    BY <1>1, <1>2, <1>3, <2>1, <2>2
<1>4. CASE event # NoEvent
  <2>1. event \in [type : {"created", "updated", "deleted"}, content : Nat]
    BY <1>4
  <2>2. /\ new \in Request
        /\ new.step = event.type /\ new.content = event.content
        /\ new.user = req[r].user /\ new.msg = req[r].msg /\ new.at = req[r].at
    BY <1>2, <1>4, <2>1 DEF Request, Steps
  <2> HIDE DEF new
  <2> QED
    BY <1>1, <1>2, <1>4, <2>2
<1> QED
  BY <1>3, <1>4

\* Who has read up to now has not read what comes.
LEMMA UpsertEffect ==
  ASSUME RequestInv, NEW r \in Requests, req[r].step # "idle", upsert_read(r), clock' = clock + 1
  PROVE  last_read' \in [Users -> Nat] /\ \A u \in Users : last_read'[u] < clock'
<1>1. /\ clock \in Nat /\ last_read \in [Users -> Nat] /\ req[r].at \in Nat /\ req[r].at <= clock
      /\ req[r].user \in Users /\ \A u \in Users : last_read[u] < clock
  BY DEF RequestInv, RequestTypes, RequestOK, Request
<1> QED
  BY <1>1 DEF upsert_read

\* A transaction that ends leaves the others as they were.
LEMMA EndEffect ==
  ASSUME RequestInv, NEW r \in Requests, req[r].step # "idle",
         req'[r].step = "idle" \/ req'[r].msg = req[r].msg,
         \A q \in Requests : q # r => req'[q] = req[q]
  PROVE  \A q \in Requests, n \in Messages : /\ OnMessage(q, n)' => OnMessage(q, n)
                                             /\ q # r => (OnMessage(q, n)' <=> OnMessage(q, n))
BY DEF OnMessage

LEMMA CommitPostStep ==
  ASSUME RequestInv, NEW r \in Requests, commit_post(r)
  PROVE  RequestInv'
<1> DEFINE m == req[r].msg
           row == [exists |-> TRUE, deleted |-> FALSE, author |-> req[r].user,
                   created |-> req[r].at, content |-> 0]
           event == [type |-> "created", content |-> 0]
<1>1. Commit(r, "post", event) /\ comment' = [comment EXCEPT ![m] = row] /\ upsert_read(r)
  BY DEF commit_post
<1>2. event # NoEvent /\ event \in [type : {"created", "updated", "deleted"}, content : Nat]
  BY DEF NoEvent
<1>3. /\ req' \in [Requests -> Request]
      /\ req'[r].step = "created" /\ req'[r].user = req[r].user /\ req'[r].msg = m
      /\ req'[r].at = req[r].at
      /\ \A q \in Requests : q # r => req'[q] = req[q]
      /\ req[r].step = "post"
      /\ clock' = clock + 1
      /\ UNCHANGED <<raced, marker>>
  BY <1>1, <1>2, CommitEffect
<1>4. /\ RequestTypes /\ RequestOK(r)
      /\ m \in Messages /\ ~comment[m].exists /\ req[r].user \in Users /\ req[r].at <= clock
      /\ req[r].at \in Nat /\ clock \in Nat
      /\ \A u \in Users : marker[m][u] < req[r].at
      /\ \A q \in Requests : OnMessage(q, m) => q = r
  BY <1>3 DEF RequestInv, RequestTypes, RequestOK, Request
<1>5. last_read' \in [Users -> Nat] /\ \A u \in Users : last_read'[u] < clock'
  BY <1>1, <1>3, UpsertEffect
<1>6. row \in Comment
  BY <1>4 DEF Comment
<1> HIDE DEF row
<1>7. /\ comment' \in [Messages -> Comment] /\ comment'[m] = row
      /\ \A n \in Messages : n # m => comment'[n] = comment[n]
  BY <1>1, <1>4, <1>6 DEF RequestTypes
<1>8. row.exists /\ ~row.deleted /\ row.created = req[r].at
  BY DEF row
<1> HIDE DEF m, event
<1>9. RequestTypes'
  BY <1>3, <1>4, <1>5, <1>7 DEF RequestTypes
<1>10. \A q \in Requests, n \in Messages : /\ OnMessage(q, n)' => OnMessage(q, n)
                                           /\ q # r => (OnMessage(q, n)' <=> OnMessage(q, n))
  BY <1>3, EndEffect DEF m
<1>11. ASSUME NEW q \in Requests
       PROVE  RequestOK(q)'
  <2>1. CASE q = r
    BY <1>3, <1>4, <1>7, <1>8, <2>1 DEF RequestOK
  <2>2. CASE q # r
    <3>1. req'[q] = req[q] /\ RequestOK(q)
      BY <1>3, <2>2 DEF RequestInv
    <3>2. req[q].step # "idle" => req[q].msg # m
      BY <1>4, <2>2 DEF OnMessage
    <3>3. req[q].at \in Nat
      BY <1>4 DEF RequestTypes, Request
    <3> QED
      BY <1>3, <1>4, <1>7, <1>10, <3>1, <3>2, <3>3 DEF RequestOK
  <2> QED
    BY <2>1, <2>2
<1>12. ASSUME NEW n \in Messages
       PROVE  MessageOK(n)'
  <2>1. MessageOK(n)
    BY DEF RequestInv
  <2>2. CASE n = m
    BY <1>3, <1>4, <1>7, <1>8, <1>10, <2>1, <2>2 DEF MessageOK
  <2>3. CASE n # m
    <3>1. \A q \in Requests : OnMessage(q, n)' => OnMessage(q, n) /\ q # r
      BY <1>3, <1>10, <2>3 DEF OnMessage
    <3> QED
      BY <1>3, <1>7, <2>1, <2>3, <3>1 DEF MessageOK
  <2> QED
    BY <2>2, <2>3
<1> QED
  BY <1>5, <1>9, <1>11, <1>12 DEF RequestInv

\* A request that ends, or goes on to publish what it has committed, without
\* having touched a message.
LEMMA EndStep ==
  ASSUME RequestInv, NEW r \in Requests,
         req' \in [Requests -> Request], req'[r] = IdleRequest,
         \A q \in Requests : q # r => req'[q] = req[q],
         clock' \in Nat, clock' >= clock,
         last_read' \in [Users -> Nat], \A u \in Users : last_read'[u] < clock',
         UNCHANGED <<comment, raced, marker>>
  PROVE  RequestInv'
<1>1. req'[r].step = "idle"
  BY DEF IdleRequest
<1>2. \A q \in Requests, n \in Messages : OnMessage(q, n)' => OnMessage(q, n) /\ q # r /\ req'[q] = req[q]
  BY <1>1 DEF OnMessage
<1>3. RequestTypes'
  BY DEF RequestTypes, RequestInv
<1>4. ASSUME NEW q \in Requests
      PROVE  RequestOK(q)'
  <2>1. CASE q = r
    BY <1>1, <2>1 DEF RequestOK
  <2>2. CASE q # r
    <3>1. req'[q] = req[q] /\ RequestOK(q) /\ req[q].at \in Nat /\ clock \in Nat
      BY <2>2 DEF RequestInv, RequestTypes, Request
    <3> QED
      BY <1>2, <3>1 DEF RequestOK
  <2> QED
    BY <2>1, <2>2
<1>5. ASSUME NEW n \in Messages
      PROVE  MessageOK(n)'
  BY <1>2 DEF MessageOK, RequestInv
<1> QED
  BY <1>3, <1>4, <1>5 DEF RequestInv

LEMMA CommitReadStep ==
  ASSUME RequestInv, NEW r \in Requests, commit_read(r)
  PROVE  RequestInv'
<1>1. Commit(r, "read", NoEvent) /\ upsert_read(r) /\ comment' = comment
  BY DEF commit_read
<1>2. /\ req' \in [Requests -> Request] /\ req'[r] = IdleRequest
      /\ \A q \in Requests : q # r => req'[q] = req[q]
      /\ req[r].step = "read"
      /\ clock' = clock + 1
      /\ UNCHANGED <<raced, marker>>
  BY <1>1, CommitEffect
<1>3. last_read' \in [Users -> Nat] /\ \A u \in Users : last_read'[u] < clock'
  BY <1>1, <1>2, UpsertEffect
<1>4. clock \in Nat
  BY DEF RequestInv, RequestTypes
<1>5. clock' \in Nat /\ clock' >= clock
  BY <1>2, <1>4
<1> QED
  BY <1>1, <1>2, <1>3, <1>5, EndStep

LEMMA RollbackStep ==
  ASSUME RequestInv, NEW r \in Requests, rollback(r) \/ publish_event(r)
  PROVE  RequestInv'
<1>1. req' = [req EXCEPT ![r] = IdleRequest] /\ UNCHANGED <<clock, comment, last_read, raced, marker>>
  BY DEF rollback, publish_event, dbvars
<1>2. IdleRequest \in Request
  BY DEF IdleRequest, Request, Steps
<1>3. /\ req \in [Requests -> Request] /\ clock \in Nat /\ last_read \in [Users -> Nat]
      /\ \A u \in Users : last_read[u] < clock
  BY DEF RequestInv, RequestTypes
<1>4. /\ req' \in [Requests -> Request] /\ req'[r] = IdleRequest
      /\ \A q \in Requests : q # r => req'[q] = req[q]
  BY <1>1, <1>2, <1>3
<1>5. clock' \in Nat /\ clock' >= clock
  BY <1>1, <1>3
<1> QED
  BY <1>1, <1>3, <1>4, <1>5, EndStep

\* A message that is changed stays there, as old as it was.
LEMMA WriteStep ==
  ASSUME RequestInv, NEW r \in Requests, NEW step \in {"edit", "delete"}, req[r].step = step,
         NEW event \in [type : {"updated", "deleted"}, content : Nat],
         Commit(r, step, event),
         NEW row \in Comment, row.exists, row.created = comment[req[r].msg].created,
         comment' = [comment EXCEPT ![req[r].msg] = row], last_read' = last_read
  PROVE  RequestInv'
<1> DEFINE m == req[r].msg
<1>1. event # NoEvent /\ event \in [type : {"created", "updated", "deleted"}, content : Nat]
  BY DEF NoEvent
<1>2. /\ req' \in [Requests -> Request]
      /\ req'[r].step = event.type /\ req'[r].user = req[r].user /\ req'[r].msg = m
      /\ req'[r].at = req[r].at
      /\ \A q \in Requests : q # r => req'[q] = req[q]
      /\ clock' = clock + 1
      /\ UNCHANGED <<raced, marker>>
  BY <1>1, CommitEffect
<1>3. event.type \in {"updated", "deleted"}
  OBVIOUS
<1>4. /\ RequestTypes /\ RequestOK(r)
      /\ m \in Messages /\ comment[m].exists /\ clock \in Nat /\ req[r].at \in Nat
  BY DEF RequestInv, RequestTypes, RequestOK, Request
<1>5. /\ comment' \in [Messages -> Comment] /\ comment'[m] = row
      /\ \A n \in Messages : n # m => comment'[n] = comment[n]
  BY <1>4 DEF RequestTypes
<1>6. \A n \in Messages : comment'[n].exists <=> comment[n].exists
  BY <1>4, <1>5
<1>7. row.created = comment[m].created
  OBVIOUS
<1> HIDE DEF m
<1>8. RequestTypes'
  BY <1>2, <1>4, <1>5 DEF RequestTypes
<1>9. \A q \in Requests, n \in Messages : /\ OnMessage(q, n)' => OnMessage(q, n)
                                          /\ q # r => (OnMessage(q, n)' <=> OnMessage(q, n))
  BY <1>2, EndEffect DEF m
<1>10. \A u \in Users : last_read'[u] < clock'
  BY <1>2, <1>4 DEF RequestInv, RequestTypes
<1>11. ASSUME NEW q \in Requests
       PROVE  RequestOK(q)'
  <2>1. CASE q = r
    BY <1>2, <1>3, <1>4, <1>6, <2>1 DEF RequestOK
  <2>2. CASE q # r
    <3>1. req'[q] = req[q] /\ RequestOK(q) /\ req[q].at \in Nat
      BY <1>2, <2>2 DEF RequestInv, RequestTypes, Request
    <3> QED
      BY <1>2, <1>4, <1>6, <1>9, <3>1 DEF RequestOK
  <2> QED
    BY <2>1, <2>2
<1>12. ASSUME NEW n \in Messages
       PROVE  MessageOK(n)'
  <2>1. MessageOK(n)
    BY DEF RequestInv
  <2>2. CASE n # m
    <3>1. \A q \in Requests : OnMessage(q, n)' => OnMessage(q, n) /\ q # r
      BY <1>2, <1>9, <2>2 DEF OnMessage
    <3> QED
      BY <1>2, <1>5, <2>1, <2>2, <3>1 DEF MessageOK
  <2>3. CASE n = m
    <3>1. comment[n].exists /\ comment'[n].exists /\ comment'[n].created = comment[n].created
      BY <1>4, <1>5, <1>7, <2>3
    <3>2. OnMessage(r, n)
      BY <2>3 DEF OnMessage, m
    <3>3. n \notin raced => \A q \in Requests : OnMessage(q, n)' => q = r
      BY <1>9, <2>1, <3>2 DEF MessageOK
    <3> QED
      BY <1>2, <1>3, <2>1, <3>1, <3>3 DEF MessageOK
  <2> QED
    BY <2>2, <2>3
<1> QED
  BY <1>8, <1>10, <1>11, <1>12 DEF RequestInv

LEMMA CommitUpdateStep ==
  ASSUME RequestInv, NEW r \in Requests, commit_update(r)
  PROVE  RequestInv'
<1> DEFINE m == req[r].msg
           content == comment[m].content + 1
           event == [type |-> "updated", content |-> content]
           row == [comment[m] EXCEPT !.content = content]
<1>1. Commit(r, "edit", event) /\ comment' = [comment EXCEPT ![m].content = content] /\ last_read' = last_read
  BY DEF commit_update
<1>2. req[r].step = "edit"
  BY <1>1 DEF Commit
<1>3. comment \in [Messages -> Comment] /\ m \in Messages /\ comment[m].exists
  BY <1>2 DEF RequestInv, RequestTypes, RequestOK
<1>4. comment[m] \in Comment /\ comment[m].content \in Nat
  BY <1>3 DEF Comment
<1>5. row \in Comment /\ row.exists /\ row.created = comment[m].created
  BY <1>3, <1>4 DEF Comment
<1>6. event \in [type : {"updated", "deleted"}, content : Nat] /\ "edit" \in {"edit", "delete"}
  BY <1>4
<1>7. comment' = [comment EXCEPT ![m] = row]
  BY <1>1
<1> HIDE DEF event, row
<1> QED
  BY <1>1, <1>2, <1>5, <1>6, <1>7, WriteStep

LEMMA CommitDeleteStep ==
  ASSUME RequestInv, NEW r \in Requests, commit_delete(r)
  PROVE  RequestInv'
<1> DEFINE m == req[r].msg
           event == [type |-> "deleted", content |-> 0]
           row == [comment[m] EXCEPT !.deleted = TRUE]
<1>1. Commit(r, "delete", event) /\ comment' = [comment EXCEPT ![m].deleted = TRUE] /\ last_read' = last_read
  BY DEF commit_delete
<1>2. req[r].step = "delete"
  BY <1>1 DEF Commit
<1>3. comment \in [Messages -> Comment] /\ m \in Messages /\ comment[m].exists
  BY <1>2 DEF RequestInv, RequestTypes, RequestOK
<1>4. comment[m] \in Comment
  BY <1>3
<1>5. row \in Comment /\ row.exists /\ row.created = comment[m].created
  BY <1>3, <1>4 DEF Comment
<1>6. event \in [type : {"updated", "deleted"}, content : Nat] /\ "delete" \in {"edit", "delete"}
  OBVIOUS
<1>7. comment' = [comment EXCEPT ![m] = row]
  BY <1>1
<1> HIDE DEF event, row
<1> QED
  BY <1>1, <1>2, <1>5, <1>6, <1>7, WriteStep

\* The other steps touch neither the database nor the requests; a crash ends
\* the requests.
LEMMA CrashStep == RequestInv /\ crash => RequestInv'
<1> SUFFICES ASSUME RequestInv, crash PROVE RequestInv'
  OBVIOUS
<1>1. /\ req' = [r \in Requests |-> IdleRequest]
      /\ UNCHANGED <<clock, comment, last_read, raced, marker>>
  BY DEF crash, dbvars
<1>2. IdleRequest \in Request /\ IdleRequest.step = "idle"
  BY DEF IdleRequest, Request, Steps
<1>3. \A r \in Requests : req'[r].step = "idle" /\ \A n : ~OnMessage(r, n)'
  BY <1>1, <1>2 DEF OnMessage
<1>4. RequestTypes'
  BY <1>1, <1>2 DEF RequestTypes, RequestInv
<1>5. \A r \in Requests : RequestOK(r)'
  BY <1>3 DEF RequestOK
<1>6. \A n \in Messages : MessageOK(n)'
  BY <1>1, <1>3 DEF MessageOK, RequestInv
<1> QED
  BY <1>1, <1>4, <1>5, <1>6 DEF RequestInv

Elsewhere == \/ list_messages \/ publish
             \/ \E s \in Sockets : (\E u \in Users : authorize(s, u)) \/ connect(s) \/ close(s)
                                    \/ disconnect(s)

LEMMA ElsewhereEffect ==
  Elsewhere => UNCHANGED <<clock, comment, last_read, req, raced, marker>>
BY DEF Elsewhere, list_messages, publish, authorize, connect, close, disconnect, dbvars

LEMMA RequestStep == RequestInv /\ [Next]_vars => RequestInv'
<1> SUFFICES ASSUME RequestInv, [Next]_vars PROVE RequestInv'
  OBVIOUS
<1>1. ASSUME NEW r \in Requests, NEW u \in Users, post_message(r, u) \/ mark_read(r, u)
      PROVE  RequestInv'
  BY <1>1, PostMessageStep, MarkReadStep
<1>2. ASSUME NEW r \in Requests, NEW u \in Users, NEW m \in Messages,
             update_comment(r, u, m) \/ delete_comment(r, u, m)
      PROVE  RequestInv'
  <2>1. CASE update_comment(r, u, m)
    <3>1. Live(m) /\ Begin(r, u, "edit", m) /\ Race(m) /\ UNCHANGED marker
      BY <2>1 DEF update_comment
    <3> QED
      BY <3>1, ChangeStep
  <2>2. CASE delete_comment(r, u, m)
    <3>1. Live(m) /\ Begin(r, u, "delete", m) /\ Race(m) /\ UNCHANGED marker
      BY <2>2 DEF delete_comment
    <3> QED
      BY <3>1, ChangeStep
  <2> QED
    BY <1>2, <2>1, <2>2
<1>3. ASSUME NEW r \in Requests, Serve(r)
      PROVE  RequestInv'
  BY <1>3, CommitPostStep, CommitReadStep, CommitUpdateStep, CommitDeleteStep, RollbackStep DEF Serve
<1>4. CASE Elsewhere \/ UNCHANGED vars
  <2>1. UNCHANGED <<clock, comment, last_read, req, raced, marker>>
    BY <1>4, ElsewhereEffect DEF vars, dbvars
  <2> QED
    BY <2>1 DEF RequestInv, RequestTypes, RequestOK, MessageOK, OnMessage
<1>5. CASE crash
  BY <1>5, CrashStep
<1> QED
  BY <1>1, <1>2, <1>3, <1>4, <1>5 DEF Next, Elsewhere

LEMMA RequestsHold == Spec => []RequestInv
BY RequestsInitially, RequestStep, PTL DEF Spec

\* A new message is unread: the request that wrote it began after its readers
\* had marked the discussion read.
THEOREM NewMessagesUnread == Spec => []NewMessagesAreUnread
<1>1. ASSUME RequestInv PROVE NewMessagesAreUnread
  <2> SUFFICES ASSUME NEW m \in Messages, NEW u \in Users,
                      Live(m), comment[m].author # u, last_read[u] = marker[m][u]
               PROVE  m \in unread(u)
    BY DEF NewMessagesAreUnread
  <2>1. marker[m][u] < comment[m].created
    BY <1>1 DEF Live, RequestInv, MessageOK
  <2>2. last_read[u] \in Nat /\ comment[m].created \in Nat
    BY <1>1 DEF RequestInv, RequestTypes, Comment
  <2> QED
    BY <2>1, <2>2 DEF unread
<1> QED
  BY <1>1, RequestsHold, PTL

-------------------------------------------------------------------------------
(* The list of sockets                                                     *)

LEMMA FiniteRange ==
  ASSUME NEW S, NEW seq \in Seq(S)
  PROVE  IsFiniteSet(Range(seq)) /\ Range(seq) \subseteq S
<1>1. Len(seq) \in Nat /\ seq \in [1 .. Len(seq) -> S] /\ DOMAIN seq = 1 .. Len(seq)
  BY LenProperties
<1>2. seq \in Surjection(1 .. Len(seq), Range(seq))
  BY <1>1 DEF Surjection, Range
<1>3. IsFiniteSet(1 .. Len(seq))
  BY <1>1, FS_Interval
<1> QED
  BY <1>1, <1>2, <1>3, FS_Surjection DEF Range

\* Older is the strict and total order of the list.
LEMMA OlderOrders ==
  ASSUME conns \in Seq(Sockets), IsInjective(conns)
  PROVE  /\ Orders(Older, Range(conns))
         /\ \A s, t \in Range(conns) : s # t => <<s, t>> \in Older \/ <<t, s>> \in Older
<1>1. Len(conns) \in Nat /\ conns \in [1 .. Len(conns) -> Sockets] /\ DOMAIN conns = 1 .. Len(conns)
  BY LenProperties
<1>2. \A i, j \in DOMAIN conns : conns[i] = conns[j] => i = j
  BY DEF IsInjective
<1>3. \A s, t : <<s, t>> \in Older => \E i, j \in DOMAIN conns : i < j /\ s = conns[i] /\ t = conns[j]
  BY DEF Older
<1>4. \A i, j \in DOMAIN conns : i < j => <<conns[i], conns[j]>> \in Older
  BY <1>1 DEF Older
<1>5. \A s \in Range(conns) : <<s, s>> \notin Older
  BY <1>1, <1>2, <1>3
<1>6. ASSUME NEW x, NEW y, NEW z, <<x, y>> \in Older, <<y, z>> \in Older
      PROVE  <<x, z>> \in Older
  <2>1. PICK i \in DOMAIN conns, j \in DOMAIN conns : i < j /\ x = conns[i] /\ y = conns[j]
    BY <1>3, <1>6
  <2>2. PICK k \in DOMAIN conns, l \in DOMAIN conns : k < l /\ y = conns[k] /\ z = conns[l]
    BY <1>3, <1>6
  <2>3. j = k
    BY <1>2, <2>1, <2>2
  <2>4. i < l
    BY <1>1, <2>1, <2>2, <2>3
  <2> QED
    BY <1>4, <2>1, <2>2, <2>4
<1>7. ASSUME NEW s \in Range(conns), NEW t \in Range(conns), s # t
      PROVE  <<s, t>> \in Older \/ <<t, s>> \in Older
  <2>1. PICK i \in DOMAIN conns, j \in DOMAIN conns : s = conns[i] /\ t = conns[j]
    BY DEF Range
  <2>2. i < j \/ j < i
    BY <1>1, <1>7, <2>1
  <2> QED
    BY <1>4, <2>1, <2>2
<1> QED
  BY <1>5, <1>6, <1>7 DEF Orders

LEMMA WithoutEffect ==
  ASSUME conns \in Seq(Sockets), IsInjective(conns), NEW gone
  PROVE  /\ Without(gone) \in Seq(Sockets) /\ IsInjective(Without(gone))
         /\ Range(Without(gone)) = Range(conns) \ gone
<1> DEFINE S == Range(conns) \ gone
<1>1. IsFiniteSet(Range(conns)) /\ Range(conns) \subseteq Sockets
  BY FiniteRange
<1>2. IsFiniteSet(S) /\ S \subseteq Sockets
  BY <1>1, FS_Difference
<1>3. Orders(Older, S)
  BY OlderOrders DEF Orders
<1> HIDE DEF S
<1>4. LET seq == InOrder(S, Older)
      IN  seq \in Seq(S) /\ Range(seq) = S /\ IsInjective(seq)
  BY <1>2, <1>3, Ordered
<1>5. Without(gone) = InOrder(S, Older)
  BY DEF Without, S
<1>6. Seq(S) \subseteq Seq(Sockets)
  BY <1>2, SeqMonotonic
<1> QED
  BY <1>4, <1>5, <1>6 DEF S

\* An order in the other direction.
LEMMA FirstElement ==
  ASSUME NEW S, IsFiniteSet(S), S # {}, NEW R, Orders(R, S)
  PROVE  \E x \in S : \A y \in S : <<y, x>> \notin R
<1> DEFINE Back == {p \in S \X S : <<p[2], p[1]>> \in R}
<1>1. \A x, y \in S : <<x, y>> \in Back <=> <<y, x>> \in R
  OBVIOUS
<1> HIDE DEF Back
<1>2. Orders(Back, S)
  BY <1>1 DEF Orders
<1>3. PICK x \in S : \A y \in S : <<x, y>> \notin Back
  BY <1>2, LastElement
<1> QED
  BY <1>1, <1>3

\* After eviction there is room for one more socket.
LEMMA RoomForOne ==
  ASSUME conns \in Seq(Sockets), IsInjective(conns), NEW u
  PROVE  LET mine == {s \in Range(conns) : socket[s].user = u}
         IN  IsFiniteSet(mine \ Evicted(u)) /\ Cardinality(mine \ Evicted(u)) + 1 <= MaxSockets
<1> DEFINE mine == {s \in Range(conns) : socket[s].user = u}
           newer(s) == {t \in mine : <<s, t>> \in Older}
           goes(s) == Cardinality(newer(s)) + 1 >= MaxSockets
           rest == mine \ Evicted(u)
<1>0. Evicted(u) = {s \in mine : goes(s)}
  BY DEF Evicted
<1>1. IsFiniteSet(mine)
  BY FiniteRange, FS_Subset
<1>2. \A s : IsFiniteSet(newer(s)) /\ Cardinality(newer(s)) \in Nat
  BY <1>1, FS_Subset, FS_CardinalityType
<1>3. MaxSockets \in Nat /\ MaxSockets # 0
  BY DiscussionAssumption
<1>4. IsFiniteSet(rest) /\ Cardinality(rest) \in Nat
  BY <1>1, FS_Difference, FS_CardinalityType
<1>5. CASE rest = {}
  BY <1>3, <1>4, <1>5, FS_EmptySet
<1>6. CASE rest # {}
  <2>1. Orders(Older, rest)
    BY OlderOrders DEF Orders
  <2>2. PICK x \in rest : \A y \in rest : <<y, x>> \notin Older
    BY <1>4, <1>6, <2>1, FirstElement
  <2>3. rest \subseteq newer(x) \union {x}
    BY <2>2, OlderOrders
  <2>4. Cardinality(newer(x)) + 1 < MaxSockets
    <3> HIDE DEF goes
    <3>1. ~goes(x)
      BY <1>0, <2>2
    <3> USE DEF goes
    <3> HIDE DEF newer
    <3> QED
      BY <1>2, <1>3, <3>1
  <2> HIDE DEF newer, rest
  <2>5. IsFiniteSet(newer(x) \union {x}) /\ Cardinality(newer(x) \union {x}) <= Cardinality(newer(x)) + 1
    <3>1. IsFiniteSet(newer(x)) /\ Cardinality(newer(x)) \in Nat
      BY <1>2
    <3>2. /\ IsFiniteSet(newer(x) \union {x})
          /\ Cardinality(newer(x) \union {x}) = IF x \in newer(x) THEN Cardinality(newer(x))
                                                 ELSE Cardinality(newer(x)) + 1
      BY <3>1, FS_AddElement
    <3> QED
      BY <3>1, <3>2
  <2>6. Cardinality(rest) <= Cardinality(newer(x) \union {x})
    BY <2>3, <2>5, FS_Subset
  <2>7. Cardinality(newer(x) \union {x}) \in Nat
    BY <2>5, FS_CardinalityType
  <2>8. Cardinality(newer(x)) \in Nat
    BY <1>2
  <2>9. IsFiniteSet(rest) /\ Cardinality(rest) + 1 <= MaxSockets
    BY <1>3, <1>4, <2>4, <2>5, <2>6, <2>7, <2>8
  <2> QED
    BY <2>9 DEF rest
<1> QED
  BY <1>4, <1>5, <1>6

-------------------------------------------------------------------------------
(* Sockets and events                                                      *)

\* Only a commit changes a row, and what is there stays.
LEMMA RowsStay ==
  ASSUME RequestInv, [Next]_vars, NEW m \in Messages, comment[m].exists
  PROVE  /\ comment'[m].exists /\ comment'[m].created = comment[m].created
         /\ comment[m].deleted => comment'[m].deleted
<1>1. comment \in [Messages -> Comment] /\ comment[m] \in Comment
  BY DEF RequestInv, RequestTypes
<1>2. ASSUME NEW r \in Requests, Serve(r), comment' # comment
      PROVE  /\ comment'[m].exists /\ comment'[m].created = comment[m].created
             /\ comment[m].deleted => comment'[m].deleted
  <2>1. RequestOK(r)
    BY DEF RequestInv
  <2>2. CASE commit_post(r)
    <3>1. comment'[m] = comment[m] \/ m = req[r].msg
      BY <1>1, <2>2 DEF commit_post, Commit
    <3>2. req[r].step = "post"
      BY <2>2 DEF commit_post, Commit
    <3> QED
      BY <2>1, <3>1, <3>2 DEF RequestOK
  <2>3. CASE commit_update(r)
    <3>1. PICK content : comment' = [comment EXCEPT ![req[r].msg].content = content]
      BY <2>3 DEF commit_update
    <3> QED
      BY <1>1, <3>1 DEF Comment
  <2>4. CASE commit_delete(r)
    <3>1. comment' = [comment EXCEPT ![req[r].msg].deleted = TRUE]
      BY <2>4 DEF commit_delete
    <3> QED
      BY <1>1, <3>1 DEF Comment
  <2> QED
    BY <1>2, <2>2, <2>3, <2>4 DEF Serve, commit_read, rollback, publish_event, dbvars
<1>3. ASSUME NEW r \in Requests, NEW u \in Users,
             post_message(r, u) \/ mark_read(r, u)
             \/ \E n \in Messages : update_comment(r, u, n) \/ delete_comment(r, u, n)
      PROVE  comment' = comment
  BY <1>3 DEF post_message, mark_read, update_comment, delete_comment, Begin, dbvars
<1>4. Elsewhere \/ crash \/ UNCHANGED vars => comment' = comment
  BY ElsewhereEffect DEF crash, vars, dbvars
<1> QED
  BY <1>2, <1>3, <1>4 DEF Next, Elsewhere

SocketStates == {"new", "authorized", "open", "closing", "closed", "deaf"}
LoopEvent == [type : {"created", "updated", "deleted"}, content : Nat, msg : Messages]
Shows == {e \in Event : e.type = "none" => e = NoEvent}

SocketTypes == /\ has_loop \in BOOLEAN
               /\ loop \in Seq(LoopEvent)
               /\ conns \in Seq(Sockets)
               /\ socket \in [Sockets -> [state : SocketStates, user : Users \union {None}]]
               /\ view \in [Sockets -> [Messages -> Shows]]

Mine(u) == {s \in Range(conns) : socket[s].user = u}

SocketInv == /\ SocketTypes
             /\ IsInjective(conns)
             /\ Range(conns) = {s \in Sockets : socket[s].state = "open"}
             /\ \A u \in Users : Cardinality(Mine(u)) <= MaxSockets
             /\ ~has_loop => conns = <<>> /\ loop = <<>>
             /\ \A i \in DOMAIN loop : comment[loop[i].msg].exists

LEMMA EmptyList ==
  /\ <<>> \in Seq(Sockets) /\ <<>> \in Seq(LoopEvent)
  /\ IsInjective(<<>>) /\ Range(<<>>) = {} /\ DOMAIN <<>> = {}
BY DEF IsInjective, Range

LEMMA NoEventShows == NoEvent \in Shows /\ NoView \in [Messages -> Shows]
BY DEF NoEvent, Shows, Event, NoView

LEMMA SocketsInitially == Init => SocketInv
<1> SUFFICES ASSUME Init PROVE SocketInv
  OBVIOUS
<1>1. SocketTypes
  BY EmptyList, NoEventShows DEF Init, SocketTypes, NewSocket, SocketStates
<1>2. Range(conns) = {s \in Sockets : socket[s].state = "open"}
  BY EmptyList DEF Init, NewSocket
<1>3. ASSUME NEW u \in Users PROVE Cardinality(Mine(u)) <= MaxSockets
  <2>1. Mine(u) = {}
    BY EmptyList DEF Mine, Init
  <2> QED
    BY <2>1, FS_EmptySet, DiscussionAssumption
<1> QED
  BY <1>1, <1>2, <1>3, EmptyList DEF Init, SocketInv

\* Fewer sockets keep to the cap.
LEMMA Fewer ==
  ASSUME SocketInv, NEW u \in Users, Mine(u)' \subseteq Mine(u)
  PROVE  Cardinality(Mine(u)') <= MaxSockets
<1>1. IsFiniteSet(Mine(u))
  BY FiniteRange, FS_Subset DEF Mine, SocketInv, SocketTypes
<1>2. /\ IsFiniteSet(Mine(u)') /\ Cardinality(Mine(u)') <= Cardinality(Mine(u))
  BY <1>1, FS_Subset
<1>3. Cardinality(Mine(u)) \in Nat /\ Cardinality(Mine(u)') \in Nat /\ Cardinality(Mine(u)) <= MaxSockets
  BY <1>1, <1>2, FS_CardinalityType DEF SocketInv
<1> QED
  BY <1>2, <1>3, DiscussionAssumption

\* An event taken from a loop, or put into it.
LEMMA TailOfLoop ==
  ASSUME loop \in Seq(LoopEvent), loop # <<>>
  PROVE  /\ Tail(loop) \in Seq(LoopEvent) /\ Head(loop) \in LoopEvent /\ Head(loop) = loop[1]
         /\ 1 \in DOMAIN loop
         /\ \A i \in DOMAIN Tail(loop) : i + 1 \in DOMAIN loop /\ Tail(loop)[i] = loop[i + 1]
         /\ \A i \in DOMAIN loop : i # 1 => i - 1 \in DOMAIN Tail(loop)
<1>1. Len(loop) \in Nat /\ DOMAIN loop = 1 .. Len(loop) /\ Len(loop) # 0
  BY LenProperties, EmptySeq
<1>2. /\ Tail(loop) \in Seq(LoopEvent) /\ Head(loop) \in LoopEvent /\ Head(loop) = loop[1]
      /\ Len(Tail(loop)) = Len(loop) - 1
      /\ \A i \in 1 .. Len(Tail(loop)) : Tail(loop)[i] = loop[i + 1]
  BY HeadTailProperties
<1>3. DOMAIN Tail(loop) = 1 .. Len(Tail(loop))
  BY <1>2, LenProperties
<1> QED
  BY <1>1, <1>2, <1>3

LEMMA AppendToLoop ==
  ASSUME NEW S, NEW seq \in Seq(S), NEW e \in S
  PROVE  /\ Append(seq, e) \in Seq(S) /\ Len(seq) \in Nat
         /\ DOMAIN seq = 1 .. Len(seq)
         /\ DOMAIN Append(seq, e) = 1 .. Len(seq) + 1
         /\ \A i \in 1 .. Len(seq) : Append(seq, e)[i] = seq[i]
         /\ Append(seq, e)[Len(seq) + 1] = e
<1>1. /\ Append(seq, e) \in Seq(S) /\ Len(Append(seq, e)) = Len(seq) + 1
      /\ \A i \in 1 .. Len(seq) : Append(seq, e)[i] = seq[i]
      /\ Append(seq, e)[Len(seq) + 1] = e
  BY AppendProperties
<1> QED
  BY <1>1, LenProperties

\* What does not touch the sockets.
LEMMA SocketsUntouched ==
  ASSUME RequestInv, SocketInv, [Next]_vars, UNCHANGED wsvars
  PROVE  SocketInv'
<1>1. UNCHANGED <<has_loop, loop, conns, socket, view>>
  BY DEF wsvars
<1>2. SocketTypes' /\ \A u : Mine(u)' = Mine(u)
  BY <1>1 DEF SocketInv, SocketTypes, Mine
<1>3. ASSUME NEW i \in DOMAIN loop PROVE comment'[loop[i].msg].exists
  <2>1. loop[i].msg \in Messages /\ comment[loop[i].msg].exists
    <3>1. loop \in Seq(LoopEvent) /\ comment[loop[i].msg].exists
      BY DEF SocketInv, SocketTypes
    <3>2. i \in 1 .. Len(loop)
      BY <3>1, LenProperties
    <3>3. loop[i] \in LoopEvent
      BY <3>1, <3>2, ElementOfSeq
    <3> QED
      BY <3>1, <3>3 DEF LoopEvent
  <2> QED
    BY <2>1, RowsStay
<1> QED
  BY <1>1, <1>2, <1>3 DEF SocketInv

LEMMA PublishEventStep ==
  ASSUME RequestInv, SocketInv, NEW r \in Requests, publish_event(r)
  PROVE  SocketInv'
<1> DEFINE e == [type |-> req[r].step, content |-> req[r].content, msg |-> req[r].msg]
<1>1. /\ req[r].step \in {"created", "updated", "deleted"}
      /\ loop' = IF has_loop THEN Append(loop, e) ELSE loop
      /\ UNCHANGED <<comment, has_loop, conns, socket, view>>
  BY DEF publish_event, dbvars
<1>2. /\ req[r].msg \in Messages /\ req[r].content \in Nat /\ comment[req[r].msg].exists
  BY <1>1 DEF RequestInv, RequestTypes, RequestOK, Request
<1>3. e \in LoopEvent /\ e.msg = req[r].msg
  BY <1>1, <1>2 DEF LoopEvent
<1> HIDE DEF e
<1>4. SocketTypes /\ loop \in Seq(LoopEvent)
  BY DEF SocketInv, SocketTypes
<1>5. /\ Append(loop, e) \in Seq(LoopEvent) /\ Len(loop) \in Nat
      /\ DOMAIN loop = 1 .. Len(loop)
      /\ DOMAIN Append(loop, e) = 1 .. Len(loop) + 1
      /\ \A i \in 1 .. Len(loop) : Append(loop, e)[i] = loop[i]
      /\ Append(loop, e)[Len(loop) + 1] = e
  BY <1>3, <1>4, AppendToLoop
<1>6. SocketTypes' /\ \A u : Mine(u)' = Mine(u)
  BY <1>1, <1>4, <1>5 DEF SocketTypes, Mine
<1>7. \A i \in DOMAIN Append(loop, e) : comment[Append(loop, e)[i].msg].exists
  <2> TAKE i \in DOMAIN Append(loop, e)
  <2>1. i \in DOMAIN loop \/ i = Len(loop) + 1
    BY <1>5
  <2> QED
    BY <1>2, <1>3, <1>5, <2>1 DEF SocketInv
<1> QED
  BY <1>1, <1>6, <1>7 DEF SocketInv

LEMMA PublishStep ==
  ASSUME SocketInv, publish
  PROVE  SocketInv'
<1> DEFINE e == [type |-> Head(loop).type, content |-> Head(loop).content]
           m == Head(loop).msg
<1>1. PICK failed \in SUBSET Range(conns) :
        /\ loop # <<>> /\ loop' = Tail(loop)
        /\ view' = [s \in Sockets |-> IF Registered(s) /\ s \notin failed
                                      THEN [view[s] EXCEPT ![m] = e] ELSE NoView]
        /\ conns' = Without(failed)
        /\ socket' = [s \in Sockets |-> IF s \in failed THEN [socket[s] EXCEPT !.state = "closing"]
                                        ELSE socket[s]]
        /\ UNCHANGED <<comment, has_loop>>
  BY DEF publish, dbvars
<1>2. SocketTypes /\ IsInjective(conns) /\ Range(conns) = {s \in Sockets : socket[s].state = "open"}
  BY DEF SocketInv
<1>3. /\ conns' \in Seq(Sockets) /\ IsInjective(conns')
      /\ Range(conns') = Range(conns) \ failed
  BY <1>1, <1>2, WithoutEffect DEF SocketTypes
<1>4. /\ Tail(loop) \in Seq(LoopEvent) /\ Head(loop) \in LoopEvent
      /\ \A i \in DOMAIN Tail(loop) : i + 1 \in DOMAIN loop /\ Tail(loop)[i] = loop[i + 1]
  BY <1>1, <1>2, TailOfLoop DEF SocketTypes
<1>5. e \in Shows
  BY <1>4 DEF LoopEvent, Shows, Event
<1> HIDE DEF e
<1>6. view' \in [Sockets -> [Messages -> Shows]]
  <2>1. ASSUME NEW s \in Sockets PROVE view[s] \in [Messages -> Shows]
    BY <1>2 DEF SocketTypes
  <2>2. \A s \in Sockets : [view[s] EXCEPT ![m] = e] \in [Messages -> Shows]
    BY <1>5, <2>1
  <2> QED
    BY <1>1, <2>2, NoEventShows
<1>7. /\ socket' \in [Sockets -> [state : SocketStates, user : Users \union {None}]]
      /\ \A s \in Sockets : /\ socket'[s].user = socket[s].user
                            /\ socket'[s].state = IF s \in failed THEN "closing" ELSE socket[s].state
  BY <1>1, <1>2 DEF SocketTypes, SocketStates
<1>8. SocketTypes'
  BY <1>1, <1>2, <1>3, <1>4, <1>6, <1>7 DEF SocketTypes
<1>9. Range(conns') = {s \in Sockets : socket'[s].state = "open"}
  BY <1>2, <1>3, <1>7
<1>10. \A u \in Users : Cardinality(Mine(u)') <= MaxSockets
  <2> TAKE u \in Users
  <2>1. Mine(u)' \subseteq Mine(u)
    BY <1>2, <1>3, <1>7 DEF Mine
  <2> QED
    BY <2>1, Fewer
<1>11. has_loop
  BY <1>1 DEF SocketInv
<1>12. \A i \in DOMAIN loop' : comment'[loop'[i].msg].exists
  BY <1>1, <1>4 DEF SocketInv
<1> QED
  BY <1>1, <1>3, <1>8, <1>9, <1>10, <1>11, <1>12 DEF SocketInv

\* A socket that changes its state without being in the list.
LEMMA AwayStep ==
  ASSUME SocketInv, NEW s \in Sockets, socket[s].state # "open",
         NEW new \in [state : SocketStates \ {"open"}, user : Users \union {None}],
         socket' = [socket EXCEPT ![s] = new],
         UNCHANGED <<comment, has_loop, loop, conns, view>>
  PROVE  SocketInv'
<1>1. SocketTypes /\ Range(conns) = {t \in Sockets : socket[t].state = "open"}
  BY DEF SocketInv
<1>2. /\ socket' \in [Sockets -> [state : SocketStates, user : Users \union {None}]]
      /\ socket'[s].state # "open" /\ \A t \in Sockets : t # s => socket'[t] = socket[t]
  BY <1>1 DEF SocketTypes
<1>3. SocketTypes'
  BY <1>1, <1>2 DEF SocketTypes
<1>4. Range(conns') = {t \in Sockets : socket'[t].state = "open"}
  BY <1>1, <1>2
<1>5. \A u \in Users : Cardinality(Mine(u)') <= MaxSockets
  <2> TAKE u \in Users
  <2>1. Mine(u)' \subseteq Mine(u)
    BY <1>1, <1>2 DEF Mine
  <2> QED
    BY <2>1, Fewer
<1> QED
  BY <1>3, <1>4, <1>5 DEF SocketInv

LEMMA AuthorizeStep ==
  ASSUME SocketInv, NEW s \in Sockets, (\E u \in Users : authorize(s, u)) \/ close(s)
  PROVE  SocketInv'
<1>1. socket[s] \in [state : SocketStates, user : Users \union {None}]
  BY DEF SocketInv, SocketTypes
<1>2. ASSUME NEW u \in Users, authorize(s, u)
      PROVE  SocketInv'
  <2> DEFINE new == [state |-> "authorized", user |-> u]
  <2>1. new \in [state : SocketStates \ {"open"}, user : Users \union {None}]
    BY DEF SocketStates
  <2>2. socket[s].state # "open" /\ socket' = [socket EXCEPT ![s] = new]
        /\ UNCHANGED <<comment, has_loop, loop, conns, view>>
    BY <1>2 DEF authorize, dbvars
  <2> QED
    BY <2>1, <2>2, AwayStep
<1>3. CASE close(s)
  <2>1. PICK state \in {"closed", "deaf"} : socket' = [socket EXCEPT ![s].state = state]
    BY <1>3 DEF close
  <2> DEFINE new == [socket[s] EXCEPT !.state = state]
  <2>2. new \in [state : SocketStates \ {"open"}, user : Users \union {None}]
    BY <1>1 DEF SocketStates
  <2>3. socket[s].state # "open" /\ UNCHANGED <<comment, has_loop, loop, conns, view>>
    BY <1>3 DEF close, dbvars
  <2>4. socket' = [socket EXCEPT ![s] = new]
    BY <2>1
  <2> HIDE DEF new
  <2> QED
    BY <2>2, <2>3, <2>4, AwayStep
<1> QED
  BY <1>2, <1>3

LEMMA ConnectStep ==
  ASSUME SocketInv, NEW s \in Sockets, connect(s)
  PROVE  SocketInv'
<1> DEFINE u == socket[s].user
           gone == Evicted(u)
           seen == [m \in Messages |-> IF comment[m].exists THEN [NoEvent EXCEPT !.type = "before"]
                                       ELSE NoEvent]
<1>1. /\ socket[s].state = "authorized"
      /\ conns' = Append(Without(gone), s)
      /\ socket' = [t \in Sockets |-> IF t = s THEN [socket[t] EXCEPT !.state = "open"]
                                      ELSE IF t \in gone THEN [socket[t] EXCEPT !.state = "closing"]
                                      ELSE socket[t]]
      /\ view' = [t \in Sockets |-> IF t = s THEN seen ELSE IF t \in gone THEN NoView ELSE view[t]]
      /\ has_loop' = TRUE
      /\ UNCHANGED <<comment, loop>>
  BY DEF connect, dbvars
<1>2. /\ SocketTypes /\ IsInjective(conns)
      /\ Range(conns) = {t \in Sockets : socket[t].state = "open"}
  BY DEF SocketInv
<1>3. gone \subseteq Mine(u)
  BY DEF Evicted, Mine
<1>4. IsFiniteSet(Mine(u) \ gone) /\ Cardinality(Mine(u) \ gone) + 1 <= MaxSockets
  BY <1>2, RoomForOne DEF SocketTypes, Mine
<1>5. seen \in [Messages -> Shows]
  <2>1. [NoEvent EXCEPT !.type = "before"] \in Shows
    BY DEF NoEvent, Shows, Event
  <2> QED
    BY <2>1, NoEventShows
<1> HIDE DEF gone, seen
<1>6. /\ Without(gone) \in Seq(Sockets) /\ IsInjective(Without(gone))
      /\ Range(Without(gone)) = Range(conns) \ gone
  BY <1>2, WithoutEffect DEF SocketTypes
<1>7. s \notin Range(conns)
  BY <1>1, <1>2
<1>8. /\ conns' \in Seq(Sockets) /\ IsInjective(conns')
      /\ Range(conns') = (Range(conns) \ gone) \union {s}
  <2> DEFINE rest == Without(gone)
  <2> HIDE DEF rest
  <2>1. rest \in Seq(Sockets) /\ IsInjective(rest) /\ Range(rest) = Range(conns) \ gone /\ s \notin Range(rest)
    BY <1>6, <1>7 DEF rest
  <2>2. /\ Append(rest, s) \in Seq(Sockets) /\ Len(rest) \in Nat
        /\ DOMAIN rest = 1 .. Len(rest)
        /\ DOMAIN Append(rest, s) = 1 .. Len(rest) + 1
        /\ \A i \in 1 .. Len(rest) : Append(rest, s)[i] = rest[i]
        /\ Append(rest, s)[Len(rest) + 1] = s
    BY <2>1, AppendToLoop
  <2> DEFINE all == Append(rest, s)
  <2> HIDE DEF all
  <2>3. \A i \in DOMAIN all : (i \in DOMAIN rest /\ all[i] = rest[i] /\ all[i] # s) \/ (i = Len(rest) + 1 /\ all[i] = s)
    BY <2>1, <2>2 DEF all, Range
  <2>4. IsInjective(all)
    BY <2>1, <2>3 DEF IsInjective
  <2>5. \A x : x \in Range(all) => x \in Range(rest) \union {s}
    BY <2>3 DEF Range
  <2>6. \A x : x \in Range(rest) \union {s} => x \in Range(all)
    <3> TAKE x
    <3> HAVE x \in Range(rest) \union {s}
    <3>1. CASE x = s
      <4>1. Len(rest) + 1 \in DOMAIN all /\ all[Len(rest) + 1] = s
        BY <2>2 DEF all
      <4> QED
        BY <3>1, <4>1 DEF Range
    <3>2. CASE x \in Range(rest)
      <4>1. PICK i \in DOMAIN rest : x = rest[i]
        BY <3>2 DEF Range
      <4>2. i \in DOMAIN all /\ all[i] = x
        BY <2>2, <4>1 DEF all
      <4> QED
        BY <4>2 DEF Range
    <3> QED
      BY <3>1, <3>2
  <2> QED
    BY <1>1, <2>1, <2>2, <2>4, <2>5, <2>6 DEF all, rest
<1>9. /\ socket' \in [Sockets -> [state : SocketStates, user : Users \union {None}]]
      /\ \A t \in Sockets : socket'[t].user = socket[t].user
      /\ \A t \in Sockets : socket'[t].state = IF t = s THEN "open"
                                               ELSE IF t \in gone THEN "closing" ELSE socket[t].state
  BY <1>1, <1>2 DEF SocketTypes, SocketStates
<1>10. view' \in [Sockets -> [Messages -> Shows]]
  BY <1>1, <1>2, <1>5, NoEventShows DEF SocketTypes
<1>11. SocketTypes'
  BY <1>1, <1>2, <1>8, <1>9, <1>10 DEF SocketTypes
<1>12. Range(conns') = {t \in Sockets : socket'[t].state = "open"}
  BY <1>2, <1>8, <1>9
<1>13. ASSUME NEW v \in Users PROVE Cardinality(Mine(v)') <= MaxSockets
  <2>1. \A t \in Range(conns') : t \in Sockets
    BY <1>12
  <2>2. CASE v = u
    <3>1. Mine(v)' = (Mine(u) \ gone) \union {s}
      BY <1>2, <1>8, <1>9, <2>1, <2>2 DEF Mine
    <3>2. s \notin Mine(u) \ gone
      BY <1>7 DEF Mine
    <3> DEFINE rest == Mine(u) \ gone
    <3>3. IsFiniteSet(rest) /\ Cardinality(rest) + 1 <= MaxSockets
      BY <1>4
    <3> HIDE DEF rest
    <3>4. Cardinality(rest \union {s}) = Cardinality(rest) + 1
      BY <3>2, <3>3, FS_AddElement DEF rest
    <3> QED
      BY <3>1, <3>3, <3>4 DEF rest
  <2>3. CASE v # u
    <3>1. Mine(v)' \subseteq Mine(v)
      BY <1>2, <1>8, <1>9, <2>1, <2>3 DEF Mine
    <3> QED
      BY <3>1, Fewer
  <2> QED
    BY <2>2, <2>3
<1> QED
  BY <1>1, <1>8, <1>11, <1>12, <1>13 DEF SocketInv

LEMMA DisconnectStep ==
  ASSUME SocketInv, NEW s \in Sockets, disconnect(s)
  PROVE  SocketInv'
<1>1. /\ socket' = [socket EXCEPT ![s].state = "closed"]
      /\ conns' = Without({s})
      /\ view' = [view EXCEPT ![s] = NoView]
      /\ UNCHANGED <<comment, has_loop, loop>>
  BY DEF disconnect, dbvars
<1>2. /\ SocketTypes /\ IsInjective(conns)
      /\ Range(conns) = {t \in Sockets : socket[t].state = "open"}
  BY DEF SocketInv
<1>3. /\ conns' \in Seq(Sockets) /\ IsInjective(conns')
      /\ Range(conns') = Range(conns) \ {s}
  BY <1>1, <1>2, WithoutEffect DEF SocketTypes
<1>4. /\ socket' \in [Sockets -> [state : SocketStates, user : Users \union {None}]]
      /\ \A t \in Sockets : /\ socket'[t].user = socket[t].user
                            /\ socket'[t].state = IF t = s THEN "closed" ELSE socket[t].state
  BY <1>1, <1>2 DEF SocketTypes, SocketStates
<1>5. view' \in [Sockets -> [Messages -> Shows]]
  BY <1>1, <1>2, NoEventShows DEF SocketTypes
<1>6. SocketTypes'
  BY <1>1, <1>2, <1>3, <1>4, <1>5 DEF SocketTypes
<1>7. Range(conns') = {t \in Sockets : socket'[t].state = "open"}
  BY <1>2, <1>3, <1>4
<1>8. \A u \in Users : Cardinality(Mine(u)') <= MaxSockets
  <2> TAKE u \in Users
  <2>1. Mine(u)' \subseteq Mine(u)
    BY <1>2, <1>3, <1>4 DEF Mine
  <2> QED
    BY <2>1, Fewer
<1>9. ~has_loop => conns' = <<>>
  <2> SUFFICES ASSUME ~has_loop PROVE conns' = <<>>
    OBVIOUS
  <2>1. Range(conns) = {}
    BY EmptyList DEF SocketInv
  <2>2. Range(conns') = {}
    BY <1>3, <2>1
  <2>3. DOMAIN conns' = {}
    BY <2>2 DEF Range
  <2> QED
    BY <1>3, <2>3, LenProperties, EmptySeq
<1> QED
  BY <1>1, <1>3, <1>6, <1>7, <1>8, <1>9 DEF SocketInv

LEMMA CrashSocketsStep ==
  ASSUME SocketInv, crash
  PROVE  SocketInv'
<1>1. /\ has_loop' = FALSE /\ loop' = <<>> /\ conns' = <<>>
      /\ socket' = [s \in Sockets |-> IF socket[s].state = "new" THEN NewSocket
                                      ELSE [socket[s] EXCEPT !.state = "closed"]]
      /\ view' = [s \in Sockets |-> NoView]
  BY DEF crash
<1>2. SocketTypes
  BY DEF SocketInv
<1>3. /\ socket' \in [Sockets -> [state : SocketStates, user : Users \union {None}]]
      /\ \A s \in Sockets : socket'[s].state # "open"
  BY <1>1, <1>2 DEF SocketTypes, SocketStates, NewSocket
<1>4. SocketTypes'
  BY <1>1, <1>3, EmptyList, NoEventShows DEF SocketTypes
<1>5. Range(conns') = {s \in Sockets : socket'[s].state = "open"}
  BY <1>1, <1>3, EmptyList
<1>6. \A u \in Users : Cardinality(Mine(u)') <= MaxSockets
  <2> TAKE u \in Users
  <2>1. Mine(u)' \subseteq Mine(u)
    BY <1>1, EmptyList DEF Mine
  <2> QED
    BY <2>1, Fewer
<1> QED
  BY <1>1, <1>4, <1>5, <1>6, EmptyList DEF SocketInv

LEMMA SocketStep == RequestInv /\ SocketInv /\ [Next]_vars => SocketInv'
<1> SUFFICES ASSUME RequestInv, SocketInv, [Next]_vars PROVE SocketInv'
  OBVIOUS
<1>1. ASSUME NEW r \in Requests, NEW u \in Users,
             post_message(r, u) \/ mark_read(r, u)
             \/ \E m \in Messages : update_comment(r, u, m) \/ delete_comment(r, u, m)
      PROVE  UNCHANGED wsvars
  BY <1>1 DEF post_message, mark_read, update_comment, delete_comment, Begin
<1>2. ASSUME NEW r \in Requests, Serve(r)
      PROVE  UNCHANGED wsvars \/ publish_event(r)
  BY <1>2 DEF Serve, commit_post, commit_read, commit_update, commit_delete, Commit, rollback
<1>3. list_messages \/ UNCHANGED vars => UNCHANGED wsvars
  BY DEF list_messages, vars
<1> QED
  BY <1>1, <1>2, <1>3, SocketsUntouched, PublishEventStep, PublishStep, AuthorizeStep, ConnectStep,
     DisconnectStep, CrashSocketsStep DEF Next

LEMMA SocketsHold == Spec => [](RequestInv /\ SocketInv)
BY RequestsInitially, SocketsInitially, RequestStep, SocketStep, PTL DEF Spec

\* TypeOK: what is registered is what is open, each once, and no user has more
\* than MAX_SOCKETS_PER_USER_PROJECT; events are of committed messages.
THEOREM DiscussionTyped == Spec => []TypeOK
<1>1. ASSUME RequestInv, SocketInv PROVE TypeOK
  <2>1. \A u \in Users : Cardinality({s \in Range(conns) : socket[s].user = u}) <= MaxSockets
    BY <1>1 DEF SocketInv, Mine
  <2>2. view \in [Sockets -> [Messages -> Event]]
    BY <1>1 DEF SocketInv, SocketTypes, Shows
  <2>3. \A r \in Requests :
          /\ req[r].step \in {"idle", "post", "read", "edit", "delete", "created", "updated", "deleted"}
          /\ req[r].step # "idle" => req[r].user \in Users /\ req[r].at <= clock
          /\ req[r].step \notin {"idle", "read"} => req[r].msg \in Messages
    BY <1>1 DEF RequestInv, RequestTypes, RequestOK, Request, Steps
  <2> QED
    BY <1>1, <2>1, <2>2, <2>3 DEF TypeOK, RequestInv, RequestTypes, SocketInv, SocketTypes
<1> QED
  BY <1>1, SocketsHold, PTL

-------------------------------------------------------------------------------
(* What sockets hear                                                       *)

Publishing(r, m) == req[r].step \in {"created", "updated", "deleted"} /\ req[r].msg = m

\* Who heard this event of m last, or none, has what the database holds.
Truth(type, content, m) == /\ comment[m].exists <=> type # "none"
                           /\ comment[m].deleted <=> type = "deleted"
                           /\ ~comment[m].deleted => content = comment[m].content

LastOfMessage(i, m) == loop[i].msg = m /\ \A j \in DOMAIN loop : i < j => loop[j].msg # m

Silent(m) == \A i \in DOMAIN loop : loop[i].msg # m

\* The event that a socket will hear last of m is the one about to be published,
\* or else the last in the loop, or else the one it has heard.
Heard(m) ==
  m \notin raced =>
    /\ \A r \in Requests : Publishing(r, m) => Truth(req[r].step, req[r].content, m)
    /\ (\A r \in Requests : ~Publishing(r, m)) =>
         /\ \A i \in DOMAIN loop : LastOfMessage(i, m) => Truth(loop[i].type, loop[i].content, m)
         /\ Silent(m) => \A s \in Range(conns) :
                           view[s][m].type # "before" => Truth(view[s][m].type, view[s][m].content, m)

HeardInv == \A m \in Messages : Heard(m)

LEMMA HeardInitially == Init => HeardInv
<1> SUFFICES ASSUME Init PROVE HeardInv
  OBVIOUS
<1>1. Range(conns) = {} /\ DOMAIN loop = {}
  BY EmptyList DEF Init
<1>2. \A r \in Requests, m \in Messages : ~Publishing(r, m)
  BY DEF Init, Publishing, IdleRequest
<1> QED
  BY <1>1, <1>2 DEF HeardInv, Heard

\* The message, its events and who is about to publish are the same.
LEMMA HeardSame ==
  ASSUME NEW m \in Messages, Heard(m), comment'[m] = comment[m], raced \subseteq raced',
         UNCHANGED <<loop, conns, view>>,
         \A r \in Requests : Publishing(r, m)' <=> Publishing(r, m),
         \A r \in Requests : Publishing(r, m) => req'[r].step = req[r].step /\ req'[r].content = req[r].content
  PROVE  Heard(m)'
<1>1. SUFFICES ASSUME m \notin raced' PROVE Heard(m)'
  BY DEF Heard
<1>2. \A r \in Requests : Publishing(r, m)' => Truth(req[r].step, req[r].content, m)'
  BY <1>1 DEF Heard, Truth
<1>4. ASSUME \A r \in Requests : ~Publishing(r, m)'
      PROVE  /\ \A i \in DOMAIN loop : LastOfMessage(i, m) => Truth(loop[i].type, loop[i].content, m)
             /\ Silent(m) => \A s \in Range(conns) :
                  view[s][m].type # "before" => Truth(view[s][m].type, view[s][m].content, m)
  BY <1>1, <1>4 DEF Heard
<1> QED
  BY <1>1, <1>2, <1>4 DEF Heard, Truth, LastOfMessage, Silent

LEMMA BeginHeard ==
  ASSUME RequestInv, HeardInv, NEW r \in Requests, NEW u \in Users, NEW m \in Messages \union {None},
         NEW step \in {"post", "read", "edit", "delete"}, Begin(r, u, step, m), raced \subseteq raced'
  PROVE  HeardInv'
<1>1. /\ req'[r].step = step /\ req[r].step = "idle"
      /\ \A q \in Requests : q # r => req'[q] = req[q]
      /\ comment' = comment /\ UNCHANGED <<loop, conns, view>>
  BY BeginEffect DEF Begin, wsvars
<1>2. ASSUME NEW n \in Messages PROVE Heard(n)'
  <2>1. \A q \in Requests : /\ Publishing(q, n)' <=> Publishing(q, n)
                            /\ Publishing(q, n) => req'[q] = req[q]
    BY <1>1 DEF Publishing
  <2> QED
    BY <1>1, <2>1, HeardSame DEF HeardInv
<1> QED
  BY <1>2 DEF HeardInv

\* A step writes one comment, and the event that it broadcasts is true of it.
Tells(event, m) ==
  /\ \A n \in Messages : n # m => comment'[n] = comment[n]
  /\ m \notin raced => /\ comment'[m].exists
                       /\ comment'[m].deleted <=> event.type = "deleted"
                       /\ ~comment'[m].deleted => event.content = comment'[m].content

\* A commit leaves its request with an event that is true of its message, the
\* only one on its way there unless requests overlapped.
LEMMA CommitHeard ==
  ASSUME RequestInv, HeardInv, NEW r \in Requests,
         NEW step \in {"post", "edit", "delete"},
         NEW event \in [type : {"created", "updated", "deleted"}, content : Nat],
         Commit(r, step, event),
         NEW m \in Messages, m = req[r].msg, Tells(event, m)
  PROVE  HeardInv'
<1>1. event # NoEvent
  BY DEF NoEvent
<1>2. /\ req'[r].step = event.type /\ req'[r].content = event.content /\ req'[r].msg = m
      /\ \A q \in Requests : q # r => req'[q] = req[q]
      /\ req[r].step = step /\ raced' = raced
  BY <1>1, CommitEffect
<1>3. UNCHANGED <<loop, conns, view>>
  BY DEF Commit, wsvars
<1>4. event.type \in {"created", "updated", "deleted"}
  OBVIOUS
<1>5. ASSUME NEW n \in Messages, n # m PROVE Heard(n)'
  <2>1. \A q \in Requests : /\ Publishing(q, n)' <=> Publishing(q, n)
                            /\ Publishing(q, n) => req'[q] = req[q]
    BY <1>2, <1>5 DEF Publishing
  <2> QED
    BY <1>2, <1>3, <1>5, <2>1, HeardSame DEF HeardInv, Tells
<1>6. Heard(m)'
  <2>1. SUFFICES ASSUME m \notin raced PROVE Heard(m)'
    BY <1>2 DEF Heard
  <2>2. OnMessage(r, m)
    BY <1>2 DEF OnMessage
  <2>3. \A q \in Requests : OnMessage(q, m) => q = r
    BY <2>1, <2>2 DEF RequestInv, MessageOK
  <2>4. \A q \in Requests : Publishing(q, m)' <=> q = r
    BY <1>2, <1>4, <2>3 DEF OnMessage, Publishing
  <2>5. \A q \in Requests : Publishing(q, m)' => Truth(req[q].step, req[q].content, m)'
    BY <1>2, <1>4, <2>1, <2>4 DEF Truth, Tells
  <2> QED
    BY <2>4, <2>5 DEF Heard, Truth
<1> QED
  BY <1>5, <1>6 DEF HeardInv

LEMMA CommitsHeard ==
  ASSUME RequestInv, HeardInv, NEW r \in Requests,
         commit_post(r) \/ commit_update(r) \/ commit_delete(r)
  PROVE  HeardInv'
<1> DEFINE m == req[r].msg
<1>1. RequestOK(r) /\ comment \in [Messages -> Comment] /\ \A n \in Messages : MessageOK(n)
  BY DEF RequestInv, RequestTypes
<1>2. CASE commit_post(r)
  <2> DEFINE event == [type |-> "created", content |-> 0]
             row == [exists |-> TRUE, deleted |-> FALSE, author |-> req[r].user,
                     created |-> req[r].at, content |-> 0]
  <2>1. Commit(r, "post", event) /\ comment' = [comment EXCEPT ![m] = row]
    BY <1>2 DEF commit_post
  <2>2. req[r].step = "post" /\ m \in Messages
    BY <1>1, <2>1 DEF Commit, RequestOK
  <2>3. row.exists /\ ~row.deleted /\ row.content = event.content /\ event.type = "created"
    OBVIOUS
  <2>4. "post" \in {"post", "edit", "delete"} /\ event \in [type : {"created", "updated", "deleted"}, content : Nat]
    OBVIOUS
  <2> HIDE DEF row, event
  <2>5. comment'[m] = row /\ \A n \in Messages : n # m => comment'[n] = comment[n]
    BY <1>1, <2>1, <2>2
  <2>6. Tells(event, m)
    BY <2>3, <2>5 DEF Tells
  <2> HIDE DEF m
  <2>7. m = req[r].msg
    BY DEF m
  <2> QED
    BY <2>1, <2>2, <2>4, <2>6, <2>7, CommitHeard
<1>3. CASE commit_update(r)
  <2> DEFINE content == comment[m].content + 1
             event == [type |-> "updated", content |-> content]
  <2>1. Commit(r, "edit", event) /\ comment' = [comment EXCEPT ![m].content = content]
    BY <1>3 DEF commit_update
  <2>2. req[r].step = "edit" /\ m \in Messages /\ comment[m].exists
    BY <1>1, <2>1 DEF Commit, RequestOK
  <2>3. m \notin raced => ~comment[m].deleted
    BY <1>1, <2>2 DEF MessageOK, OnMessage
  <2>4. comment[m] \in Comment /\ content \in Nat
    BY <1>1, <2>2 DEF Comment
  <2> HIDE DEF content
  <2>5. "edit" \in {"post", "edit", "delete"} /\ event \in [type : {"created", "updated", "deleted"}, content : Nat]
        /\ event.type = "updated" /\ event.content = content
    BY <2>4
  <2> HIDE DEF event
  <2>6. /\ comment'[m].exists = comment[m].exists /\ comment'[m].deleted = comment[m].deleted
        /\ comment'[m].content = content
        /\ \A n \in Messages : n # m => comment'[n] = comment[n]
    BY <1>1, <2>1, <2>2, <2>4 DEF Comment
  <2>7. Tells(event, m)
    BY <2>2, <2>3, <2>5, <2>6 DEF Tells
  <2> HIDE DEF m
  <2>8. m = req[r].msg
    BY DEF m
  <2> QED
    BY <2>1, <2>2, <2>5, <2>7, <2>8, CommitHeard
<1>4. CASE commit_delete(r)
  <2> DEFINE event == [type |-> "deleted", content |-> 0]
  <2>1. Commit(r, "delete", event) /\ comment' = [comment EXCEPT ![m].deleted = TRUE]
    BY <1>4 DEF commit_delete
  <2>2. req[r].step = "delete" /\ m \in Messages /\ comment[m].exists
    BY <1>1, <2>1 DEF Commit, RequestOK
  <2>3. comment[m] \in Comment
    BY <1>1, <2>2
  <2>4. "delete" \in {"post", "edit", "delete"} /\ event \in [type : {"created", "updated", "deleted"}, content : Nat]
        /\ event.type = "deleted"
    OBVIOUS
  <2> HIDE DEF event
  <2>5. /\ comment'[m].exists = comment[m].exists /\ comment'[m].deleted
        /\ \A n \in Messages : n # m => comment'[n] = comment[n]
    BY <1>1, <2>1, <2>2, <2>3 DEF Comment
  <2>6. Tells(event, m)
    BY <2>2, <2>4, <2>5 DEF Tells
  <2> HIDE DEF m
  <2>7. m = req[r].msg
    BY DEF m
  <2> QED
    BY <2>1, <2>2, <2>4, <2>6, <2>7, CommitHeard
<1> QED
  BY <1>2, <1>3, <1>4

\* Requests that end without an event.
LEMMA QuietEndHeard ==
  ASSUME RequestInv, HeardInv, NEW r \in Requests, commit_read(r) \/ rollback(r)
  PROVE  HeardInv'
<1>1. /\ req[r].step \in {"post", "read", "edit", "delete"}
      /\ req' = [req EXCEPT ![r] = IdleRequest]
      /\ UNCHANGED <<comment, raced, loop, conns, view>>
  BY DEF commit_read, rollback, Commit, dbvars, wsvars
<1>2. req \in [Requests -> Request] /\ IdleRequest.step = "idle"
  BY DEF RequestInv, RequestTypes, IdleRequest
<1>3. req'[r].step = "idle" /\ \A q \in Requests : q # r => req'[q] = req[q]
  BY <1>1, <1>2
<1>4. ASSUME NEW n \in Messages PROVE Heard(n)'
  <2>1. \A q \in Requests : /\ Publishing(q, n)' <=> Publishing(q, n)
                            /\ Publishing(q, n) => req'[q] = req[q]
    BY <1>1, <1>3 DEF Publishing
  <2> QED
    BY <1>1, <2>1, HeardSame DEF HeardInv
<1> QED
  BY <1>4 DEF HeardInv

\* What is published comes last in the loop.
LEMMA PublishEventHeard ==
  ASSUME RequestInv, SocketInv, HeardInv, NEW r \in Requests, publish_event(r)
  PROVE  HeardInv'
<1> DEFINE n == req[r].msg
           e == [type |-> req[r].step, content |-> req[r].content, msg |-> n]
<1>1. /\ req[r].step \in {"created", "updated", "deleted"}
      /\ loop' = IF has_loop THEN Append(loop, e) ELSE loop
      /\ req' = [req EXCEPT ![r] = IdleRequest]
      /\ UNCHANGED <<comment, has_loop, conns, view, raced>>
  BY DEF publish_event, dbvars
<1>2. n \in Messages /\ req[r].content \in Nat /\ req \in [Requests -> Request]
  BY <1>1 DEF RequestInv, RequestTypes, RequestOK, Request
<1>3. req'[r].step = "idle" /\ \A q \in Requests : q # r => req'[q] = req[q]
  BY <1>1, <1>2 DEF IdleRequest
<1>4. e \in LoopEvent /\ e.msg = n /\ e.type = req[r].step /\ e.content = req[r].content
  BY <1>1, <1>2 DEF LoopEvent
<1> HIDE DEF e
<1>5. loop \in Seq(LoopEvent)
  BY DEF SocketInv, SocketTypes
<1>6. /\ Len(loop) \in Nat /\ DOMAIN loop = 1 .. Len(loop)
      /\ DOMAIN Append(loop, e) = 1 .. Len(loop) + 1
      /\ \A i \in 1 .. Len(loop) : Append(loop, e)[i] = loop[i]
      /\ Append(loop, e)[Len(loop) + 1] = e
  BY <1>4, <1>5, AppendToLoop
<1>7. ASSUME ~has_loop PROVE conns = <<>> /\ DOMAIN loop = {} /\ Range(conns) = {} /\ loop' = loop
  BY <1>1, <1>7, EmptyList DEF SocketInv
<1>8. ASSUME NEW m \in Messages, m \notin raced PROVE Heard(m)'
  <2>1. Heard(m)
    BY DEF HeardInv
  <2>2. \A q \in Requests : Publishing(q, m)' => Publishing(q, m) /\ req'[q] = req[q]
    BY <1>3 DEF Publishing
  <2>3. \A q \in Requests : Publishing(q, m)' => Truth(req[q].step, req[q].content, m)'
    BY <1>1, <1>8, <2>1, <2>2 DEF Heard, Truth
  <2>4. CASE ~has_loop
    BY <1>1, <1>7, <2>3, <2>4 DEF Heard
  <2>5. CASE has_loop /\ m = n
    <3>1. Truth(req[r].step, req[r].content, m)
      BY <1>1, <1>8, <2>1, <2>5 DEF Heard, Publishing
    <3>2. ASSUME NEW i \in DOMAIN loop', LastOfMessage(i, m)'
          PROVE  Truth(loop[i].type, loop[i].content, m)'
      <4>1. loop' = Append(loop, e)
        BY <1>1, <2>5
      <4>2. i = Len(loop) + 1
        <5>1. Len(loop) + 1 \in DOMAIN loop' /\ loop'[Len(loop) + 1].msg = m
          BY <1>4, <1>6, <2>5, <4>1
        <5>2. ~(i < Len(loop) + 1)
          BY <3>2, <5>1 DEF LastOfMessage
        <5> QED
          BY <1>6, <4>1, <5>2
      <4>3. loop'[i] = e
        BY <1>6, <4>1, <4>2
      <4> QED
        BY <1>1, <1>4, <3>1, <4>3 DEF Truth
    <3>3. ~Silent(m)'
      <4>1. Len(loop) + 1 \in DOMAIN loop' /\ loop'[Len(loop) + 1].msg = m
        BY <1>1, <1>4, <1>6, <2>5
      <4> QED
        BY <4>1 DEF Silent
    <3> QED
      BY <2>3, <3>2, <3>3 DEF Heard
  <2>6. CASE has_loop /\ m # n
    <3>1. loop' = Append(loop, e)
      BY <1>1, <2>6
    <3>2. \A q \in Requests : Publishing(q, m)' <=> Publishing(q, m)
      BY <1>3, <2>6 DEF Publishing
    <3>3. \A i \in DOMAIN loop' : loop'[i].msg = m => i \in DOMAIN loop /\ loop'[i] = loop[i]
      BY <1>4, <1>6, <2>6, <3>1
    <3>4. DOMAIN loop \subseteq DOMAIN loop' /\ \A i \in DOMAIN loop : loop'[i] = loop[i]
      BY <1>6, <3>1
    <3>5. Silent(m)' => Silent(m)
      BY <3>4 DEF Silent
    <3>6. \A i \in DOMAIN loop' : LastOfMessage(i, m)' => i \in DOMAIN loop /\ LastOfMessage(i, m)
      BY <3>3, <3>4 DEF LastOfMessage
    <3>7. ASSUME \A q \in Requests : ~Publishing(q, m)'
          PROVE  /\ \A i \in DOMAIN loop' : LastOfMessage(i, m)' => Truth(loop[i].type, loop[i].content, m)'
                 /\ Silent(m)' => \A s \in Range(conns') :
                      view'[s][m].type # "before" => Truth(view[s][m].type, view[s][m].content, m)'
      BY <1>1, <1>8, <2>1, <3>2, <3>3, <3>5, <3>6, <3>7 DEF Heard, Truth
    <3> QED
      BY <2>3, <3>7 DEF Heard
  <2> QED
    BY <2>4, <2>5, <2>6
<1> QED
  BY <1>1, <1>8 DEF HeardInv, Heard

\* The first event of the loop is heard by the sockets that stay.
LEMMA PublishHeard ==
  ASSUME SocketInv, HeardInv, publish
  PROVE  HeardInv'
<1> DEFINE e == [type |-> Head(loop).type, content |-> Head(loop).content]
           n == Head(loop).msg
<1>1. PICK failed \in SUBSET Range(conns) :
        /\ loop # <<>> /\ loop' = Tail(loop)
        /\ view' = [s \in Sockets |-> IF Registered(s) /\ s \notin failed
                                      THEN [view[s] EXCEPT ![n] = e] ELSE NoView]
        /\ conns' = Without(failed)
        /\ UNCHANGED <<comment, req, raced>>
  BY DEF publish, dbvars
<1>2. SocketTypes /\ IsInjective(conns)
  BY DEF SocketInv
<1>3. Range(conns') = Range(conns) \ failed
  BY <1>1, <1>2, WithoutEffect DEF SocketTypes
<1>4. /\ Head(loop) \in LoopEvent /\ Head(loop) = loop[1] /\ 1 \in DOMAIN loop
      /\ \A i \in DOMAIN loop' : i + 1 \in DOMAIN loop /\ loop'[i] = loop[i + 1]
      /\ \A i \in DOMAIN loop : i # 1 => i - 1 \in DOMAIN loop'
  BY <1>1, <1>2, TailOfLoop DEF SocketTypes
<1>5. DOMAIN loop \subseteq Nat \ {0} /\ DOMAIN loop' \subseteq Nat
  <2>1. loop \in Seq(LoopEvent) /\ loop' \in Seq(LoopEvent)
    BY <1>1, <1>2, TailOfLoop DEF SocketTypes
  <2> QED
    BY <2>1, LenProperties
<1>6. e.type = loop[1].type /\ e.content = loop[1].content /\ n = loop[1].msg /\ n \in Messages
  BY <1>4 DEF LoopEvent
<1>7. \A s \in Range(conns') :
        /\ s \in Range(conns) /\ view'[s][n] = e
        /\ \A m \in Messages : m # n => view'[s][m] = view[s][m]
  <2> TAKE s \in Range(conns')
  <2>1. s \in Range(conns) /\ s \notin failed /\ s \in Sockets
    BY <1>2, <1>3, FiniteRange DEF SocketTypes
  <2>2. view'[s] = [view[s] EXCEPT ![n] = e] /\ view[s] \in [Messages -> Shows]
    BY <1>1, <1>2, <2>1 DEF Registered, SocketTypes
  <2> HIDE DEF e
  <2> QED
    BY <1>6, <2>1, <2>2
<1> HIDE DEF e, n
<1>8. ASSUME NEW m \in Messages, m \notin raced PROVE Heard(m)'
  <2>1. Heard(m)
    BY DEF HeardInv
  <2>2. \A q \in Requests : Publishing(q, m)' <=> Publishing(q, m)
    BY <1>1 DEF Publishing
  <2>3. \A q \in Requests : Publishing(q, m)' => Truth(req[q].step, req[q].content, m)'
    BY <1>1, <1>8, <2>1, <2>2 DEF Heard, Truth
  <2>4. SUFFICES ASSUME \A q \in Requests : ~Publishing(q, m)
        PROVE  /\ \A i \in DOMAIN loop' : LastOfMessage(i, m)' => Truth(loop[i].type, loop[i].content, m)'
               /\ Silent(m)' => \A s \in Range(conns') :
                    view'[s][m].type # "before" => Truth(view[s][m].type, view[s][m].content, m)'
    BY <2>2, <2>3 DEF Heard
  <2>5. \A i \in DOMAIN loop : LastOfMessage(i, m) => Truth(loop[i].type, loop[i].content, m)
    BY <1>8, <2>1, <2>4 DEF Heard
  <2>6. ASSUME NEW i \in DOMAIN loop', LastOfMessage(i, m)'
        PROVE  Truth(loop[i].type, loop[i].content, m)'
    <3>1. i + 1 \in DOMAIN loop /\ loop'[i] = loop[i + 1] /\ loop[i + 1].msg = m
      BY <1>4, <2>6 DEF LastOfMessage
    <3>2. ASSUME NEW j \in DOMAIN loop, i + 1 < j PROVE loop[j].msg # m
      <4>1. j \in Nat /\ i \in Nat /\ j # 1 /\ j - 1 \in DOMAIN loop' /\ i < j - 1
        BY <1>4, <1>5, <3>2
      <4>2. loop'[j - 1] = loop[j - 1 + 1] /\ j - 1 + 1 = j
        BY <1>4, <4>1
      <4> QED
        BY <2>6, <4>1, <4>2 DEF LastOfMessage
    <3>3. Truth(loop[i + 1].type, loop[i + 1].content, m)
      BY <2>5, <3>1, <3>2 DEF LastOfMessage
    <3> QED
      BY <1>1, <3>1, <3>3 DEF Truth
  <2>7. ASSUME Silent(m)', NEW s \in Range(conns'), view'[s][m].type # "before"
        PROVE  Truth(view[s][m].type, view[s][m].content, m)'
    <3>1. \A j \in DOMAIN loop : j # 1 => loop[j].msg # m
      <4> TAKE j \in DOMAIN loop
      <4> HAVE j # 1
      <4>1. j \in Nat /\ j - 1 \in DOMAIN loop'
        BY <1>4, <1>5
      <4>2. loop'[j - 1] = loop[j - 1 + 1] /\ j - 1 + 1 = j
        BY <1>4, <4>1
      <4> QED
        BY <2>7, <4>1, <4>2 DEF Silent
    <3>2. CASE m = n
      <4>1. LastOfMessage(1, m)
        BY <1>6, <3>1, <3>2 DEF LastOfMessage
      <4>2. Truth(loop[1].type, loop[1].content, m)
        BY <1>4, <2>5, <4>1
      <4>3. view'[s][m] = e
        BY <1>7, <3>2
      <4>4. view'[s][m].type = loop[1].type /\ view'[s][m].content = loop[1].content
        BY <1>6, <4>3
      <4> QED
        BY <1>1, <4>2, <4>4 DEF Truth
    <3>3. CASE m # n
      <4>1. Silent(m)
        BY <1>6, <3>1, <3>3 DEF Silent
      <4>2. s \in Range(conns) /\ view'[s][m] = view[s][m]
        BY <1>7, <3>3
      <4>3. Truth(view[s][m].type, view[s][m].content, m)
        BY <1>8, <2>1, <2>4, <2>7, <4>1, <4>2 DEF Heard
      <4> QED
        BY <1>1, <4>2, <4>3 DEF Truth
    <3> QED
      BY <3>2, <3>3
  <2> QED
    BY <2>6, <2>7
<1> QED
  BY <1>1, <1>8 DEF HeardInv, Heard

\* Sockets come and go.
LEMMA HeardSockets ==
  ASSUME HeardInv, UNCHANGED <<comment, req, raced, loop>>,
         \A s \in Range(conns') : \/ s \in Range(conns) /\ view'[s] = view[s]
                                  \/ \A m \in Messages : /\ comment[m].exists => view'[s][m].type = "before"
                                                         /\ ~comment[m].exists => view'[s][m] = NoEvent
                                                                                  /\ comment[m] = NoComment
  PROVE  HeardInv'
<1> SUFFICES ASSUME NEW m \in Messages, m \notin raced PROVE Heard(m)'
  BY DEF HeardInv, Heard
<1>1. Heard(m)
  BY DEF HeardInv
<1>2. \A q \in Requests : /\ Publishing(q, m)' <=> Publishing(q, m)
                          /\ Publishing(q, m)' => Truth(req[q].step, req[q].content, m)'
  BY <1>1 DEF Heard, Truth, Publishing
<1>3. SUFFICES ASSUME \A q \in Requests : ~Publishing(q, m)
      PROVE  /\ \A i \in DOMAIN loop' : LastOfMessage(i, m)' => Truth(loop[i].type, loop[i].content, m)'
             /\ Silent(m)' => \A s \in Range(conns') :
                  view'[s][m].type # "before" => Truth(view[s][m].type, view[s][m].content, m)'
  BY <1>2 DEF Heard
<1>4. \A i \in DOMAIN loop' : LastOfMessage(i, m)' => Truth(loop[i].type, loop[i].content, m)'
  BY <1>1, <1>3 DEF Heard, Truth, LastOfMessage
<1>5. ASSUME Silent(m)', NEW s \in Range(conns'), view'[s][m].type # "before"
      PROVE  Truth(view[s][m].type, view[s][m].content, m)'
  <2>1. Silent(m)
    BY <1>5 DEF Silent
  <2>2. CASE s \in Range(conns) /\ view'[s] = view[s]
    <3>1. Truth(view[s][m].type, view[s][m].content, m)
      BY <1>1, <1>3, <1>5, <2>1, <2>2 DEF Heard
    <3> QED
      BY <2>2, <3>1 DEF Truth
  <2>3. CASE ~comment[m].exists /\ view'[s][m] = NoEvent /\ comment[m] = NoComment
    BY <2>3 DEF Truth, NoEvent, NoComment
  <2> QED
    BY <1>5, <2>2, <2>3
<1> QED
  BY <1>4, <1>5

LEMMA ConnectHeard ==
  ASSUME RequestInv, SocketInv, HeardInv, NEW s \in Sockets, connect(s)
  PROVE  HeardInv'
<1> DEFINE gone == Evicted(socket[s].user)
           seen == [m \in Messages |-> IF comment[m].exists THEN [NoEvent EXCEPT !.type = "before"]
                                       ELSE NoEvent]
<1>1. /\ conns' = Append(Without(gone), s)
      /\ view' = [t \in Sockets |-> IF t = s THEN seen ELSE IF t \in gone THEN NoView ELSE view[t]]
      /\ UNCHANGED <<comment, req, raced, loop>>
  BY DEF connect, dbvars
<1>2. SocketTypes /\ IsInjective(conns)
  BY DEF SocketInv
<1>3. \A m \in Messages : /\ comment[m].exists => seen[m].type = "before"
                          /\ ~comment[m].exists => seen[m] = NoEvent /\ comment[m] = NoComment
  BY DEF RequestInv, MessageOK, NoEvent
<1> HIDE DEF seen, gone
<1>4. Without(gone) \in Seq(Sockets) /\ Range(Without(gone)) = Range(conns) \ gone
  BY <1>2, WithoutEffect DEF SocketTypes
<1>5. \A t \in Range(conns') : t = s \/ t \in Range(Without(gone))
  <2> DEFINE rest == Without(gone)
  <2>1. rest \in Seq(Sockets)
    BY <1>4
  <2> HIDE DEF rest
  <2>2. /\ DOMAIN rest = 1 .. Len(rest) /\ Len(rest) \in Nat
        /\ DOMAIN Append(rest, s) = 1 .. Len(rest) + 1
        /\ \A i \in 1 .. Len(rest) : Append(rest, s)[i] = rest[i]
        /\ Append(rest, s)[Len(rest) + 1] = s
    BY <2>1, AppendToLoop
  <2>3. \A i \in DOMAIN Append(rest, s) : Append(rest, s)[i] = s \/ (i \in DOMAIN rest /\ Append(rest, s)[i] = rest[i])
    BY <2>2
  <2> QED
    BY <1>1, <2>3 DEF rest, Range
<1>6. Range(conns) \subseteq Sockets
  BY <1>2, FiniteRange DEF SocketTypes
<1>7. \A t \in Range(conns') : \/ t \in Range(conns) /\ view'[t] = view[t]
                               \/ t = s /\ view'[t] = seen
  BY <1>1, <1>4, <1>5, <1>6
<1>8. \A t \in Range(conns') : \/ t \in Range(conns) /\ view'[t] = view[t]
                               \/ \A m \in Messages : /\ comment[m].exists => view'[t][m].type = "before"
                                                      /\ ~comment[m].exists => view'[t][m] = NoEvent
                                                                               /\ comment[m] = NoComment
  BY <1>3, <1>7
<1> QED
  BY <1>1, <1>8, HeardSockets

LEMMA DisconnectHeard ==
  ASSUME SocketInv, HeardInv, NEW s \in Sockets, disconnect(s)
  PROVE  HeardInv'
<1>1. /\ conns' = Without({s}) /\ view' = [view EXCEPT ![s] = NoView]
      /\ UNCHANGED <<comment, req, raced, loop>>
  BY DEF disconnect, dbvars
<1>2. SocketTypes /\ IsInjective(conns)
  BY DEF SocketInv
<1>3. Range(conns') = Range(conns) \ {s} /\ Range(conns) \subseteq Sockets
  BY <1>1, <1>2, WithoutEffect, FiniteRange DEF SocketTypes
<1>4. \A t \in Range(conns') : t \in Range(conns) /\ view'[t] = view[t]
  BY <1>1, <1>2, <1>3 DEF SocketTypes
<1> QED
  BY <1>1, <1>4, HeardSockets

LEMMA CrashHeard ==
  ASSUME HeardInv, crash
  PROVE  HeardInv'
<1>1. /\ req' = [r \in Requests |-> IdleRequest] /\ loop' = <<>> /\ conns' = <<>> /\ raced' = raced
  BY DEF crash
<1>2. \A r \in Requests, m \in Messages : ~Publishing(r, m)'
  BY <1>1 DEF Publishing, IdleRequest
<1>3. DOMAIN loop' = {} /\ Range(conns') = {}
  BY <1>1, EmptyList
<1> QED
  BY <1>2, <1>3 DEF HeardInv, Heard

LEMMA HeardStep == RequestInv /\ SocketInv /\ HeardInv /\ [Next]_vars => HeardInv'
<1> SUFFICES ASSUME RequestInv, SocketInv, HeardInv, [Next]_vars PROVE HeardInv'
  OBVIOUS
<1>1. ASSUME NEW r \in Requests, NEW u \in Users, post_message(r, u) \/ mark_read(r, u)
      PROVE  HeardInv'
  <2>1. PICK m \in Messages \union {None}, step \in {"post", "read", "edit", "delete"} : Begin(r, u, step, m)
    BY <1>1 DEF post_message, mark_read
  <2>2. raced \subseteq raced'
    BY <1>1 DEF post_message, mark_read
  <2> QED
    BY <2>1, <2>2, BeginHeard
<1>2. ASSUME NEW r \in Requests, NEW u \in Users, NEW m \in Messages,
             update_comment(r, u, m) \/ delete_comment(r, u, m)
      PROVE  HeardInv'
  <2>1. PICK n \in Messages \union {None}, step \in {"post", "read", "edit", "delete"} : Begin(r, u, step, n)
    BY <1>2 DEF update_comment, delete_comment
  <2>2. raced \subseteq raced'
    BY <1>2 DEF update_comment, delete_comment, Race
  <2> QED
    BY <2>1, <2>2, BeginHeard
<1>3. ASSUME NEW r \in Requests, Serve(r)
      PROVE  HeardInv'
  BY <1>3, CommitsHeard, QuietEndHeard, PublishEventHeard DEF Serve
<1>4. CASE \/ list_messages \/ UNCHANGED vars
           \/ \E s \in Sockets : (\E u \in Users : authorize(s, u)) \/ close(s)
  <2>1. UNCHANGED <<comment, req, raced, loop, conns, view>>
    BY <1>4 DEF list_messages, authorize, close, vars, dbvars, wsvars
  <2> QED
    BY <2>1 DEF HeardInv, Heard, Publishing, Truth, LastOfMessage, Silent
<1> QED
  BY <1>1, <1>2, <1>3, <1>4, PublishHeard, ConnectHeard, DisconnectHeard, CrashHeard DEF Next

LEMMA HeardHolds == Spec => [](RequestInv /\ SocketInv /\ HeardInv)
BY RequestsInitially, SocketsInitially, HeardInitially, RequestStep, SocketStep, HeardStep, PTL DEF Spec

\* When nothing is on its way, what a registered socket has heard last of a
\* message agrees with the database, unless two requests on it overlapped.
THEOREM SocketsAgree == Spec => []ViewsAgree
<1>1. ASSUME RequestInv, SocketInv, HeardInv PROVE ViewsAgree
  <2> SUFFICES ASSUME NEW s \in Sockets, NEW m \in Messages,
                      Registered(s), view[s][m].type # "before", ~InFlight(m), m \notin raced,
                      \A i \in DOMAIN loop : loop[i].msg # m
               PROVE  /\ comment[m].exists = (view[s][m] # NoEvent)
                      /\ comment[m].deleted = (view[s][m].type = "deleted")
                      /\ ~comment[m].deleted => view[s][m].content = comment[m].content
    BY DEF ViewsAgree
  <2>1. \A r \in Requests : ~Publishing(r, m)
    BY DEF InFlight, Publishing
  <2>2. Truth(view[s][m].type, view[s][m].content, m)
    BY <1>1, <2>1 DEF HeardInv, Heard, Silent, Registered
  <2>3. view[s][m] \in Shows /\ comment[m] \in Comment
    BY <1>1 DEF SocketInv, SocketTypes, RequestInv, RequestTypes
  <2>4. view[s][m].type = "none" <=> view[s][m] = NoEvent
    BY <2>3 DEF Shows, NoEvent
  <2>5. comment[m].exists \in BOOLEAN /\ comment[m].deleted \in BOOLEAN
    BY <2>3 DEF Comment
  <2> QED
    BY <2>2, <2>4, <2>5 DEF Truth
<1> QED
  BY <1>1, HeardHolds, PTL

-------------------------------------------------------------------------------
(* Pages                                                                   *)

\* What the client has got is not below its cursor, and what was there from the
\* beginning and is not below the cursor is what it has got.
WalkInv ==
  /\ walk.step \in {"none", "more", "done"}
  /\ walk.cursor \in Nat \X Nat
  /\ walk.got \in Seq(Messages) /\ IsInjective(walk.got)
  /\ walk.due \subseteq Messages
  /\ \A m \in Range(walk.got) \union walk.due : comment[m].exists
  /\ walk.step = "none" => walk.cursor = <<0, 0>> /\ walk.got = <<>>
  /\ walk.step = "more" =>
       /\ walk.cursor # <<0, 0>>
       /\ \A m \in Range(walk.got) : ~Below(Key(m), walk.cursor)
       /\ \A m \in walk.due : Live(m) /\ ~Below(Key(m), walk.cursor) => m \in Range(walk.got)
  /\ walk.step = "done" => \A m \in walk.due : Live(m) => m \in Range(walk.got)

LEMMA WalkInitially == Init => WalkInv
<1> SUFFICES ASSUME Init PROVE WalkInv
  OBVIOUS
<1>1. walk = [step |-> "none", cursor |-> <<0, 0>>, got |-> <<>>, due |-> {}]
  BY DEF Init, NoWalk
<1>2. <<>> \in Seq(Messages) /\ IsInjective(<<>>) /\ Range(<<>>) = {}
  BY DEF IsInjective, Range
<1>3. \A m \in Range(walk.got) \union walk.due : comment[m].exists
  BY <1>1, <1>2
<1> QED
  BY <1>1, <1>2, <1>3 DEF WalkInv

\* Nothing comes between the pages that was there before, and what is deleted
\* does not come back.
LEMMA WalkKept ==
  ASSUME RequestInv, WalkInv, [Next]_vars, walk' = walk
  PROVE  WalkInv'
<1>1. \A m \in Range(walk.got) \union walk.due : m \in Messages /\ comment[m].exists
  BY FiniteRange DEF WalkInv
<1>2. \A m \in Range(walk.got) \union walk.due :
        /\ comment'[m].exists /\ comment'[m].created = comment[m].created
        /\ comment[m].deleted => comment'[m].deleted
  BY <1>1, RowsStay
<1>3. \A m \in Range(walk.got) \union walk.due :
        Below(Key(m), walk.cursor)' <=> Below(Key(m), walk.cursor)
  BY <1>2 DEF Below, Key
<1>4. \A m \in Range(walk.got) \union walk.due : comment'[m].exists
  BY <1>2
<1>5. walk.step = "more" =>
        /\ walk.cursor # <<0, 0>>
        /\ \A m \in Range(walk.got) : ~Below(Key(m), walk.cursor)'
        /\ \A m \in walk.due : Live(m)' /\ ~Below(Key(m), walk.cursor)' => m \in Range(walk.got)
  <2> SUFFICES ASSUME walk.step = "more"
               PROVE  /\ walk.cursor # <<0, 0>>
                      /\ \A m \in Range(walk.got) : ~Below(Key(m), walk.cursor)'
                      /\ \A m \in walk.due : Live(m)' /\ ~Below(Key(m), walk.cursor)' => m \in Range(walk.got)
    OBVIOUS
  <2>1. walk.cursor # <<0, 0>>
    BY DEF WalkInv
  <2>2. ASSUME NEW m \in Range(walk.got) PROVE ~Below(Key(m), walk.cursor)'
    <3>1. ~Below(Key(m), walk.cursor)
      BY DEF WalkInv
    <3> QED
      BY <1>3, <3>1
  <2>3. ASSUME NEW m \in walk.due, Live(m)', ~Below(Key(m), walk.cursor)'
        PROVE  m \in Range(walk.got)
    <3>1. ~Below(Key(m), walk.cursor)
      BY <1>3, <2>3
    <3>2. Live(m)
      BY <1>1, <1>2, <2>3 DEF Live
    <3> QED
      BY <3>1, <3>2 DEF WalkInv
  <2> QED
    BY <2>1, <2>2, <2>3
<1>6. walk.step = "done" => \A m \in walk.due : Live(m)' => m \in Range(walk.got)
  BY <1>1, <1>2 DEF WalkInv, Live
<1> QED
  BY <1>4, <1>5, <1>6 DEF WalkInv

Rows(cursor) == {m \in Messages : Live(m) /\ (cursor = <<0, 0>> \/ Below(Key(m), cursor))}

LEMMA KeysOrdered ==
  ASSUME RequestInv
  PROVE  /\ \A m \in Messages : Key(m) \in Nat \X Nat /\ Key(m) # <<0, 0>>
         /\ \A a \in Nat \X Nat : ~Below(a, a)
         /\ \A a, b, c \in Nat \X Nat : Below(a, b) /\ Below(b, c) => Below(a, c)
         /\ \A m, n \in Messages : m # n => Below(Key(m), Key(n)) \/ Below(Key(n), Key(m))
         /\ Orders(Newer, Messages)
<1>1. \A m \in Messages : /\ Key(m) \in Nat \X Nat /\ Key(m) # <<0, 0>>
                          /\ Key(m)[1] \in Nat /\ Key(m)[2] = m /\ m \in Nat /\ m # 0
  <2> TAKE m \in Messages
  <2>1. comment[m].created \in Nat
    BY DEF RequestInv, RequestTypes, Comment
  <2>2. m \in Nat /\ m # 0
    BY DiscussionAssumption DEF Messages
  <2>3. Key(m) = <<comment[m].created, m>>
    BY DEF Key
  <2> QED
    BY <2>1, <2>2, <2>3
<1>2. \A a \in Nat \X Nat : ~Below(a, a)
  BY DEF Below
<1>3. \A a, b, c \in Nat \X Nat : Below(a, b) /\ Below(b, c) => Below(a, c)
  <2> TAKE a, b, c \in Nat \X Nat
  <2>1. a[1] \in Nat /\ a[2] \in Nat /\ b[1] \in Nat /\ b[2] \in Nat /\ c[1] \in Nat /\ c[2] \in Nat
    OBVIOUS
  <2> QED
    BY <2>1 DEF Below
<1>4. \A m, n \in Messages : m # n => Below(Key(m), Key(n)) \/ Below(Key(n), Key(m))
  <2> TAKE m, n \in Messages
  <2>1. Key(m)[1] \in Nat /\ Key(n)[1] \in Nat /\ Key(m)[2] = m /\ Key(n)[2] = n /\ m \in Nat /\ n \in Nat
    BY <1>1
  <2> QED
    BY <2>1 DEF Below
<1>5. \A m, n \in Messages : <<m, n>> \in Newer <=> Below(Key(n), Key(m))
  BY DEF Newer
<1>6. Orders(Newer, Messages)
  <2>1. \A m \in Messages : <<m, m>> \notin Newer
    BY <1>1, <1>2, <1>5
  <2>2. \A x, y, z \in Messages : <<x, y>> \in Newer /\ <<y, z>> \in Newer => <<x, z>> \in Newer
    BY <1>1, <1>3, <1>5
  <2> QED
    BY <2>1, <2>2 DEF Orders
<1> QED
  BY <1>1, <1>2, <1>3, <1>4, <1>6

\* A beginning of an injective sequence.
Begins(b, S, seq, n) ==
  /\ b \in Seq(S) /\ IsInjective(b)
  /\ Len(b) = n /\ DOMAIN b = 1 .. n
  /\ \A i \in 1 .. n : i \in DOMAIN seq /\ b[i] = seq[i]

LEMMA Beginning ==
  ASSUME NEW S, NEW seq \in Seq(S), IsInjective(seq), NEW n \in Nat, n <= Len(seq),
         NEW b, b = SubSeq(seq, 1, n)
  PROVE  Begins(b, S, seq, n)
<1>1. Len(seq) \in Nat /\ DOMAIN seq = 1 .. Len(seq)
  BY LenProperties
<1>2. CASE n = 0
  <2>1. b = <<>>
    BY <1>2, SubSeqEmpty
  <2>2. <<>> \in Seq(S) /\ IsInjective(<<>>) /\ Len(<<>>) = 0 /\ DOMAIN <<>> = 1 .. 0
    BY DEF IsInjective
  <2>3. \A i \in 1 .. n : i \in DOMAIN seq /\ b[i] = seq[i]
    BY <1>2
  <2> QED
    BY <1>2, <2>1, <2>2, <2>3 DEF Begins
<1>3. CASE n # 0
  <2>1. \A i \in 1 .. n : i \in 1 .. Len(seq)
    BY <1>1
  <2>2. /\ b \in Seq(S) /\ Len(b) = n
        /\ \A i \in 1 .. n : b[i] = seq[i]
    <3>1. 1 \in 1 .. Len(seq) + 1 /\ n \in 0 .. Len(seq) /\ 1 <= n /\ n - 1 + 1 = n
      BY <1>1, <1>3
    <3>2. /\ b \in Seq(S) /\ Len(b) = n - 1 + 1
          /\ \A i \in 1 .. n - 1 + 1 : b[i] = seq[1 + i - 1]
      BY <3>1, SubSeqProperties
    <3>3. \A i \in 1 .. n : b[i] = seq[i]
      <4> TAKE i \in 1 .. n
      <4>1. 1 + i - 1 = i
        OBVIOUS
      <4> QED
        BY <3>1, <3>2, <4>1
    <3> QED
      BY <3>1, <3>2, <3>3
  <2>3. DOMAIN b = 1 .. n
    BY <2>2, LenProperties
  <2>4. IsInjective(b)
    BY <1>1, <2>1, <2>2, <2>3 DEF IsInjective
  <2> QED
    BY <1>1, <2>1, <2>2, <2>3, <2>4 DEF Begins
<1> QED
  BY <1>2, <1>3

\* The rows before the cursor, newest first.
LEMMA NewestFirst ==
  ASSUME RequestInv, NEW cursor
  PROVE  LET seq == InOrder(Rows(cursor), Newer)
         IN  /\ seq \in Seq(Rows(cursor)) /\ IsInjective(seq) /\ Range(seq) = Rows(cursor)
             /\ \A i, j \in DOMAIN seq : i < j => Below(Key(seq[j]), Key(seq[i]))
<1> DEFINE seq == InOrder(Rows(cursor), Newer)
<1>1. Rows(cursor) \subseteq Messages
  BY DEF Rows
<1>2. IsFiniteSet(Rows(cursor))
  <2>1. 1 \in Int /\ NumMessages \in Int
    BY DiscussionAssumption
  <2>2. IsFiniteSet(Messages)
    BY <2>1, FS_Interval DEF Messages
  <2> QED
    BY <1>1, <2>2, FS_Subset
<1>3. Orders(Newer, Rows(cursor))
  BY <1>1, KeysOrdered DEF Orders
<1>4. /\ seq \in Seq(Rows(cursor)) /\ IsInjective(seq) /\ Range(seq) = Rows(cursor)
      /\ \A i, j \in DOMAIN seq : i < j => <<seq[j], seq[i]>> \notin Newer
  BY <1>2, <1>3, Ordered
<1> HIDE DEF seq
<1>5. ASSUME NEW i \in DOMAIN seq, NEW j \in DOMAIN seq, i < j
      PROVE  Below(Key(seq[j]), Key(seq[i]))
  <2>1. seq[i] \in Messages /\ seq[j] \in Messages
    BY <1>1, <1>4 DEF Range
  <2>2. DOMAIN seq \subseteq Nat
    BY <1>4, LenProperties
  <2>3. seq[i] # seq[j]
    BY <1>4, <1>5, <2>2 DEF IsInjective
  <2>4. ~Below(Key(seq[i]), Key(seq[j]))
    BY <1>4, <1>5, <2>1 DEF Newer
  <2> QED
    BY <2>1, <2>3, <2>4, KeysOrdered
<1> QED
  BY <1>4, <1>5 DEF seq

\* The smaller of two numbers, as a slice takes it.
LEMMA Slice ==
  ASSUME NEW l \in Nat, NEW p \in Nat, NEW n, n = IF l < p + 1 THEN l ELSE p + 1
  PROVE  n \in Nat /\ n <= l /\ (n > p => n = p + 1) /\ (~(n > p) => n = l)
OBVIOUS

\* A page has all rows, or some of them and the others are below its last.
PageOf(items, more, cursor) ==
  /\ items \in Seq(Rows(cursor)) /\ IsInjective(items)
  /\ ~more => Range(items) = Rows(cursor)
  /\ more => /\ Last(items) \in Rows(cursor)
             /\ \A m \in Range(items) : ~Below(Key(m), Key(Last(items)))
             /\ \A m \in Rows(cursor) : m \in Range(items) \/ Below(Key(m), Key(Last(items)))

LEMMA Page ==
  ASSUME RequestInv, NEW cursor, NEW rows, rows = list_page(cursor, PageLimit + 1),
         NEW items, items = IF Len(rows) > PageLimit THEN SubSeq(rows, 1, PageLimit) ELSE rows
  PROVE  PageOf(items, Len(rows) > PageLimit, cursor)
<1> DEFINE seq == InOrder(Rows(cursor), Newer)
           n == IF Len(seq) < PageLimit + 1 THEN Len(seq) ELSE PageLimit + 1
<1>1. rows = SubSeq(seq, 1, n)
  BY DEF list_page, Rows
<1>2. /\ seq \in Seq(Rows(cursor)) /\ IsInjective(seq) /\ Range(seq) = Rows(cursor)
      /\ \A i, j \in DOMAIN seq : i < j => Below(Key(seq[j]), Key(seq[i]))
  BY NewestFirst
<1> HIDE DEF seq
<1>3. Len(seq) \in Nat /\ DOMAIN seq = 1 .. Len(seq) /\ PageLimit \in Nat \ {0}
  BY <1>2, LenProperties, DiscussionAssumption
<1>4. /\ n \in Nat /\ n <= Len(seq)
      /\ n > PageLimit => n = PageLimit + 1
      /\ ~(n > PageLimit) => n = Len(seq)
  <2>1. Len(seq) \in Nat /\ PageLimit \in Nat
    BY <1>3
  <2> QED
    BY <2>1, Slice
<1> HIDE DEF n
<1>5. /\ rows \in Seq(Rows(cursor)) /\ IsInjective(rows) /\ Len(rows) = n /\ DOMAIN rows = 1 .. n
      /\ \A i \in 1 .. n : i \in DOMAIN seq /\ rows[i] = seq[i]
  <2>1. Begins(rows, Rows(cursor), seq, n)
    BY <1>1, <1>2, <1>4, Beginning
  <2> QED
    BY <2>1 DEF Begins
<1>6. CASE ~(Len(rows) > PageLimit)
  <2>1. n = Len(seq) /\ items = rows
    BY <1>4, <1>5, <1>6
  <2>2. \A i \in DOMAIN seq : i \in DOMAIN rows /\ rows[i] = seq[i]
    BY <1>3, <1>5, <2>1
  <2>3. Range(rows) = Rows(cursor)
    BY <1>2, <1>5, <2>2 DEF Range
  <2> QED
    BY <1>5, <1>6, <2>1, <2>3 DEF PageOf
<1>7. CASE Len(rows) > PageLimit
  <2>1. n = PageLimit + 1 /\ PageLimit \in Nat /\ PageLimit <= Len(rows)
    <3>1. Len(rows) = n
      BY <1>5
    <3>2. n = PageLimit + 1
      BY <1>4, <1>7, <3>1
    <3>3. PageLimit \in Nat
      BY <1>3
    <3> QED
      BY <3>1, <3>2, <3>3
  <2>2. items = SubSeq(rows, 1, PageLimit)
    BY <1>7
  <2>3. /\ items \in Seq(Rows(cursor)) /\ IsInjective(items)
        /\ Len(items) = PageLimit /\ DOMAIN items = 1 .. PageLimit
        /\ \A i \in 1 .. PageLimit : i \in DOMAIN rows /\ items[i] = rows[i]
    <3>1. /\ rows \in Seq(Rows(cursor)) /\ IsInjective(rows)
          /\ PageLimit \in Nat /\ PageLimit <= Len(rows)
      BY <1>5, <2>1
    <3>2. Begins(items, Rows(cursor), rows, PageLimit)
      BY <2>2, <3>1, Beginning
    <3> QED
      BY <3>2 DEF Begins
  <2>4. \A i \in 1 .. PageLimit : i \in DOMAIN seq /\ items[i] = seq[i]
    BY <1>3, <1>5, <2>1, <2>3
  <2>5. Last(items) = seq[PageLimit] /\ PageLimit \in 1 .. PageLimit /\ PageLimit \in DOMAIN seq
    BY <1>3, <2>3, <2>4 DEF Last
  <2>6. Last(items) \in Rows(cursor)
    BY <1>2, <2>5 DEF Range
  <2>7. Rows(cursor) \subseteq Messages
    BY DEF Rows
  <2>8. ASSUME NEW m \in Range(items) PROVE ~Below(Key(m), Key(Last(items)))
    <3>1. PICK i \in 1 .. PageLimit : m = seq[i]
      BY <2>3, <2>4 DEF Range
    <3>2. i \in DOMAIN seq /\ m \in Messages
      BY <1>2, <2>4, <2>7, <3>1 DEF Range
    <3>3. CASE i = PageLimit
      BY <2>5, <3>1, <3>2, <3>3, KeysOrdered
    <3>4. CASE i # PageLimit
      <4>1. i < PageLimit
        BY <1>3, <3>4
      <4>2. Below(Key(Last(items)), Key(m))
        BY <1>2, <2>5, <3>1, <3>2, <4>1
      <4> QED
        BY <2>6, <2>7, <3>2, <4>2, KeysOrdered
    <3> QED
      BY <3>3, <3>4
  <2>9. ASSUME NEW m \in Rows(cursor) PROVE m \in Range(items) \/ Below(Key(m), Key(Last(items)))
    <3>1. PICK i \in DOMAIN seq : m = seq[i]
      BY <1>2 DEF Range
    <3>2. CASE i <= PageLimit
      <4>1. i \in DOMAIN items /\ items[i] = m
        BY <1>3, <2>3, <2>4, <3>1, <3>2
      <4> QED
        BY <4>1 DEF Range
    <3>3. CASE i > PageLimit
      BY <1>2, <2>5, <3>1, <3>3
    <3> QED
      BY <1>3, <3>2, <3>3
  <2> QED
    BY <1>7, <2>3, <2>6, <2>8, <2>9 DEF PageOf
<1> QED
  BY <1>6, <1>7

\* Two injective sequences without a common element.
LEMMA Concatenated ==
  ASSUME NEW S, NEW s \in Seq(S), NEW t \in Seq(S), IsInjective(s), IsInjective(t),
         Range(s) \intersect Range(t) = {}
  PROVE  s \o t \in Seq(S) /\ IsInjective(s \o t) /\ Range(s \o t) = Range(s) \union Range(t)
<1> DEFINE st == s \o t
<1>1. /\ Len(s) \in Nat /\ Len(t) \in Nat /\ DOMAIN s = 1 .. Len(s) /\ DOMAIN t = 1 .. Len(t)
  BY LenProperties
<1>2. /\ st \in Seq(S) /\ Len(st) = Len(s) + Len(t)
      /\ \A i \in 1 .. Len(s) + Len(t) : st[i] = IF i <= Len(s) THEN s[i] ELSE t[i - Len(s)]
  BY ConcatProperties
<1> HIDE DEF st
<1>3. DOMAIN st = 1 .. Len(s) + Len(t)
  BY <1>2, LenProperties
<1>4. \A i \in DOMAIN st : \/ i <= Len(s) /\ i \in DOMAIN s /\ st[i] = s[i] /\ st[i] \in Range(s)
                           \/ /\ ~(i <= Len(s)) /\ i - Len(s) \in DOMAIN t /\ st[i] = t[i - Len(s)]
                              /\ st[i] \in Range(t)
  <2> TAKE i \in DOMAIN st
  <2>1. CASE i <= Len(s)
    <3>1. i \in DOMAIN s /\ st[i] = s[i]
      BY <1>1, <1>2, <1>3, <2>1
    <3> QED
      BY <2>1, <3>1 DEF Range
  <2>2. CASE ~(i <= Len(s))
    <3>1. i - Len(s) \in DOMAIN t /\ st[i] = t[i - Len(s)]
      BY <1>1, <1>2, <1>3, <2>2
    <3> QED
      BY <2>2, <3>1 DEF Range
  <2> QED
    BY <2>1, <2>2
<1>5. IsInjective(st)
  <2> SUFFICES ASSUME NEW i \in DOMAIN st, NEW j \in DOMAIN st, st[i] = st[j] PROVE i = j
    BY DEF IsInjective
  <2>1. i \in Nat /\ j \in Nat
    BY <1>1, <1>3
  <2>2. CASE i <= Len(s)
    <3>1. j <= Len(s) /\ i \in DOMAIN s /\ j \in DOMAIN s /\ s[i] = s[j]
      BY <1>4, <2>2
    <3> QED
      BY <3>1 DEF IsInjective
  <2>3. CASE ~(i <= Len(s))
    <3>1. i - Len(s) \in DOMAIN t /\ j - Len(s) \in DOMAIN t /\ t[i - Len(s)] = t[j - Len(s)]
      BY <1>4, <2>3
    <3>2. i - Len(s) = j - Len(s)
      BY <3>1 DEF IsInjective
    <3> QED
      BY <1>1, <2>1, <3>2
  <2> QED
    BY <2>2, <2>3
<1>6. Range(st) = Range(s) \union Range(t)
  BY RangeConcatenation DEF st
<1> QED
  BY <1>2, <1>5, <1>6 DEF st

\* A page goes on where the client is: what is due and not yet got is on it or
\* below it.
LEMMA ListStep ==
  ASSUME RequestInv, WalkInv, list_messages
  PROVE  WalkInv'
<1> DEFINE rows == list_page(walk.cursor, PageLimit + 1)
           items == IF Len(rows) > PageLimit THEN SubSeq(rows, 1, PageLimit) ELSE rows
           due == IF walk.step = "none" THEN {m \in Messages : Live(m)} ELSE walk.due
<1>1. walk.step \in {"none", "more"} /\ UNCHANGED comment
  BY DEF list_messages, WalkInv, dbvars
<1>2. walk' = [step   |-> IF Len(rows) > PageLimit THEN "more" ELSE "done",
               cursor |-> IF Len(rows) > PageLimit THEN Key(Last(items)) ELSE <<0, 0>>,
               got    |-> walk.got \o items,
               due    |-> due]
  BY DEF list_messages
<1>a. rows = list_page(walk.cursor, PageLimit + 1)
  OBVIOUS
<1>b. items = IF Len(rows) > PageLimit THEN SubSeq(rows, 1, PageLimit) ELSE rows
  OBVIOUS
<1> HIDE DEF rows, items
<1>3. /\ items \in Seq(Rows(walk.cursor)) /\ IsInjective(items)
      /\ ~(Len(rows) > PageLimit) => Range(items) = Rows(walk.cursor)
      /\ Len(rows) > PageLimit =>
           /\ Last(items) \in Rows(walk.cursor)
           /\ \A m \in Range(items) : ~Below(Key(m), Key(Last(items)))
           /\ \A m \in Rows(walk.cursor) : m \in Range(items) \/ Below(Key(m), Key(Last(items)))
  <2> DEFINE c == walk.cursor
  <2> HIDE DEF c
  <2>1. rows = list_page(c, PageLimit + 1)
    BY <1>a DEF c
  <2>2. PageOf(items, Len(rows) > PageLimit, c)
    BY <1>b, <2>1, Page
  <2> QED
    BY <2>2 DEF c, PageOf
<1>4. Rows(walk.cursor) \subseteq Messages /\ \A m \in Rows(walk.cursor) : Live(m)
  BY DEF Rows
<1>5. items \in Seq(Messages) /\ Range(items) \subseteq Rows(walk.cursor)
  <2>1. /\ Len(items) \in Nat /\ DOMAIN items = 1 .. Len(items)
        /\ \A i \in 1 .. Len(items) : items[i] \in Rows(walk.cursor)
    BY <1>3, LenProperties
  <2>2. items \in Seq(Messages)
    <3>1. items = [i \in 1 .. Len(items) |-> items[i]]
      BY <1>3, <2>1
    <3> QED
      BY <1>4, <2>1, <3>1, SeqDef
  <2> QED
    BY <2>1, <2>2 DEF Range
<1>6. /\ walk.got \in Seq(Messages) /\ IsInjective(walk.got) /\ Range(walk.got) \subseteq Messages
      /\ walk.cursor \in Nat \X Nat
      /\ \A m \in Range(walk.got) : comment[m].exists
  <2>1. /\ walk.got \in Seq(Messages) /\ IsInjective(walk.got) /\ walk.cursor \in Nat \X Nat
        /\ \A m \in Range(walk.got) : comment[m].exists
    BY DEF WalkInv
  <2>2. /\ DOMAIN walk.got = 1 .. Len(walk.got)
        /\ \A i \in 1 .. Len(walk.got) : walk.got[i] \in Messages
    BY <2>1, LenProperties
  <2> QED
    BY <2>1, <2>2 DEF Range
<1>7. \A m \in Range(walk.got) : ~Below(Key(m), walk.cursor) /\ walk.cursor # <<0, 0>>
  BY <1>1 DEF WalkInv, Range
<1>8. Range(walk.got) \intersect Range(items) = {}
  BY <1>5, <1>7 DEF Rows
<1>9. /\ walk.got \o items \in Seq(Messages) /\ IsInjective(walk.got \o items)
      /\ Range(walk.got \o items) = Range(walk.got) \union Range(items)
  BY <1>3, <1>5, <1>6, <1>8, Concatenated
<1>10. /\ due \subseteq Messages /\ \A m \in due : comment[m].exists
       /\ \A m \in due : Live(m) => m \in Range(walk.got) \/ m \in Rows(walk.cursor)
  <2>1. CASE walk.step = "none"
    <3>1. walk.cursor = <<0, 0>> /\ due = {m \in Messages : Live(m)}
      BY <2>1 DEF WalkInv
    <3> QED
      BY <3>1 DEF Rows, Live
  <2>2. CASE walk.step = "more"
    <3>1. /\ due = walk.due /\ walk.due \subseteq Messages /\ \A m \in walk.due : comment[m].exists
          /\ \A m \in walk.due : Live(m) /\ ~Below(Key(m), walk.cursor) => m \in Range(walk.got)
      BY <2>2 DEF WalkInv
    <3> QED
      BY <3>1 DEF Rows
  <2> QED
    BY <1>1, <2>1, <2>2
<1> HIDE DEF due
<1>11. Len(rows) > PageLimit =>
         /\ Key(Last(items)) \in Nat \X Nat /\ Key(Last(items)) # <<0, 0>>
         /\ \A m \in Range(walk.got) \union Range(items) : ~Below(Key(m), Key(Last(items)))
         /\ \A m \in due : Live(m) /\ ~Below(Key(m), Key(Last(items))) =>
                             m \in Range(walk.got) \union Range(items)
  <2> SUFFICES ASSUME Len(rows) > PageLimit
               PROVE  /\ Key(Last(items)) \in Nat \X Nat /\ Key(Last(items)) # <<0, 0>>
                      /\ \A m \in Range(walk.got) \union Range(items) :
                           ~Below(Key(m), Key(Last(items)))
                      /\ \A m \in due : Live(m) /\ ~Below(Key(m), Key(Last(items))) =>
                                          m \in Range(walk.got) \union Range(items)
    OBVIOUS
  <2>1. Last(items) \in Messages /\ Last(items) \in Rows(walk.cursor)
    BY <1>3, <1>4
  <2>2. Key(Last(items)) \in Nat \X Nat /\ Key(Last(items)) # <<0, 0>>
    BY <2>1, KeysOrdered
  <2>3. ASSUME NEW m \in Range(walk.got) PROVE ~Below(Key(m), Key(Last(items)))
    <3>1. ~Below(Key(m), walk.cursor) /\ Below(Key(Last(items)), walk.cursor)
      BY <1>7, <2>1 DEF Rows
    <3>2. Key(m) \in Nat \X Nat
      BY <1>6, KeysOrdered
    <3> QED
      BY <1>6, <2>2, <3>1, <3>2, KeysOrdered
  <2>4. \A m \in Range(items) : ~Below(Key(m), Key(Last(items)))
    BY <1>3
  <2>5. ASSUME NEW m \in due, Live(m), ~Below(Key(m), Key(Last(items)))
        PROVE  m \in Range(walk.got) \union Range(items)
    BY <1>3, <1>10, <2>5
  <2> QED
    BY <2>2, <2>3, <2>4, <2>5
<1>12. ~(Len(rows) > PageLimit) =>
         \A m \in due : Live(m) => m \in Range(walk.got) \union Range(items)
  BY <1>3, <1>10
<1>13. \A m \in Messages : (Live(m)' <=> Live(m)) /\ Key(m)' = Key(m)
  BY <1>1 DEF Live, Key
<1> DEFINE more == Len(rows) > PageLimit
           last == Key(Last(items))
<1>14. /\ walk'.got = walk.got \o items /\ walk'.due = due
       /\ walk'.step = IF more THEN "more" ELSE "done"
       /\ walk'.cursor = IF more THEN last ELSE <<0, 0>>
  BY <1>2
<1>15. /\ walk'.got \in Seq(Messages) /\ IsInjective(walk'.got)
       /\ Range(walk'.got) = Range(walk.got) \union Range(items)
       /\ Range(walk'.got) \subseteq Messages
       /\ walk'.due \subseteq Messages
  BY <1>4, <1>5, <1>6, <1>9, <1>10, <1>14
<1>16. \A m \in Range(walk'.got) \union walk'.due : comment[m].exists
  BY <1>4, <1>5, <1>6, <1>10, <1>14, <1>15 DEF Live
<1>17. walk'.step \in {"more", "done"} /\ walk'.cursor \in Nat \X Nat
  <2>1. more => last \in Nat \X Nat
    BY <1>11
  <2> HIDE DEF more, last
  <2> QED
    BY <1>14, <2>1
<1>18. walk'.step = "more" =>
         /\ walk'.cursor # <<0, 0>>
         /\ \A m \in Range(walk'.got) : ~Below(Key(m), walk'.cursor)
         /\ \A m \in walk'.due : Live(m) /\ ~Below(Key(m), walk'.cursor) => m \in Range(walk'.got)
  <2> SUFFICES ASSUME walk'.step = "more"
               PROVE  /\ walk'.cursor # <<0, 0>>
                      /\ \A m \in Range(walk'.got) : ~Below(Key(m), walk'.cursor)
                      /\ \A m \in walk'.due :
                           Live(m) /\ ~Below(Key(m), walk'.cursor) => m \in Range(walk'.got)
    OBVIOUS
  <2>1. more /\ walk'.cursor = last
    BY <1>14
  <2> QED
    BY <1>11, <1>14, <1>15, <2>1
<1>19. walk'.step = "done" => \A m \in walk'.due : Live(m) => m \in Range(walk'.got)
  <2> SUFFICES ASSUME walk'.step = "done"
               PROVE  \A m \in walk'.due : Live(m) => m \in Range(walk'.got)
    OBVIOUS
  <2>1. ~more
    BY <1>14
  <2> QED
    BY <1>12, <1>14, <1>15, <2>1
<1>20. \A m \in Range(walk'.got) \union walk'.due : comment'[m].exists
  BY <1>1, <1>16
<1>21. walk'.step = "more" =>
         /\ walk'.cursor # <<0, 0>>
         /\ \A m \in Range(walk'.got) : ~Below(Key(m), walk.cursor)'
         /\ \A m \in walk'.due :
              Live(m)' /\ ~Below(Key(m), walk.cursor)' => m \in Range(walk'.got)
  BY <1>13, <1>15, <1>18 DEF Below
<1>22. walk'.step = "done" => \A m \in walk'.due : Live(m)' => m \in Range(walk'.got)
  BY <1>13, <1>15, <1>19
<1> QED
  BY <1>15, <1>17, <1>20, <1>21, <1>22 DEF WalkInv

LEMMA WalkStep == RequestInv /\ WalkInv /\ [Next]_vars => WalkInv'
<1> SUFFICES ASSUME RequestInv, WalkInv, [Next]_vars PROVE WalkInv'
  OBVIOUS
<1>1. CASE list_messages
  BY <1>1, ListStep
<1>2. CASE walk' = walk
  BY <1>2, WalkKept
<1>3. ASSUME NEW r \in Requests, Serve(r) PROVE walk' = walk
  BY <1>3 DEF Serve, commit_post, commit_read, commit_update, commit_delete, Commit, rollback,
              publish_event
<1>4. ASSUME NEW r \in Requests, NEW u \in Users, post_message(r, u) \/ mark_read(r, u)
      PROVE  walk' = walk
  BY <1>4 DEF post_message, mark_read, Begin
<1>5. ASSUME NEW r \in Requests, NEW u \in Users, NEW m \in Messages,
             update_comment(r, u, m) \/ delete_comment(r, u, m)
      PROVE  walk' = walk
  BY <1>5 DEF update_comment, delete_comment, Begin
<1>6. ASSUME NEW s \in Sockets,
             (\E u \in Users : authorize(s, u)) \/ connect(s) \/ close(s) \/ disconnect(s)
      PROVE  walk' = walk
  BY <1>6 DEF authorize, connect, close, disconnect
<1>7. publish \/ crash => walk' = walk
  BY DEF publish, crash
<1>8. UNCHANGED vars => walk' = walk
  BY DEF vars
<1> QED
  BY <1>1, <1>2, <1>3, <1>4, <1>5, <1>6, <1>7, <1>8 DEF Next

\* However messages are posted and deleted between its pages, a client that
\* follows next_cursor gets every message that was there from the first page to
\* the last, and none twice.
THEOREM PagesAreComplete == Spec => []PagesComplete
<1>1. WalkInv => PagesComplete
  BY DEF WalkInv, PagesComplete
<1> QED
  BY <1>1, RequestsInitially, RequestStep, WalkInitially, WalkStep, PTL DEF Spec

-------------------------------------------------------------------------------
(* Access                                                                  *)

\* A step of DiscussionAccess is one of Discussion, or changes access only.
LEMMA AccessStepImplements == [AccessNext]_allvars => [Next]_vars
<1> SUFFICES ASSUME [AccessNext]_allvars PROVE [Next]_vars
  OBVIOUS
<1>1. ASSUME NEW r \in Requests, NEW u \in Users, begin(r, u) PROVE Next
  BY <1>1 DEF begin, Next
<1>2. ASSUME NEW u \in Users, fetch(u) PROVE Next
  BY <1>2 DEF fetch, Next
<1>3. ASSUME NEW s \in Sockets, NEW u \in Users, open(s, u) PROVE Next
  BY <1>3 DEF open, Next
<1>4. ASSUME proceed PROVE Next
  BY <1>4 DEF proceed, Next
<1>5. ASSUME NEW u \in Users,
             create_project_member(u) \/ delete_project_member(u) \/ update_user(u)
      PROVE  UNCHANGED vars
  BY <1>5 DEF create_project_member, delete_project_member, update_user
<1>6. ASSUME delete_project \/ update_organization PROVE UNCHANGED vars
  BY <1>6 DEF delete_project, update_organization
<1>7. ASSUME UNCHANGED allvars PROVE UNCHANGED vars
  BY <1>7 DEF allvars
<1> QED
  BY <1>1, <1>2, <1>3, <1>4, <1>5, <1>6, <1>7 DEF AccessNext

\* Access that comes and goes takes nothing from what Discussion promises.
THEOREM AccessImplementsDiscussion == AccessSpec => ImplementsDiscussion
<1>1. AccessInit => Init
  BY DEF AccessInit
<1> QED
  BY <1>1, AccessStepImplements, PTL DEF AccessSpec, ImplementsDiscussion, Spec

LEMMA AccessTypes == AccessSpec => [](RequestInv /\ SocketInv)
BY AccessImplementsDiscussion, SocketsHold, PTL DEF ImplementsDiscussion

\* All of it holds while access changes.
COROLLARY AccessKeepsDiscussion ==
  AccessSpec => [](TypeOK /\ NewMessagesAreUnread /\ PagesComplete /\ ViewsAgree)
BY AccessImplementsDiscussion, DiscussionTyped, NewMessagesUnread, PagesAreComplete,
   SocketsAgree, PTL DEF ImplementsDiscussion

\* Requests and sockets that go on without a check.
Asking == {"post", "read", "created"}
Listening == {"authorized", "open"}

\* A step that begins no request and opens no socket.
NothingNew ==
  /\ \A r \in Requests : req'[r].step \in Asking
                           => req[r].step \in Asking /\ req'[r].user = req[r].user
  /\ \A s \in Sockets : socket'[s].state \in Listening
                          => socket[s].state \in Listening /\ socket'[s].user = socket[s].user

LEMMA ServeNothingNew ==
  ASSUME RequestInv, NEW r \in Requests, Serve(r)
  PROVE  NothingNew
<1>1. req \in [Requests -> Request]
  BY DEF RequestInv, RequestTypes
<1>2. socket' = socket
  BY DEF Serve, Commit, commit_post, commit_read, commit_update, commit_delete, rollback,
         publish_event, wsvars
<1>3. \A q \in Requests : q # r => req'[q] = req[q]
  BY <1>1 DEF Serve, Commit, commit_post, commit_read, commit_update, commit_delete, rollback,
              publish_event
<1>4. ASSUME req'[r].step \in Asking
      PROVE  req[r].step \in Asking /\ req'[r].user = req[r].user
  <2>1. IdleRequest.step \notin Asking
    BY DEF IdleRequest, Asking
  <2>2. CASE commit_post(r)
    BY <1>1, <2>2 DEF commit_post, Commit, NoEvent, Asking, Request
  <2>3. CASE commit_read(r) \/ rollback(r) \/ publish_event(r)
    BY <1>1, <1>4, <2>1, <2>3 DEF commit_read, rollback, publish_event, Commit
  <2>4. CASE commit_update(r)
    BY <1>1, <1>4, <2>4 DEF commit_update, Commit, NoEvent, Asking, Request
  <2>5. CASE commit_delete(r)
    BY <1>1, <1>4, <2>5 DEF commit_delete, Commit, NoEvent, Asking, Request
  <2> QED
    BY <2>2, <2>3, <2>4, <2>5 DEF Serve
<1> QED
  BY <1>2, <1>3, <1>4 DEF NothingNew

LEMMA SocketNothingNew ==
  ASSUME SocketInv, NEW s \in Sockets, connect(s) \/ close(s) \/ disconnect(s)
  PROVE  NothingNew
<1>1. socket \in [Sockets -> [state : SocketStates, user : Users \union {None}]]
  BY DEF SocketInv, SocketTypes
<1>2. req' = req
  BY DEF connect, close, disconnect
<1>3. CASE connect(s)
  <2>1. ASSUME NEW t \in Sockets
        PROVE  socket'[t].state \in Listening
                 => socket[t].state \in Listening /\ socket'[t].user = socket[t].user
    BY <1>1, <1>3 DEF connect, Listening
  <2> QED
    BY <1>2, <2>1 DEF NothingNew
<1>4. CASE close(s)
  BY <1>1, <1>2, <1>4 DEF close, NothingNew, Listening
<1>5. CASE disconnect(s)
  BY <1>1, <1>2, <1>5 DEF disconnect, NothingNew, Listening
<1> QED
  BY <1>3, <1>4, <1>5

LEMMA ProceedNothingNew == ASSUME RequestInv, SocketInv, proceed PROVE NothingNew
<1>1. socket \in [Sockets -> [state : SocketStates, user : Users \union {None}]]
  BY DEF SocketInv, SocketTypes
<1>2. ASSUME publish PROVE NothingNew
  BY <1>1, <1>2 DEF publish, NothingNew, Listening
<1>3. ASSUME crash PROVE NothingNew
  BY <1>1, <1>3 DEF crash, NothingNew, Listening, Asking, IdleRequest, NewSocket
<1> QED
  BY <1>2, <1>3, ServeNothingNew, SocketNothingNew DEF proceed

\* Strangers post and listen only when they lost access after it was checked.
LEMMA StrangersStep ==
  ASSUME RequestInv, SocketInv, StrangersOnlyByRace, [AccessNext]_allvars
  PROVE  StrangersOnlyByRace'
<1>0. /\ \A r \in Requests : req[r].step \in Asking
                               => get_accessible_project(req[r].user) \/ r \in overtaken
      /\ \A s \in Sockets : socket[s].state \in Listening
                              => get_accessible_project(socket[s].user) \/ s \in overtaken
  BY DEF StrangersOnlyByRace, Asking, Listening
<1>3. ASSUME NothingNew, UNCHANGED <<access, overtaken>>
      PROVE  StrangersOnlyByRace'
  BY <1>0, <1>3 DEF NothingNew, access, get_accessible_project, is_account_usable,
                   StrangersOnlyByRace, Asking, Listening
<1>4. ASSUME NEW r \in Requests, NEW u \in Users, begin(r, u) PROVE StrangersOnlyByRace'
  <2>1. /\ socket' = socket /\ UNCHANGED access /\ overtaken' = overtaken \ {r}
        /\ \A q \in Requests : q # r => req'[q] = req[q]
        /\ req'[r].step \in Asking => get_accessible_project(u)
        /\ req'[r].user = u
    <3>1. req \in [Requests -> Request]
      BY DEF RequestInv, RequestTypes
    <3>2. PICK step \in {"post", "read", "edit", "delete"}, m \in Messages \union {None} :
             /\ Begin(r, u, step, m)
             /\ step \in {"post", "read"} => get_accessible_project(u)
      BY <1>4 DEF begin, post_message, mark_read, update_comment, delete_comment
    <3>3. /\ req' = [req EXCEPT ![r] = [step |-> step, user |-> u, msg |-> m, at |-> clock,
                                        content |-> 0]]
          /\ socket' = socket
      BY <3>2 DEF Begin, wsvars
    <3>4. req'[r].step = step /\ req'[r].user = u
      BY <3>1, <3>3
    <3> QED
      BY <1>4, <3>1, <3>2, <3>3, <3>4 DEF begin, Asking
  <2>2. \A s \in Sockets : s # r
    BY AccessAssumption
  <2>3. ASSUME NEW q \in Requests, req'[q].step \in Asking
        PROVE  get_accessible_project(req[q].user)' \/ q \in overtaken'
    <3>1. CASE q = r
      BY <2>1, <2>3, <3>1 DEF access, get_accessible_project, is_account_usable
    <3>2. CASE q # r
      BY <1>0, <2>1, <2>3, <3>2 DEF access, get_accessible_project, is_account_usable
    <3> QED
      BY <3>1, <3>2
  <2>4. ASSUME NEW s \in Sockets, socket'[s].state \in Listening
        PROVE  get_accessible_project(socket[s].user)' \/ s \in overtaken'
    BY <1>0, <2>1, <2>2, <2>4 DEF access, get_accessible_project, is_account_usable
  <2> QED
    BY <2>3, <2>4 DEF StrangersOnlyByRace, Asking, Listening
<1>5. ASSUME NEW s \in Sockets, NEW u \in Users, open(s, u) PROVE StrangersOnlyByRace'
  <2>1. /\ get_accessible_project(u) /\ UNCHANGED access /\ overtaken' = overtaken /\ req' = req
        /\ socket' = [socket EXCEPT ![s] = [state |-> "authorized", user |-> u]]
    BY <1>5 DEF open, authorize
  <2>2. socket \in [Sockets -> [state : SocketStates, user : Users \union {None}]]
    BY DEF SocketInv, SocketTypes
  <2>3. socket'[s].user = u /\ \A t \in Sockets : t # s => socket'[t] = socket[t]
    BY <2>1, <2>2
  <2>4. \A v : get_accessible_project(v) =>
          organization' /\ v \in usable' /\ project' /\ v \in Admins \union members'
    BY <2>1 DEF access, get_accessible_project, is_account_usable
  <2>5. ASSUME NEW t \in Sockets, socket'[t].state \in Listening
        PROVE  get_accessible_project(socket[t].user)' \/ t \in overtaken'
    BY <1>0, <2>1, <2>3, <2>4, <2>5 DEF get_accessible_project, is_account_usable
  <2>6. ASSUME NEW r \in Requests, req'[r].step \in Asking
        PROVE  get_accessible_project(req[r].user)' \/ r \in overtaken'
    BY <1>0, <2>1, <2>4, <2>6 DEF get_accessible_project, is_account_usable
  <2> QED
    BY <2>5, <2>6 DEF StrangersOnlyByRace, Asking, Listening
<1>6. ASSUME UNCHANGED vars, Overtake PROVE StrangersOnlyByRace'
  <2>1. req' = req /\ socket' = socket
    BY <1>6 DEF vars, wsvars
  <2>2. \A r \in Requests : req'[r].step \in Asking => req[r].step # "idle"
    BY <2>1 DEF Asking
  <2> QED
    BY <1>6, <2>1, <2>2 DEF Overtake, StrangersOnlyByRace, Asking
<1>7. ASSUME NEW u \in Users, create_project_member(u) PROVE StrangersOnlyByRace'
  <2>1. /\ req' = req /\ socket' = socket /\ overtaken' = overtaken
        /\ members \subseteq members' /\ UNCHANGED <<usable, organization, project>>
    BY <1>7 DEF create_project_member, vars, wsvars
  <2> QED
    BY <2>1 DEF StrangersOnlyByRace, get_accessible_project, is_account_usable
<1>8. ASSUME proceed PROVE StrangersOnlyByRace'
  BY <1>3, <1>8, ProceedNothingNew DEF proceed
<1>9. ASSUME NEW u \in Users, fetch(u) PROVE StrangersOnlyByRace'
  <2>1. /\ req' = req /\ socket' = socket /\ UNCHANGED <<access, overtaken>>
    BY <1>9 DEF fetch, list_messages, wsvars
  <2> QED
    BY <1>3, <2>1 DEF NothingNew
<1>10. ASSUME UNCHANGED allvars PROVE StrangersOnlyByRace'
  <2>1. /\ req' = req /\ socket' = socket /\ UNCHANGED <<access, overtaken>>
    BY <1>10 DEF allvars, vars, wsvars
  <2> QED
    BY <1>3, <2>1 DEF NothingNew
<1>11. ASSUME NEW u \in Users, delete_project_member(u) \/ update_user(u)
       PROVE  StrangersOnlyByRace'
  BY <1>6, <1>11 DEF delete_project_member, update_user
<1>12. ASSUME delete_project \/ update_organization PROVE StrangersOnlyByRace'
  BY <1>6, <1>12 DEF delete_project, update_organization
<1> QED
  BY <1>4, <1>5, <1>7, <1>8, <1>9, <1>10, <1>11, <1>12 DEF AccessNext

\* Nobody posts or listens who had no access when it was checked.
THEOREM StrangersRaced == AccessSpec => []StrangersOnlyByRace
<1>1. AccessInit => StrangersOnlyByRace
  BY DEF AccessInit, Init, IdleRequest, NewSocket, StrangersOnlyByRace
<1> QED
  BY <1>1, AccessTypes, StrangersStep, PTL DEF AccessSpec
===============================================================================

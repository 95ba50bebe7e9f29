----------------------------- MODULE OutboxProofs -----------------------------
(***************************************************************************)
(* Theorems about Outbox.tla, for every number of e-mails and workers and  *)
(* every setting.                                                          *)
(***************************************************************************)
EXTENDS Outbox, TLAPS

-------------------------------------------------------------------------------
(* Rows and selections                                                     *)

\* The backoff is an integer (compute_backoff_seconds).
LEMMA BackoffInt == ASSUME NEW n \in Nat
                    PROVE  compute_backoff_seconds(n) \in Int
  <1> DEFINE exponent == IF n >= 1 THEN n - 1 ELSE 0
  <1>1. exponent \in Nat
    OBVIOUS
  <1> HIDE DEF exponent
  <1>2. 2^exponent \in Int
    BY <1>1
  <1>3. RetryBase * 2^exponent \in Int /\ MaxBackoff \in Int
    BY <1>2, OutboxAssumption
  <1> QED
    BY <1>3 DEF compute_backoff_seconds, LeastOf, exponent

\* Every way the repository rewrites a row yields a row.
LEMMA RowUpdates == ASSUME NEW row \in Row
                    PROVE  /\ mark_sent(row) \in Row
                           /\ record_failure(row) \in Row
                           /\ Older(row) \in Row
                           /\ Processing(row) \in Row
  <1>0. 0 \in 0..StaleAfter
    BY OutboxAssumption
  <1>1. mark_sent(row) \in Row
    BY <1>0 DEF mark_sent, Row, OutboxStatus
  <1>2. mark_retry(row) \in Row
    <2>1. compute_backoff_seconds(row.attempts + 1) \in Int
      BY BackoffInt DEF Row
    <2>2. row.attempts + 1 \in Nat
      BY DEF Row
    <2> QED BY <2>1, <2>2, <1>0 DEF mark_retry, Row, OutboxStatus
  <1>3. mark_failed(row) \in Row
    BY <1>0 DEF mark_failed, Row, OutboxStatus
  <1>4. Older(row) \in Row
    BY OutboxAssumption DEF Older, Row, OutboxStatus
  <1>5. Processing(row) \in Row
    BY <1>0 DEF Processing, Row, OutboxStatus
  <1> QED BY <1>1, <1>2, <1>3, <1>4, <1>5 DEF record_failure

\* A claimed list is a non-empty list without repetitions of at most BatchSize
\* of the rows it was selected from.
LEMMA SelectionFacts ==
  ASSUME NEW S \in SUBSET Emails, NEW q \in Selections(S, BatchSize)
  PROVE  /\ q \in Seq(Emails)
         /\ Len(q) \in 1..BatchSize
         /\ DOMAIN q = 1..Len(q)
         /\ \A i \in 1..Len(q) : q[i] \in S
         /\ \A i, j \in 1..Len(q) : i # j => q[i] # q[j]
  <1>1. PICK n \in 1..BatchSize : q \in [1..n -> S]
    BY DEF Selections
  <1>2. n \in Nat /\ q \in Seq(S) /\ Len(q) = n /\ q \in Seq(Emails)
    BY <1>1, OutboxAssumption
  <1>3. \A i, j \in DOMAIN q : i # j => q[i] # q[j]
    BY DEF Selections
  <1> QED BY <1>1, <1>2, <1>3

-------------------------------------------------------------------------------
(* Type correctness                                                        *)

\* A worker that is not delivering stands at the first job.
AtStart ==
  \A w \in Workers : pc[w] \notin {"sending", "recording"}
                        => pos[w] = 1 /\ elapsed[w] = 0

TypeInv == TypeOK /\ AtStart

\* The job a delivering worker stands on is an outbox row.
LEMMA CurrentRow == ASSUME TypeOK, NEW w \in Workers,
                           pc[w] \in {"claiming", "sending", "recording"}
                    PROVE  Current(w) \in Emails
  <1>1. batch[w] \in Seq(Emails) /\ pos[w] \in 1..Len(batch[w])
    BY DEF TypeOK
  <1> QED BY <1>1 DEF Current

\* Counting one more keeps a counter per row well typed.
LEMMA CountUp == ASSUME NEW f \in [Emails -> Nat], NEW e \in Emails
                 PROVE  [f EXCEPT ![e] = @ + 1] \in [Emails -> Nat]
  OBVIOUS

\* Moving on to the next job, or back to the loop of run(), keeps the
\* worker's fields well formed.
LEMMA NextJobType ==
  ASSUME TypeInv, NEW w \in Workers, pc[w] = "recording", NextJob(w)
  PROVE  /\ pc' \in [Workers -> Phases]
         /\ batch' \in [Workers -> Seq(Emails)]
         /\ pos' \in [Workers -> Nat \ {0}]
         /\ outcome' \in [Workers -> {"none", "ok", "error"}]
         /\ elapsed' \in [Workers -> 0..SendTimeout]
         /\ \A v \in Workers : pc'[v] \in {"claiming", "sending", "recording"}
                                => pos'[v] <= Len(batch'[v])
         /\ AtStart'
  <1>1. 0 \in 0..SendTimeout
    BY OutboxAssumption
  <1>2. CASE pos[w] = Len(batch[w])
    <2>1. pc' = [pc EXCEPT ![w] = "idle"] /\ ResetWorker(w)
      BY <1>2 DEF NextJob
    <2>2. << >> \in Seq(Emails)
      OBVIOUS
    <2> QED BY <1>1, <2>1, <2>2 DEF ResetWorker, TypeInv, TypeOK, AtStart, Phases
  <1>3. CASE pos[w] # Len(batch[w])
    <2>1. /\ pc' = [pc EXCEPT ![w] = "sending"]
          /\ pos' = [pos EXCEPT ![w] = @ + 1]
          /\ outcome' = [outcome EXCEPT ![w] = "none"]
          /\ elapsed' = [elapsed EXCEPT ![w] = 0]
          /\ UNCHANGED batch
      BY <1>3 DEF NextJob
    <2>2. pos[w] < Len(batch[w]) /\ Len(batch[w]) \in Nat
      BY <1>3 DEF TypeInv, TypeOK
    <2>3. pos' \in [Workers -> Nat \ {0}]
      <3>1. pos \in [Workers -> Nat \ {0}]
        BY DEF TypeInv, TypeOK
      <3>2. pos' = [pos EXCEPT ![w] = pos[w] + 1]
        BY <2>1
      <3>3. pos[w] + 1 \in Nat \ {0}
        BY <3>1
      <3> QED BY ONLY <3>1, <3>2, <3>3
    <2>4. /\ pc' \in [Workers -> Phases]
          /\ batch' \in [Workers -> Seq(Emails)]
          /\ outcome' \in [Workers -> {"none", "ok", "error"}]
          /\ elapsed' \in [Workers -> 0..SendTimeout]
      BY <1>1, <2>1 DEF TypeInv, TypeOK, Phases
    <2>5. ASSUME NEW v \in Workers, pc'[v] \in {"claiming", "sending", "recording"}
          PROVE  pos'[v] <= Len(batch'[v])
      <3>1. CASE v = w
        <4>1. pos'[v] = pos[w] + 1 /\ batch'[v] = batch[w] /\ pos[w] \in Nat
          BY <2>1, <3>1 DEF TypeInv, TypeOK
        <4> QED BY <4>1, <2>2
      <3>2. CASE v # w
        BY <2>1, <2>5, <3>2 DEF TypeInv, TypeOK
      <3> QED BY <3>1, <3>2
    <2>6. AtStart'
      BY <2>1 DEF TypeInv, TypeOK, AtStart
    <2> QED BY <2>3, <2>4, <2>5, <2>6
  <1> QED BY <1>2, <1>3

\* The type invariant is inductive.
LEMMA TypeInvStep == TypeInv /\ [Next]_vars => TypeInv'
  <1> SUFFICES ASSUME TypeInv, [Next]_vars PROVE TypeInv'
    OBVIOUS
  <1> USE OutboxAssumption
  <1>1. CASE UNCHANGED vars
    BY <1>1 DEF TypeInv, TypeOK, AtStart, vars, workerVars, history
  <1>2. ASSUME NEW e \in Emails, enqueue_email(e) PROVE TypeInv'
    <2>1. [outbox[e] EXCEPT !.status = "pending"] \in Row
      BY DEF TypeInv, TypeOK, Row, OutboxStatus
    <2>2. outbox' \in [Emails -> Row]
      <3>1. outbox \in [Emails -> Row]
        BY DEF TypeInv, TypeOK
      <3>2. outbox' = [outbox EXCEPT ![e] = [@ EXCEPT !.status = "pending"]]
        BY <1>2 DEF enqueue_email
      <3> QED BY <2>1, <3>1, <3>2
    <2> QED BY <1>2, <2>2 DEF enqueue_email, TypeInv, TypeOK, AtStart, workerVars, history
  <1>3. ASSUME NEW w \in Workers, claim_batch(w) PROVE TypeInv'
    <2>1. PICK q \in Selections({e \in Emails : Claimable(e) /\ ~Locked(e)}, BatchSize) :
             batch' = [batch EXCEPT ![w] = q]
      BY <1>3 DEF claim_batch
    <2>2. q \in Seq(Emails) /\ 1 <= Len(q)
      BY SelectionFacts
    <2> QED BY <1>3, <2>1, <2>2
            DEF claim_batch, TypeInv, TypeOK, AtStart, Phases, history
  <1>4. ASSUME NEW w \in Workers, claim_commit(w) PROVE TypeInv'
    <2>1. outbox' \in [Emails -> Row]
      BY <1>4, RowUpdates DEF claim_commit, TypeInv, TypeOK
    <2> QED BY <1>4, <2>1 DEF claim_commit, TypeInv, TypeOK, AtStart, Phases, history
  <1>5. ASSUME NEW w \in Workers, claim_rollback(w) PROVE TypeInv'
    BY <1>5 DEF claim_rollback, ResetWorker, TypeInv, TypeOK, AtStart, Phases, history
  <1>6. ASSUME NEW w \in Workers, send(w) PROVE TypeInv'
    <2>1. Current(w) \in Emails
      BY <1>6, CurrentRow DEF send, TypeInv
    <2>2. /\ tries' \in [Emails -> Nat]
          /\ accepted' \in [Emails -> Nat]
          /\ unsure' \in [Emails -> Nat]
      <3> DEFINE c == Current(w)
      <3>0. /\ c \in Emails
            /\ tries \in [Emails -> Nat]
            /\ accepted \in [Emails -> Nat]
            /\ unsure \in [Emails -> Nat]
        BY <2>1 DEF TypeInv, TypeOK
      <3>1. /\ tries' = [tries EXCEPT ![c] = @ + 1]
            /\ accepted' = accepted \/ accepted' = [accepted EXCEPT ![c] = @ + 1]
            /\ unsure' = unsure \/ unsure' = [unsure EXCEPT ![c] = @ + 1]
        BY <1>6 DEF send
      <3> HIDE DEF c
      <3> QED BY <3>0, <3>1, CountUp
    <2>3. /\ outcome' \in [Workers -> {"none", "ok", "error"}]
          /\ pc' = [pc EXCEPT ![w] = "recording"]
          /\ pc[w] = "sending"
          /\ UNCHANGED <<outbox, batch, pos, elapsed, shutdown, faults, stops, lost>>
      BY <1>6 DEF send, TypeInv, TypeOK
    <2> QED BY <2>2, <2>3 DEF TypeInv, TypeOK, AtStart, Phases
  <1>7. ASSUME NEW w \in Workers, record(w) PROVE TypeInv'
    <2>1. Current(w) \in Emails
      BY <1>7, CurrentRow DEF record, TypeInv
    <2>2. outbox' \in [Emails -> Row]
      BY <1>7, <2>1, RowUpdates DEF record, TypeInv, TypeOK
    <2>3. /\ UNCHANGED <<shutdown, faults, stops, tries, accepted, lost, unsure>>
          /\ NextJob(w) /\ pc[w] = "recording"
      BY <1>7 DEF record, history
    <2> QED BY <2>2, <2>3, NextJobType DEF TypeInv, TypeOK
  <1>8. ASSUME NEW w \in Workers, record_error(w) PROVE TypeInv'
    <2>1. Current(w) \in Emails
      BY <1>8, CurrentRow DEF record_error, TypeInv
    <2>2. lost' \in [Emails -> Nat]
      BY <1>8, <2>1, CountUp DEF record_error, TypeInv, TypeOK
    <2>3. /\ UNCHANGED <<outbox, shutdown, stops, tries, accepted, unsure>>
          /\ NextJob(w) /\ pc[w] = "recording"
      BY <1>8 DEF record_error
    <2>4. faults' \in 0..MaxFaults
      BY <1>8 DEF record_error, TypeInv, TypeOK
    <2> QED BY <2>2, <2>3, <2>4, NextJobType DEF TypeInv, TypeOK
  <1>9. ASSUME NEW w \in Workers, request_shutdown(w) PROVE TypeInv'
    BY <1>9 DEF request_shutdown, TypeInv, TypeOK, AtStart, workerVars, history
  <1>10. ASSUME NEW w \in Workers, stop(w) PROVE TypeInv'
    BY <1>10 DEF stop, TypeInv, TypeOK, AtStart, Phases, history
  <1>11. ASSUME NEW w \in Workers, crash(w) PROVE TypeInv'
    <2>1. lost' \in [Emails -> Nat]
      BY <1>11, CurrentRow DEF crash, TypeInv, TypeOK
    <2> QED BY <1>11, <2>1 DEF crash, ResetWorker, TypeInv, TypeOK, AtStart, Phases
  <1>12. ASSUME NEW w \in Workers, restart(w) PROVE TypeInv'
    BY <1>12 DEF restart, TypeInv, TypeOK, AtStart, Phases, history
  <1>13. CASE Tick
    <2>1. outbox' \in [Emails -> Row]
      BY <1>13, RowUpdates DEF Tick, TypeInv, TypeOK
    <2>2. elapsed' \in [Workers -> 0..SendTimeout]
      BY <1>13 DEF Tick, TypeInv, TypeOK
    <2> QED BY <1>13, <2>1, <2>2 DEF Tick, TypeInv, TypeOK, AtStart, history
  <1> QED BY <1>1, <1>2, <1>3, <1>4, <1>5, <1>6, <1>7, <1>8, <1>9, <1>10,
             <1>11, <1>12, <1>13 DEF Next

LEMMA TypeInvInit == Init => TypeInv
  <1> USE OutboxAssumption
  <1>1. NoRow \in Row
    BY DEF NoRow, Row
  <1> QED BY <1>1 DEF Init, TypeInv, TypeOK, AtStart, Phases

\* Every reachable state is well typed, and a worker in the middle of a batch
\* stands on one of its jobs (worker.py, process_batch).
THEOREM TypeCorrect == Spec => []TypeOK
  <1>1. TypeInv => TypeOK
    BY DEF TypeInv
  <1> QED BY <1>1, TypeInvInit, TypeInvStep, PTL DEF Spec

-------------------------------------------------------------------------------
(* What a result may do to a row, however late it is recorded              *)

\* A claim in progress keeps its rows deliverable: nobody else can write them.
ClaimedDeliverable ==
  \A w \in Workers : pc[w] = "claiming" =>
    \A e \in BatchRows(w) : outbox[e].status \in {"pending", "processing"}

\* A worker about to record a success has had the message accepted.
OkWasAccepted ==
  \A w \in Workers : pc[w] = "recording" /\ outcome[w] = "ok"
                        => accepted[Current(w)] >= 1

BudgetInv ==
  /\ RetryBudget
  /\ SentWasAccepted
  /\ \A e \in Emails : outbox[e].status = "absent" => outbox[e].attempts = 0
  /\ ClaimedDeliverable
  /\ OkWasAccepted

\* Moving on concerns the moving worker only.
LEMMA NextJobFrame ==
  ASSUME TypeOK, NEW w \in Workers, pc[w] = "recording", NextJob(w)
  PROVE  /\ \A v \in Workers \ {w} :
              /\ pc'[v] = pc[v] /\ batch'[v] = batch[v] /\ pos'[v] = pos[v]
              /\ outcome'[v] = outcome[v] /\ elapsed'[v] = elapsed[v]
         /\ \/ pc'[w] = "idle"
            \/ /\ pc'[w] = "sending" /\ batch'[w] = batch[w]
               /\ pos'[w] = pos[w] + 1 /\ elapsed'[w] = 0
<1>1. /\ pc \in [Workers -> Phases] /\ DOMAIN batch = Workers /\ DOMAIN pos = Workers
      /\ DOMAIN outcome = Workers /\ DOMAIN elapsed = Workers
  BY DEF TypeOK
<1>2. CASE pos[w] = Len(batch[w])
  <2>1. /\ pc' = [pc EXCEPT ![w] = "idle"]
        /\ batch' = [batch EXCEPT ![w] = << >>] /\ pos' = [pos EXCEPT ![w] = 1]
        /\ outcome' = [outcome EXCEPT ![w] = "none"] /\ elapsed' = [elapsed EXCEPT ![w] = 0]
    BY <1>2 DEF NextJob, ResetWorker
  <2> QED BY <1>1, <2>1
<1>3. CASE pos[w] # Len(batch[w])
  <2>1. /\ pc' = [pc EXCEPT ![w] = "sending"] /\ pos' = [pos EXCEPT ![w] = pos[w] + 1]
        /\ outcome' = [outcome EXCEPT ![w] = "none"] /\ elapsed' = [elapsed EXCEPT ![w] = 0]
        /\ batch' = batch
    BY <1>3 DEF NextJob
  <2> QED BY <1>1, <2>1
<1> QED BY <1>2, <1>3

\* Writing a result back keeps the budget and never invents a delivery.
LEMMA RecordedRow ==
  ASSUME TypeOK, NEW e \in Emails, RetryBudget, SentWasAccepted, NEW ok \in BOOLEAN,
         ok => accepted[e] >= 1, NEW row,
         row = IF ok THEN mark_sent(outbox[e]) ELSE record_failure(outbox[e])
  PROVE  /\ row.status \in {"sent", "pending", "failed"}
         /\ row.status = "sent" => accepted[e] >= 1
         /\ row.status = "pending" => row.attempts < MaxAttempts
         /\ row.status = "failed" => row.attempts >= MaxAttempts
  <1>1. outbox[e].attempts \in Nat
    BY DEF TypeOK, Row
  <1> QED BY <1>1, OutboxAssumption
          DEF mark_sent, record_failure, mark_retry, mark_failed

\* The budget invariant is inductive.
LEMMA BudgetStep == TypeInv /\ BudgetInv /\ [Next]_vars => BudgetInv'
  <1> SUFFICES ASSUME TypeInv, BudgetInv, [Next]_vars PROVE BudgetInv'
    OBVIOUS
  <1> USE OutboxAssumption
  <1>t. TypeOK
    BY DEF TypeInv
  <1>a. \A e \in Emails : outbox[e].attempts \in Nat
    BY <1>t DEF TypeOK, Row
  <1>1. CASE UNCHANGED vars
    BY <1>1 DEF BudgetInv, RetryBudget, SentWasAccepted, ClaimedDeliverable,
                OkWasAccepted, BatchRows, Current, vars, workerVars, history
  <1>2. ASSUME NEW e \in Emails, enqueue_email(e) PROVE BudgetInv'
    <2>1. /\ outbox'[e].status = "pending" /\ outbox'[e].attempts = 0
          /\ \A f \in Emails \ {e} : outbox'[f] = outbox[f]
          /\ UNCHANGED <<pc, batch, pos, outcome, accepted>>
      BY <1>2, <1>t DEF enqueue_email, workerVars, history, TypeOK, Row, BudgetInv
    <2>2. ClaimedDeliverable'
      <3> SUFFICES ASSUME NEW w \in Workers, pc[w] = "claiming", NEW f \in BatchRows(w)
                   PROVE  outbox'[f].status \in {"pending", "processing"}
        BY <2>1 DEF ClaimedDeliverable, BatchRows
      <3>1. f \in Emails
        BY <1>t DEF BatchRows, TypeOK
      <3> QED BY <3>1, <2>1 DEF BudgetInv, ClaimedDeliverable
    <2>3. OkWasAccepted'
      BY <2>1 DEF BudgetInv, OkWasAccepted, Current
    <2> QED BY <2>1, <2>2, <2>3 DEF BudgetInv, RetryBudget, SentWasAccepted
  <1>3. ASSUME NEW w \in Workers, claim_batch(w) PROVE BudgetInv'
    <2>1. PICK q \in Selections({e \in Emails : Claimable(e) /\ ~Locked(e)}, BatchSize) :
             batch' = [batch EXCEPT ![w] = q]
      BY <1>3 DEF claim_batch
    <2>2. \A i \in DOMAIN q : q[i] \in Emails /\ Claimable(q[i])
      BY SelectionFacts
    <2>3. /\ pc' = [pc EXCEPT ![w] = "claiming"]
          /\ UNCHANGED <<outbox, pos, outcome, accepted>>
      BY <1>3 DEF claim_batch, history
    <2>4. ClaimedDeliverable'
      <3> SUFFICES ASSUME NEW v \in Workers, pc'[v] = "claiming", NEW i \in DOMAIN batch'[v]
                   PROVE  outbox[batch'[v][i]].status \in {"pending", "processing"}
        BY <2>3 DEF ClaimedDeliverable, BatchRows
      <3>1. CASE v = w
        BY <3>1, <2>1, <2>2, <1>t DEF TypeOK, Claimable
      <3>2. CASE v # w
        BY <3>2, <2>1, <2>3, <1>t DEF TypeOK, BudgetInv, ClaimedDeliverable, BatchRows
      <3> QED BY <3>1, <3>2
    <2>5. OkWasAccepted'
      BY <2>1, <2>3, <1>t DEF BudgetInv, OkWasAccepted, Current, TypeOK
    <2> QED BY <2>3, <2>4, <2>5 DEF BudgetInv, RetryBudget, SentWasAccepted
  <1>4. ASSUME NEW w \in Workers, claim_commit(w) PROVE BudgetInv'
    <2>1. /\ pc[w] = "claiming" /\ pc' = [pc EXCEPT ![w] = "sending"]
          /\ UNCHANGED <<batch, pos, outcome, accepted>>
      BY <1>4 DEF claim_commit, history
    <2>2. \A e \in Emails :
            \/ outbox'[e] = outbox[e]
            \/ /\ outbox[e].status \in {"pending", "processing"}
               /\ outbox'[e].status = "processing"
               /\ outbox'[e].attempts = outbox[e].attempts
      BY <1>4, <2>1, <1>t DEF claim_commit, Processing, BudgetInv, ClaimedDeliverable
    <2>3. RetryBudget' /\ SentWasAccepted'
      BY <2>1, <2>2, <1>a DEF BudgetInv, RetryBudget, SentWasAccepted
    <2>4. ClaimedDeliverable'
      <3> SUFFICES ASSUME NEW v \in Workers, pc'[v] = "claiming", NEW e \in BatchRows(v)'
                   PROVE  outbox'[e].status \in {"pending", "processing"}
        BY DEF ClaimedDeliverable
      <3>1. v # w /\ pc[v] = "claiming" /\ e \in BatchRows(v)
        BY <2>1, <1>t DEF BatchRows, TypeOK
      <3>2. e \in Emails
        BY <3>1, <1>t DEF BatchRows, TypeOK
      <3> QED BY <3>1, <3>2, <2>2 DEF BudgetInv, ClaimedDeliverable
    <2>5. OkWasAccepted'
      BY <2>1, <1>t DEF BudgetInv, OkWasAccepted, Current, TypeOK
    <2>6. \A e \in Emails : outbox'[e].status = "absent" => outbox'[e].attempts = 0
      BY <2>2 DEF BudgetInv
    <2> QED BY <2>3, <2>4, <2>5, <2>6 DEF BudgetInv
  <1>5. ASSUME NEW w \in Workers,
               /\ pc'[w] \notin {"claiming", "recording"}
               /\ \A v \in Workers \ {w} :
                    /\ pc'[v] = pc[v] /\ batch'[v] = batch[v]
                    /\ pos'[v] = pos[v] /\ outcome'[v] = outcome[v]
               /\ UNCHANGED <<outbox, accepted>>
        PROVE  BudgetInv'
    <2>1. ClaimedDeliverable'
      BY <1>5 DEF BudgetInv, ClaimedDeliverable, BatchRows
    <2>2. OkWasAccepted'
      BY <1>5 DEF BudgetInv, OkWasAccepted, Current
    <2> QED BY <1>5, <2>1, <2>2 DEF BudgetInv, RetryBudget, SentWasAccepted
  <1>6. ASSUME NEW w \in Workers,
               claim_rollback(w) \/ stop(w) \/ crash(w) \/ restart(w)
        PROVE  BudgetInv'
    <2>1. /\ DOMAIN pc = Workers /\ DOMAIN batch = Workers
          /\ DOMAIN pos = Workers /\ DOMAIN outcome = Workers
      BY <1>t DEF TypeOK
    <2>2. /\ \E next \in {"idle", "stopped", "down"} : pc' = [pc EXCEPT ![w] = next]
          /\ UNCHANGED <<outbox, accepted>>
      BY <1>6 DEF claim_rollback, stop, crash, restart, history
    <2>3. ResetWorker(w) \/ UNCHANGED <<batch, pos, outcome>>
      BY <1>6 DEF claim_rollback, stop, crash, restart
    <2>4. \A v \in Workers \ {w} : batch'[v] = batch[v] /\ pos'[v] = pos[v] /\ outcome'[v] = outcome[v]
      BY <2>1, <2>3 DEF ResetWorker
    <2>5. pc'[w] \notin {"claiming", "recording"} /\ \A v \in Workers \ {w} : pc'[v] = pc[v]
      BY <2>1, <2>2
    <2> QED BY <1>5, <2>2, <2>4, <2>5
  <1>7. ASSUME NEW w \in Workers, send(w) PROVE BudgetInv'
    <2> DEFINE c == Current(w)
    <2>1. /\ c \in Emails /\ accepted \in [Emails -> Nat]
          /\ pc[w] = "sending" /\ pc' = [pc EXCEPT ![w] = "recording"]
          /\ UNCHANGED <<outbox, batch, pos>>
      BY <1>7, CurrentRow, <1>t DEF send, TypeOK
    <2>2. \/ accepted' = [accepted EXCEPT ![c] = @ + 1]
          \/ accepted' = accepted /\ outcome'[w] = "error"
      BY <1>7, <1>t DEF send, TypeOK
    <2>3. \A v \in Workers \ {w} : outcome'[v] = outcome[v] /\ pc'[v] = pc[v]
      BY <1>7, <1>t DEF send, TypeOK
    <2>4. Current(w)' = c /\ \A v \in Workers : Current(v)' = Current(v)
      BY <2>1 DEF Current
    <2> HIDE DEF c
    <2>5. \A e \in Emails : accepted'[e] >= accepted[e]
      BY <2>1, <2>2
    <2>6. outcome'[w] = "ok" => accepted'[c] >= 1
      BY <2>1, <2>2
    <2>7. SentWasAccepted'
      BY <2>1, <2>2, <2>5 DEF BudgetInv, SentWasAccepted
    <2>8. OkWasAccepted'
      <3> SUFFICES ASSUME NEW v \in Workers, pc'[v] = "recording", outcome'[v] = "ok"
                   PROVE  accepted'[Current(v)] >= 1
        BY <2>4 DEF OkWasAccepted
      <3>1. CASE v = w
        BY <3>1, <2>6 DEF c
      <3>2. CASE v # w
        <4>1. pc[v] = "recording" /\ outcome[v] = "ok"
          BY <3>2, <2>3
        <4>2. Current(v) \in Emails /\ accepted[Current(v)] >= 1
          BY <4>1, <1>t, CurrentRow DEF BudgetInv, OkWasAccepted
        <4>3. Current(v)' = Current(v)
          BY <2>4
        <4> HIDE DEF Current
        <4>4. accepted'[Current(v)] >= accepted[Current(v)]
          BY <4>2, <2>5
        <4>5. accepted[Current(v)] \in Nat /\ accepted'[Current(v)] \in Nat
          BY <4>2, <2>1, <2>2
        <4> QED BY <4>2, <4>3, <4>4, <4>5
      <3> QED BY <3>1, <3>2
    <2>9. ClaimedDeliverable'
      <3>1. \A v \in Workers : pc'[v] = "claiming" => pc[v] = "claiming"
        BY <2>1, <2>3
      <3>2. \A v \in Workers : BatchRows(v)' = BatchRows(v)
        BY <2>1 DEF BatchRows
      <3>3. ClaimedDeliverable
        BY DEF BudgetInv
      <3> QED BY <2>1, <3>1, <3>2, <3>3 DEF ClaimedDeliverable
    <2> QED BY <2>1, <2>7, <2>8, <2>9 DEF BudgetInv, RetryBudget
  <1>8. ASSUME NEW w \in Workers, record(w) PROVE BudgetInv'
    <2> DEFINE c == Current(w)
               ok == outcome[w] = "ok"
    <2>1. c \in Emails
      BY <1>8, CurrentRow, <1>t DEF record
    <2>2. /\ outbox' = [outbox EXCEPT ![c] =
                          IF ok THEN mark_sent(outbox[c]) ELSE record_failure(outbox[c])]
          /\ pc[w] = "recording" /\ NextJob(w) /\ ~Locked(c)
          /\ UNCHANGED accepted
      BY <1>8 DEF record, history
    <2>3. ok => accepted[c] >= 1
      BY <2>2 DEF BudgetInv, OkWasAccepted
    <2> HIDE DEF c, ok
    <2>4. /\ outbox'[c].status \in {"sent", "pending", "failed"}
          /\ outbox'[c].status = "sent" => accepted[c] >= 1
          /\ outbox'[c].status = "pending" => outbox'[c].attempts < MaxAttempts
          /\ outbox'[c].status = "failed" => outbox'[c].attempts >= MaxAttempts
      <3>1. outbox'[c] = IF ok THEN mark_sent(outbox[c]) ELSE record_failure(outbox[c])
        BY <2>1, <2>2, <1>t DEF TypeOK
      <3>2. ok \in BOOLEAN
        BY DEF ok
      <3> QED BY <2>1, <2>3, <3>1, <3>2, <1>t, RecordedRow DEF BudgetInv
    <2>5. \A e \in Emails \ {c} : outbox'[e] = outbox[e]
      BY <2>1, <2>2, <1>t DEF TypeOK
    <2>6. /\ \A v \in Workers \ {w} :
               /\ pc'[v] = pc[v] /\ batch'[v] = batch[v] /\ pos'[v] = pos[v]
               /\ outcome'[v] = outcome[v]
          /\ pc'[w] \in {"idle", "sending"}
      BY <2>2, <1>t, NextJobFrame
    <2>7. ClaimedDeliverable'
      <3> SUFFICES ASSUME NEW v \in Workers, pc'[v] = "claiming", NEW e \in BatchRows(v)'
                   PROVE  outbox'[e].status \in {"pending", "processing"}
        BY DEF ClaimedDeliverable
      <3>1. v # w /\ pc[v] = "claiming" /\ e \in BatchRows(v)
        BY <2>6 DEF BatchRows
      <3>2. e \in Emails /\ e # c
        BY <3>1, <2>2, <1>t DEF BatchRows, TypeOK, Locked
      <3> QED BY <3>1, <3>2, <2>5 DEF BudgetInv, ClaimedDeliverable
    <2>8. OkWasAccepted'
      BY <2>2, <2>6 DEF BudgetInv, OkWasAccepted, Current
    <2>9. RetryBudget' /\ SentWasAccepted'
      BY <2>2, <2>4, <2>5 DEF BudgetInv, RetryBudget, SentWasAccepted
    <2>10. \A e \in Emails : outbox'[e].status = "absent" => outbox'[e].attempts = 0
      BY <2>4, <2>5 DEF BudgetInv
    <2> QED BY <2>7, <2>8, <2>9, <2>10 DEF BudgetInv
  <1>9. ASSUME NEW w \in Workers, record_error(w) PROVE BudgetInv'
    <2>1. NextJob(w) /\ pc[w] = "recording" /\ UNCHANGED <<outbox, accepted>>
      BY <1>9 DEF record_error
    <2> QED BY <2>1, <1>5, <1>t, NextJobFrame
  <1>10. ASSUME NEW w \in Workers, request_shutdown(w) PROVE BudgetInv'
    BY <1>10 DEF request_shutdown, workerVars, history, BudgetInv, RetryBudget,
                 SentWasAccepted, ClaimedDeliverable, OkWasAccepted, BatchRows, Current
  <1>11. CASE Tick
    <2>1. UNCHANGED <<pc, batch, pos, outcome, accepted>>
      BY <1>11 DEF Tick, history
    <2>2. \A e \in Emails : /\ outbox'[e].status = outbox[e].status
                            /\ outbox'[e].attempts = outbox[e].attempts
      BY <1>11, <1>t DEF Tick, Older, TypeOK
    <2>3. ClaimedDeliverable'
      <3> SUFFICES ASSUME NEW w \in Workers, pc[w] = "claiming", NEW e \in BatchRows(w)
                   PROVE  outbox'[e].status \in {"pending", "processing"}
        BY <2>1 DEF ClaimedDeliverable, BatchRows
      <3>1. e \in Emails
        BY <1>t DEF BatchRows, TypeOK
      <3> QED BY <3>1, <2>2 DEF BudgetInv, ClaimedDeliverable
    <2> QED BY <2>1, <2>2, <2>3, <1>a DEF BudgetInv, RetryBudget, SentWasAccepted,
                                          OkWasAccepted, Current
  <1> QED BY <1>1, <1>2, <1>3, <1>4, <1>6, <1>7, <1>8, <1>9, <1>10, <1>11 DEF Next

LEMMA BudgetInit == Init => BudgetInv
  BY OutboxAssumption DEF Init, BudgetInv, RetryBudget, SentWasAccepted, NoRow,
                          ClaimedDeliverable, OkWasAccepted

\* Whatever the send durations, crashes and lost results: a row is given up
\* exactly when its attempts are used up (record_failure).
THEOREM RetryBudgetKept == Spec => []RetryBudget
  <1>1. BudgetInv => RetryBudget
    BY DEF BudgetInv
  <1> QED BY <1>1, TypeInvInit, TypeInvStep, BudgetInit, BudgetStep, PTL DEF Spec

\* ... and a row says `sent` only if the mail service took the message
\* (process_batch, _record).
THEOREM SentIsTruthful == Spec => []SentWasAccepted
  <1>1. BudgetInv => SentWasAccepted
    BY DEF BudgetInv
  <1> QED BY <1>1, TypeInvInit, TypeInvStep, BudgetInit, BudgetStep, PTL DEF Spec

-------------------------------------------------------------------------------
(* What is claimed is in somebody's hands                                  *)

\* No result leaves a row `processing`.
LEMMA RecordedStatus ==
  ASSUME NEW row
  PROVE  mark_sent(row).status # "processing" /\ record_failure(row).status # "processing"
  BY DEF mark_sent, record_failure, mark_failed, mark_retry

\* Going on to the next job lets go of the one that was recorded, and of no
\* other.
LEMMA NextJobKeeps ==
  ASSUME TypeInv, NEW w \in Workers, pc[w] = "recording", NextJob(w), NEW e
  PROVE  \A v \in Workers : e \in Held(v) /\ (v # w \/ e # Current(w)) => e \in Held(v)'
  <1> SUFFICES ASSUME NEW v \in Workers, e \in Held(v), v # w \/ e # Current(w)
               PROVE  e \in Held(v)'
    OBVIOUS
  <1>1. pos[w] \in Nat /\ pos[w] <= Len(batch[w]) /\ Len(batch[w]) \in Nat
    BY DEF TypeInv, TypeOK
  <1>2. CASE v # w
    <2>1. pc'[v] = pc[v] /\ batch'[v] = batch[v] /\ pos'[v] = pos[v]
      BY <1>2 DEF NextJob, ResetWorker, TypeInv, TypeOK
    <2> QED BY <2>1 DEF Held
  <1>3. CASE v = w
    <2>1. PICK i \in pos[w]..Len(batch[w]) : e = batch[w][i]
      BY <1>3 DEF Held
    <2>2. i # pos[w]
      BY <1>3, <2>1 DEF Current
    <2>3. i \in pos[w] + 1..Len(batch[w]) /\ pos[w] # Len(batch[w])
      BY <1>1, <2>1, <2>2
    <2>4. pc'[w] = "sending" /\ pos'[w] = pos[w] + 1 /\ batch' = batch
      BY <2>3 DEF NextJob, TypeInv, TypeOK
    <2> QED BY <1>3, <2>1, <2>3, <2>4 DEF Held
  <1> QED BY <1>2, <1>3

LEMMA HeldStep == TypeInv /\ ProcessingIsHeld /\ [Next]_vars => ProcessingIsHeld'
  <1> SUFFICES ASSUME TypeInv, ProcessingIsHeld, [Next]_vars, faults' = 0,
                      NEW e \in Emails, outbox'[e].status = "processing"
               PROVE  \E w \in Workers : e \in Held(w)'
    BY DEF ProcessingIsHeld
  <1>0. faults \in Nat /\ faults + 1 # 0
    BY OutboxAssumption DEF TypeInv, TypeOK
  <1>1. ASSUME faults = 0, outbox[e].status = "processing"
        PROVE  \E w \in Workers : e \in Held(w)
    BY <1>1 DEF ProcessingIsHeld
  <1>2. CASE UNCHANGED vars
    BY <1>1, <1>2 DEF Held, vars, workerVars
  <1>3. ASSUME NEW x \in Emails, enqueue_email(x)
        PROVE  \E w \in Workers : e \in Held(w)'
    <2>1. outbox[e].status = "processing" /\ faults = 0
      BY <1>3 DEF enqueue_email, TypeInv, TypeOK, Row
    <2> QED BY <1>1, <1>3, <2>1 DEF enqueue_email, Held, workerVars
  <1>4. ASSUME NEW w \in Workers, claim_batch(w) \/ stop(w) \/ restart(w)
        PROVE  \E v \in Workers : e \in Held(v)'
    <2>1. outbox[e].status = "processing" /\ faults = 0
      BY <1>4 DEF claim_batch, stop, restart
    <2>2. PICK v \in Workers : e \in Held(v)
      BY <1>1, <2>1
    <2>3. v # w
      BY <1>4, <2>2 DEF Held, claim_batch, stop, restart
    <2>4. pc'[v] = pc[v] /\ batch'[v] = batch[v] /\ pos'[v] = pos[v]
      BY <1>4, <2>3 DEF claim_batch, stop, restart, TypeInv, TypeOK
    <2> QED BY <2>2, <2>4 DEF Held
  <1>5. ASSUME NEW w \in Workers, claim_commit(w)
        PROVE  \E v \in Workers : e \in Held(v)'
    <2>1. /\ pc'[w] = "sending" /\ pos[w] = 1 /\ UNCHANGED <<batch, pos, faults>>
          /\ \A v \in Workers \ {w} : pc'[v] = pc[v]
      BY <1>5 DEF claim_commit, TypeInv, TypeOK, AtStart
    <2>2. CASE e \in BatchRows(w)
      <3>1. batch[w] \in Seq(Emails)
        BY DEF TypeInv, TypeOK
      <3>2. e \in Held(w)'
        BY <2>1, <2>2, <3>1 DEF BatchRows, Held
      <3> QED BY <3>2
    <2>3. CASE e \notin BatchRows(w)
      <3>1. outbox[e].status = "processing"
        BY <1>5, <2>3 DEF claim_commit
      <3>2. PICK v \in Workers : e \in Held(v)
        BY <1>1, <2>1, <3>1
      <3>3. v # w
        BY <1>5, <3>2 DEF Held, claim_commit
      <3> QED BY <2>1, <3>2, <3>3 DEF Held
    <2> QED BY <2>2, <2>3
  <1>6. ASSUME NEW w \in Workers, send(w)
        PROVE  \E v \in Workers : e \in Held(v)'
    <2>1. /\ UNCHANGED <<outbox, batch, pos, faults>>
          /\ pc[w] = "sending" /\ pc' = [pc EXCEPT ![w] = "recording"]
      BY <1>6 DEF send
    <2>2. PICK v \in Workers : e \in Held(v)
      BY <1>1, <2>1
    <2> QED BY <2>1, <2>2 DEF Held, TypeInv, TypeOK
  <1>7. ASSUME NEW w \in Workers, record(w)
        PROVE  \E v \in Workers : e \in Held(v)'
    <2>1. Current(w) \in Emails /\ pc[w] = "recording" /\ NextJob(w) /\ faults = 0
      BY <1>7, CurrentRow DEF record, TypeInv
    <2>2. e # Current(w)
      BY <1>7, <2>1, RecordedStatus DEF record, TypeInv, TypeOK
    <2>3. outbox[e].status = "processing"
      BY <1>7, <2>2 DEF record, TypeInv, TypeOK
    <2>4. PICK v \in Workers : e \in Held(v)
      BY <1>1, <2>1, <2>3
    <2> QED BY <2>1, <2>2, <2>4, NextJobKeeps
  <1>8. ASSUME NEW w \in Workers, claim_rollback(w) \/ record_error(w) \/ crash(w)
        PROVE  FALSE
    BY <1>0, <1>8 DEF claim_rollback, record_error, crash
  <1>9. ASSUME NEW w \in Workers, request_shutdown(w)
        PROVE  \E v \in Workers : e \in Held(v)'
    BY <1>1, <1>9 DEF request_shutdown, workerVars, Held
  <1>10. CASE Tick
    <2>1. outbox[e].status = "processing" /\ UNCHANGED <<pc, batch, pos, faults>>
      BY <1>10 DEF Tick, Older
    <2> QED BY <1>1, <2>1 DEF Held
  <1> QED BY <1>2, <1>3, <1>4, <1>5, <1>6, <1>7, <1>8, <1>9, <1>10 DEF Next

\* Without crashes and failed transactions, every row that is `processing` is in
\* the hands of a worker that will record it, whoever is told to shut down
\* meanwhile.
THEOREM NothingAbandoned == Spec => []ProcessingIsHeld
  <1>1. Init => ProcessingIsHeld
    BY DEF Init, NoRow, ProcessingIsHeld
  <1> QED BY <1>1, TypeInvInit, TypeInvStep, HeldStep, PTL DEF Spec

-------------------------------------------------------------------------------
(* If a batch fits into the stale window (BatchFits), no two workers are   *)
(* ever delivering the same row.                                           *)

\* The rows a worker is claiming or has claimed and not yet recorded.
Hands(w) == IF pc[w] = "claiming" THEN BatchRows(w) ELSE Held(w)

\* A batch is a list without repetitions of at most BatchSize rows.
WellShaped(q) == /\ Len(q) <= BatchSize
                 /\ \A i, j \in 1..Len(q) : i # j => q[i] # q[j]

BatchShape ==
  \A w \in Workers : pc[w] \in {"claiming", "sending", "recording"} => WellShaped(batch[w])

\* A held row is `processing`, and was locked no longer ago than the sends of
\* this batch can have taken: it is never stale.
HeldFresh ==
  \A w \in Workers : \A e \in Held(w) :
    /\ outbox[e].status = "processing"
    /\ outbox[e].age <= SendTimeout * (pos[w] - 1) + elapsed[w]

\* No row is in two workers' hands.
HandsDisjoint ==
  \A v, w \in Workers : v # w => Hands(v) \cap Hands(w) = {}

ExclusionInv == BatchShape /\ HeldFresh /\ HandsDisjoint

-------------------------------------------------------------------------------
(* Rows in hand                                                            *)

\* Rows in hand are outbox rows.
LEMMA HandsAreRows == ASSUME TypeOK, NEW w \in Workers
                      PROVE  Hands(w) \subseteq Emails /\ Held(w) \subseteq Emails
                             /\ Held(w) \subseteq Hands(w)
  <1>1. batch[w] \in Seq(Emails) /\ pos[w] \in Nat \ {0}
    BY DEF TypeOK
  <1>2. \A i \in 1..Len(batch[w]) : batch[w][i] \in Emails
    BY <1>1
  <1>3. pos[w]..Len(batch[w]) \subseteq 1..Len(batch[w])
    BY <1>1
  <1> QED BY <1>1, <1>2, <1>3 DEF Hands, Held, BatchRows

\* A held row is younger than the stale window.
LEMMA HeldNotClaimable ==
  ASSUME TypeOK, ExclusionInv, BatchFits, NEW w \in Workers, NEW e \in Held(w)
  PROVE  ~Claimable(e)
  <1> USE OutboxAssumption
  <1>1. pc[w] \in {"sending", "recording"} /\ pos[w] \in Nat \ {0}
        /\ Len(batch[w]) \in Nat /\ elapsed[w] \in 0..SendTimeout
    BY DEF TypeOK, Held
  <1>2. pos[w] <= BatchSize
    BY <1>1 DEF TypeOK, ExclusionInv, BatchShape, WellShaped
  <1>3. SendTimeout * (pos[w] - 1) + SendTimeout = SendTimeout * pos[w]
    BY <1>1
  <1>4. SendTimeout * pos[w] <= SendTimeout * BatchSize
    BY <1>1, <1>2
  <1>5. SendTimeout * (pos[w] - 1) \in Int /\ SendTimeout * pos[w] \in Int
        /\ SendTimeout * BatchSize \in Int
    BY <1>1
  <1>6. e \in Emails /\ outbox[e].age \in Int
    BY HandsAreRows DEF TypeOK, Row
  <1>7. outbox[e].age <= SendTimeout * (pos[w] - 1) + elapsed[w]
        /\ outbox[e].status = "processing"
    BY DEF ExclusionInv, HeldFresh
  <1>8. outbox[e].age < StaleAfter
    <2> DEFINE before == SendTimeout * (pos[w] - 1)
               through == SendTimeout * pos[w]
               whole == SendTimeout * BatchSize
    <2>1. /\ before \in Int /\ through \in Int /\ whole \in Int
          /\ before + SendTimeout = through /\ through <= whole
          /\ whole < StaleAfter
          /\ outbox[e].age <= before + elapsed[w]
      BY <1>3, <1>4, <1>5, <1>7 DEF BatchFits
    <2> HIDE DEF before, through, whole
    <2> QED BY <1>1, <1>6, <2>1
  <1> QED BY <1>6, <1>7, <1>8 DEF Claimable

\* What a worker does to its own hands leaves the others' alone.
LEMMA HandsFrame ==
  ASSUME NEW w \in Workers, pc'[w] = pc[w], batch'[w] = batch[w], pos'[w] = pos[w]
  PROVE  Hands(w)' = Hands(w) /\ Held(w)' = Held(w)
  BY DEF Hands, Held, BatchRows

\* Moving on drops the current job and keeps the rest.
LEMMA NextJobHands ==
  ASSUME TypeOK, ExclusionInv, NEW w \in Workers, pc[w] = "recording", NextJob(w)
  PROVE  /\ Hands(w)' \subseteq Held(w) \ {Current(w)}
         /\ Held(w)' \subseteq Held(w) \ {Current(w)}
         /\ Current(w) \in Held(w)
  <1>1. batch[w] \in Seq(Emails) /\ pos[w] \in 1..Len(batch[w]) /\ Len(batch[w]) \in Nat
    <2>1. batch[w] \in Seq(Emails) /\ pos[w] \in Nat \ {0} /\ pos[w] <= Len(batch[w])
      BY DEF TypeOK
    <2>2. Len(batch[w]) \in Nat
      BY <2>1
    <2> QED BY ONLY <2>1, <2>2
  <1>2. Current(w) \in Held(w)
    BY <1>1 DEF Current, Held
  <1>3. CASE pc'[w] = "idle"
    BY <1>2, <1>3 DEF Hands, Held
  <1>4. CASE /\ pc'[w] = "sending" /\ batch'[w] = batch[w]
             /\ pos'[w] = pos[w] + 1
    <2>1. Held(w)' = {batch[w][i] : i \in (pos[w] + 1)..Len(batch[w])}
      BY <1>4 DEF Held
    <2>2. Hands(w)' = Held(w)'
      BY <1>4 DEF Hands
    <2>3. \A i \in (pos[w] + 1)..Len(batch[w]) :
             i \in pos[w]..Len(batch[w]) /\ i \in 1..Len(batch[w]) /\ i # pos[w]
      BY <1>1
    <2>4. \A i \in (pos[w] + 1)..Len(batch[w]) : batch[w][i] # batch[w][pos[w]]
      BY <1>1, <2>3 DEF ExclusionInv, BatchShape, WellShaped
    <2>5. Held(w) = {batch[w][i] : i \in pos[w]..Len(batch[w])}
      BY DEF Held
    <2>6. \A e \in Held(w)' : e \in Held(w) /\ e # Current(w)
      BY <2>1, <2>3, <2>4, <2>5 DEF Current
    <2> HIDE DEF Current
    <2> QED BY <1>2, <2>2, <2>6
  <1> QED BY <1>3, <1>4, NextJobFrame

\* A step that leaves the other workers and their rows alone, and only shrinks
\* this worker's hands, keeps the hands disjoint.
LEMMA ShrinkDisjoint ==
  ASSUME HandsDisjoint, NEW w \in Workers, Hands(w)' \subseteq Hands(w),
         \A v \in Workers \ {w} : Hands(v)' = Hands(v)
  PROVE  HandsDisjoint'
  BY DEF HandsDisjoint

-------------------------------------------------------------------------------
(* The step                                                                *)

LEMMA ExclusionStep ==
  BatchFits /\ TypeInv /\ BudgetInv /\ ExclusionInv /\ [Next]_vars => ExclusionInv'
  <1> SUFFICES ASSUME BatchFits, TypeInv, BudgetInv, ExclusionInv, [Next]_vars
               PROVE  ExclusionInv'
    OBVIOUS
  <1> USE OutboxAssumption
  <1>t. TypeOK
    BY DEF TypeInv
  <1>i. BatchShape /\ HeldFresh /\ HandsDisjoint
    BY DEF ExclusionInv
  \* Steps that touch neither rows nor batches.
  <1>1. ASSUME UNCHANGED <<outbox, pc, batch, pos, elapsed>> PROVE ExclusionInv'
    <2>1. \A w \in Workers : Hands(w)' = Hands(w) /\ Held(w)' = Held(w)
      BY <1>1, HandsFrame
    <2>2. BatchShape'
      BY <1>1, <1>i DEF BatchShape
    <2>3. HeldFresh'
      BY <1>1, <1>i, <2>1 DEF HeldFresh
    <2>4. HandsDisjoint'
      BY <2>1, <1>i DEF HandsDisjoint
    <2> QED BY <2>2, <2>3, <2>4 DEF ExclusionInv
  <1>2. ASSUME NEW e \in Emails, enqueue_email(e) PROVE ExclusionInv'
    <2>1. /\ UNCHANGED <<pc, batch, pos, elapsed>>
          /\ outbox[e].status = "absent"
          /\ \A f \in Emails \ {e} : outbox'[f] = outbox[f]
      BY <1>2, <1>t DEF enqueue_email, workerVars, TypeOK
    <2>2. \A w \in Workers : Hands(w)' = Hands(w) /\ Held(w)' = Held(w)
      BY <2>1, HandsFrame
    <2>3. HeldFresh'
      <3> SUFFICES ASSUME NEW w \in Workers, NEW f \in Held(w)
                   PROVE  /\ outbox'[f].status = "processing"
                          /\ outbox'[f].age <= SendTimeout * (pos[w] - 1) + elapsed[w]
        BY <2>1, <2>2 DEF HeldFresh
      <3>1. f \in Emails /\ f # e
        BY <2>1, <1>t, <1>i, HandsAreRows DEF HeldFresh
      <3> QED BY <3>1, <2>1, <1>i DEF HeldFresh
    <2> QED BY <2>1, <2>2, <2>3, <1>i DEF ExclusionInv, BatchShape, HandsDisjoint
  <1>3. ASSUME NEW w \in Workers, claim_batch(w) PROVE ExclusionInv'
    <2>1. PICK q \in Selections({e \in Emails : Claimable(e) /\ ~Locked(e)}, BatchSize) :
             batch' = [batch EXCEPT ![w] = q]
      BY <1>3 DEF claim_batch
    <2>2. /\ q \in Seq(Emails) /\ Len(q) <= BatchSize /\ DOMAIN q = 1..Len(q)
          /\ \A i \in 1..Len(q) : q[i] \in Emails /\ Claimable(q[i]) /\ ~Locked(q[i])
          /\ \A i, j \in 1..Len(q) : i # j => q[i] # q[j]
      BY SelectionFacts
    <2>3. /\ pc' = [pc EXCEPT ![w] = "claiming"]
          /\ UNCHANGED <<outbox, pos, elapsed>>
      BY <1>3 DEF claim_batch
    <2>4. \A v \in Workers \ {w} : Hands(v)' = Hands(v) /\ Held(v)' = Held(v)
      BY <2>1, <2>3, <1>t, HandsFrame DEF TypeOK
    <2>5. Held(w)' = {} /\ Hands(w)' = {q[i] : i \in 1..Len(q)}
      <3>1. pc'[w] = "claiming" /\ batch'[w] = q
        BY <2>1, <2>3, <1>t DEF TypeOK
      <3>2. Held(w)' = {}
        BY <3>1 DEF Held
      <3>3. Hands(w)' = {q[i] : i \in 1..Len(q)}
        BY <2>2, <3>1 DEF Hands, BatchRows
      <3> QED BY <3>2, <3>3
    <2>6. BatchShape'
      <3>1. WellShaped(q)
        BY <2>2 DEF WellShaped
      <3>2. batch'[w] = q
        BY <2>1, <1>t DEF TypeOK
      <3>3. \A v \in Workers \ {w} : pc'[v] = pc[v] /\ batch'[v] = batch[v]
        BY <2>1, <2>3, <1>t DEF TypeOK
      <3> QED BY <3>1, <3>2, <3>3, <1>i DEF BatchShape
    <2>7. HeldFresh'
      BY <2>3, <2>4, <2>5, <1>i DEF HeldFresh
    <2>8. \A v \in Workers \ {w} : \A e \in Hands(v) : e \notin Hands(w)'
      <3> SUFFICES ASSUME NEW v \in Workers \ {w}, NEW e \in Hands(v), Claimable(e), ~Locked(e)
                   PROVE  FALSE
        BY <2>2, <2>5
      <3>1. CASE pc[v] = "claiming"
        BY <3>1 DEF Hands, Locked
      <3>2. CASE pc[v] # "claiming"
        BY <3>2, <1>t, HeldNotClaimable DEF Hands
      <3> QED BY <3>1, <3>2
    <2>9. HandsDisjoint'
      <3> SUFFICES ASSUME NEW u \in Workers, NEW v \in Workers, u # v
                   PROVE  Hands(u)' \cap Hands(v)' = {}
        BY DEF HandsDisjoint
      <3>1. CASE u = w
        BY <3>1, <2>4, <2>8
      <3>2. CASE v = w
        BY <3>2, <2>4, <2>8
      <3>3. CASE u # w /\ v # w
        BY <3>3, <2>4, <1>i DEF HandsDisjoint
      <3> QED BY <3>1, <3>2, <3>3
    <2> QED BY <2>6, <2>7, <2>9 DEF ExclusionInv
  <1>4. ASSUME NEW w \in Workers, claim_commit(w) PROVE ExclusionInv'
    <2>1. /\ pc[w] = "claiming" /\ pc' = [pc EXCEPT ![w] = "sending"]
          /\ UNCHANGED <<batch, pos, elapsed>>
          /\ pos[w] = 1 /\ elapsed[w] = 0
      BY <1>4 DEF claim_commit, TypeInv, AtStart
    <2>2. \A v \in Workers \ {w} : Hands(v)' = Hands(v) /\ Held(v)' = Held(v)
      BY <2>1, <1>t, HandsFrame DEF TypeOK
    <2>3. Hands(w)' = Hands(w) /\ Held(w)' = Hands(w) /\ Hands(w) = BatchRows(w)
      <3>1. batch[w] \in Seq(Emails) /\ DOMAIN batch[w] = 1..Len(batch[w])
        BY <1>t DEF TypeOK
      <3>2. pc'[w] = "sending"
        BY <2>1, <1>t DEF TypeOK
      <3> QED BY <2>1, <3>1, <3>2 DEF Hands, Held, BatchRows
    <2>4. /\ \A e \in BatchRows(w) : e \in Emails /\ outbox'[e] = Processing(outbox[e])
          /\ \A e \in Emails \ BatchRows(w) : outbox'[e] = outbox[e]
      BY <1>4, <2>3, <1>t, HandsAreRows DEF claim_commit
    <2>5. HeldFresh'
      <3> SUFFICES ASSUME NEW v \in Workers, NEW e \in Held(v)'
                   PROVE  /\ outbox'[e].status = "processing"
                          /\ outbox'[e].age <= SendTimeout * (pos[v] - 1) + elapsed[v]
        BY <2>1 DEF HeldFresh
      <3>1. CASE v = w
        <4>1. outbox'[e].status = "processing" /\ outbox'[e].age = 0
          <5>1. e \in BatchRows(w)
            BY <3>1, <2>3
          <5>2. outbox'[e] = Processing(outbox[e])
            BY <5>1, <2>4
          <5> QED BY <5>2 DEF Processing
        <4>2. SendTimeout * (1 - 1) + 0 = 0
          OBVIOUS
        <4> QED BY <3>1, <2>1, <4>1, <4>2
      <3>2. CASE v # w
        <4>1. e \in Held(v) /\ e \in Hands(v) /\ e \in Emails
          BY <3>2, <2>2, <1>t, HandsAreRows
        <4>2. e \notin BatchRows(w)
          BY <3>2, <4>1, <2>3, <1>i DEF HandsDisjoint
        <4> QED BY <4>1, <4>2, <2>4, <1>i DEF HeldFresh
      <3> QED BY <3>1, <3>2
    <2>6. HandsDisjoint'
      BY <2>2, <2>3, <1>i, ShrinkDisjoint
    <2>7. BatchShape'
      <3>1. \A v \in Workers \ {w} : pc'[v] = pc[v]
        BY <2>1, <1>t DEF TypeOK
      <3> QED BY <2>1, <3>1, <1>i DEF BatchShape
    <2> QED BY <2>5, <2>6, <2>7 DEF ExclusionInv
  \* A worker leaves its batch.
  <1>5. ASSUME NEW w \in Workers, pc'[w] \in {"idle", "down", "stopped"},
               UNCHANGED outbox,
               \A v \in Workers \ {w} :
                 /\ pc'[v] = pc[v] /\ batch'[v] = batch[v]
                 /\ pos'[v] = pos[v] /\ elapsed'[v] = elapsed[v]
        PROVE  ExclusionInv'
    <2>1. \A v \in Workers \ {w} : Hands(v)' = Hands(v) /\ Held(v)' = Held(v)
      BY <1>5, HandsFrame
    <2>2. Hands(w)' = {} /\ Held(w)' = {}
      BY <1>5 DEF Hands, Held
    <2>3. BatchShape'
      BY <1>5, <1>i DEF BatchShape
    <2>4. HeldFresh'
      BY <1>5, <2>1, <2>2, <1>i DEF HeldFresh
    <2>5. HandsDisjoint'
      BY <2>1, <2>2, <1>i, ShrinkDisjoint
    <2> QED BY <2>3, <2>4, <2>5 DEF ExclusionInv
  <1>6. ASSUME NEW w \in Workers,
               claim_rollback(w) \/ stop(w) \/ crash(w) \/ restart(w)
        PROVE  ExclusionInv'
    BY <1>5, <1>6, <1>t
       DEF claim_rollback, stop, crash, restart, ResetWorker, TypeOK
  <1>7. ASSUME NEW w \in Workers, send(w) PROVE ExclusionInv'
    <2>1. /\ pc[w] = "sending" /\ pc' = [pc EXCEPT ![w] = "recording"]
          /\ UNCHANGED <<outbox, batch, pos, elapsed>>
      BY <1>7 DEF send
    <2>2. \A v \in Workers : Hands(v)' = Hands(v) /\ Held(v)' = Held(v)
      BY <2>1, <1>t DEF Hands, Held, BatchRows, TypeOK
    <2>3. BatchShape'
      BY <2>1, <1>i, <1>t DEF BatchShape, TypeOK
    <2>4. HeldFresh' /\ HandsDisjoint'
      BY <2>1, <2>2, <1>i DEF HeldFresh, HandsDisjoint
    <2> QED BY <2>3, <2>4 DEF ExclusionInv
  \* A worker moves on, having rewritten at most the row of its current job.
  <1>8. ASSUME NEW w \in Workers, pc[w] = "recording", NextJob(w),
               \A e \in Emails \ {Current(w)} : outbox'[e] = outbox[e]
        PROVE  ExclusionInv'
    <2>1. /\ \A v \in Workers \ {w} :
               /\ pc'[v] = pc[v] /\ batch'[v] = batch[v]
               /\ pos'[v] = pos[v] /\ elapsed'[v] = elapsed[v]
          /\ \/ pc'[w] = "idle"
             \/ /\ pc'[w] = "sending" /\ batch'[w] = batch[w]
                /\ pos'[w] = pos[w] + 1 /\ elapsed'[w] = 0
      BY <1>8, <1>t, NextJobFrame
    <2>2. /\ Hands(w)' \subseteq Held(w) \ {Current(w)}
          /\ Held(w)' \subseteq Held(w) \ {Current(w)}
          /\ Current(w) \in Held(w)
      BY <1>8, <1>t, NextJobHands
    <2> HIDE DEF Current
    <2>3. \A v \in Workers \ {w} : Hands(v)' = Hands(v) /\ Held(v)' = Held(v)
      BY <2>1, HandsFrame
    <2>4. HandsDisjoint'
      BY <2>2, <2>3, <1>i, <1>t, ShrinkDisjoint, HandsAreRows
    <2>5. BatchShape'
      BY <2>1, <1>8, <1>i DEF BatchShape
    <2>6. HeldFresh'
      <3> SUFFICES ASSUME NEW v \in Workers, NEW e \in Held(v)'
                   PROVE  /\ outbox'[e].status = "processing"
                          /\ outbox'[e].age <= SendTimeout * (pos'[v] - 1) + elapsed'[v]
        BY DEF HeldFresh
      <3>1. e \in Held(v) /\ e \in Emails /\ e # Current(w)
        <4>1. CASE v = w
          BY <4>1, <2>2, <1>t, HandsAreRows
        <4>2. CASE v # w
          <5>1. e \in Held(v) /\ e \in Emails /\ e \in Hands(v)
            BY <4>2, <2>3, <1>t, HandsAreRows
          <5>2. Current(w) \in Hands(w)
            BY <2>2, <1>t, HandsAreRows
          <5> QED BY <4>2, <5>1, <5>2, <1>i DEF HandsDisjoint
        <4> QED BY <4>1, <4>2
      <3>2. /\ outbox'[e] = outbox[e] /\ outbox[e].status = "processing"
            /\ outbox[e].age <= SendTimeout * (pos[v] - 1) + elapsed[v]
        BY <3>1, <1>8, <1>i DEF HeldFresh
      <3>3. CASE v # w
        BY <3>2, <3>3, <2>1
      <3>4. CASE v = w
        <4>1. pos'[w] = pos[w] + 1 /\ elapsed'[w] = 0
          BY <3>4, <2>1 DEF Held
        <4>2. pos[w] \in Nat /\ elapsed[w] \in 0..SendTimeout /\ outbox[e].age \in Int
          BY <3>1, <1>t DEF TypeOK, Row
        <4> DEFINE before == SendTimeout * (pos[w] - 1)
                   after == SendTimeout * ((pos[w] + 1) - 1)
        <4>3. before \in Int /\ after \in Int /\ before + SendTimeout = after
          BY <4>2
        <4>4. outbox'[e].age <= before + elapsed[w]
          BY <3>2, <3>4
        <4> HIDE DEF before, after
        <4>5. outbox'[e].age <= after + 0
          BY <3>2, <4>2, <4>3, <4>4
        <4> QED BY <3>2, <3>4, <4>1, <4>5 DEF after
      <3> QED BY <3>3, <3>4
    <2> QED BY <2>4, <2>5, <2>6 DEF ExclusionInv
  <1>9. ASSUME NEW w \in Workers, record(w) \/ record_error(w) PROVE ExclusionInv'
    <2>1. pc[w] = "recording" /\ NextJob(w)
      BY <1>9 DEF record, record_error
    <2>2. \A e \in Emails \ {Current(w)} : outbox'[e] = outbox[e]
      BY <1>9, <1>t DEF record, record_error, TypeOK
    <2> QED BY <2>1, <2>2, <1>8
  <1>10. CASE Tick
    <2>1. UNCHANGED <<pc, batch, pos>>
      BY <1>10 DEF Tick
    <2>2. \A w \in Workers : Hands(w)' = Hands(w) /\ Held(w)' = Held(w)
      BY <2>1, HandsFrame
    <2>3. HeldFresh'
      <3> SUFFICES ASSUME NEW w \in Workers, NEW e \in Held(w)
                   PROVE  /\ outbox'[e].status = "processing"
                          /\ outbox'[e].age <= SendTimeout * (pos[w] - 1) + elapsed'[w]
        BY <2>1, <2>2 DEF HeldFresh
      <3>1. /\ e \in Emails /\ outbox[e].status = "processing"
            /\ outbox[e].age <= SendTimeout * (pos[w] - 1) + elapsed[w]
        BY <1>i, <1>t, HandsAreRows DEF HeldFresh
      <3>2. elapsed'[w] = elapsed[w] + 1
        BY <1>10 DEF Tick, Held, BatchFits
      <3>3. outbox'[e].status = "processing"
        BY <1>10, <3>1 DEF Tick, Older
      <3>4. outbox'[e].age = outbox[e].age + 1 \/ outbox'[e].age = outbox[e].age
        BY <1>10, <3>1 DEF Tick, Older
      <3> DEFINE before == SendTimeout * (pos[w] - 1)
      <3>5. before \in Int /\ outbox[e].age \in Int /\ elapsed[w] \in Int
        BY <1>t, <3>1 DEF TypeOK, Row
      <3>6. outbox[e].age <= before + elapsed[w]
        BY <3>1
      <3> HIDE DEF before
      <3>7. outbox'[e].age <= before + elapsed'[w]
        BY <3>2, <3>4, <3>5, <3>6
      <3> QED BY <3>3, <3>7 DEF before
    <2> QED BY <2>1, <2>2, <2>3, <1>i DEF ExclusionInv, BatchShape, HandsDisjoint
  <1>11. CASE UNCHANGED vars
    BY <1>1, <1>11 DEF vars, workerVars
  <1>12. ASSUME NEW w \in Workers, request_shutdown(w) PROVE ExclusionInv'
    BY <1>1, <1>12 DEF request_shutdown, workerVars
  <1> QED BY <1>2, <1>3, <1>4, <1>6, <1>7, <1>9, <1>10, <1>11, <1>12 DEF Next

LEMMA ExclusionInit == Init => ExclusionInv
  BY DEF Init, ExclusionInv, BatchShape, HeldFresh, HandsDisjoint, Hands, Held

\* "SKIP LOCKED so workers never collide" (OutboxRepository.claim_batch) holds
\* for every number of workers and rows, with crashes, failed transactions and
\* reclaimed rows, provided that a batch of punctual sends ends before its
\* first row is stale.
THEOREM NoCollision == ASSUME BatchFits PROVE Spec => []WorkersNeverCollide
  <1>0. BatchFits
    OBVIOUS
  <1>1. TypeInv /\ ExclusionInv => WorkersNeverCollide
    <2> SUFFICES ASSUME TypeInv, ExclusionInv, NEW v \in Workers, NEW w \in Workers, v # w
                 PROVE  Held(v) \cap Held(w) = {}
      BY DEF WorkersNeverCollide
    <2>1. Held(v) \subseteq Hands(v) /\ Held(w) \subseteq Hands(w)
      BY HandsAreRows DEF TypeInv
    <2> QED BY <2>1 DEF ExclusionInv, HandsDisjoint
  <1>2. TypeInv /\ BudgetInv /\ ExclusionInv /\ [Next]_vars => ExclusionInv'
    BY <1>0, ExclusionStep
  <1> QED BY <1>1, <1>2, TypeInvInit, TypeInvStep, BudgetInit, BudgetStep,
             ExclusionInit, PTL DEF Spec

-------------------------------------------------------------------------------
(* What send calls, acceptances and the row's own counter have to do with  *)
(* each other, and that Outbox implements Delivery, when BatchFits.        *)

\* Some worker has made the send call for e and not recorded its result.
Recording(e) == \E w \in Workers : pc[w] = "recording" /\ Current(w) = e

\* ... and the call succeeded.
RecordingOk(e) ==
  \E w \in Workers : pc[w] = "recording" /\ Current(w) = e /\ outcome[w] = "ok"

\* Every send call is accounted for by the attempts of the row, by a lost
\* result, by the row being `sent` or by a result about to be recorded.
TriesExplained(e) ==
  /\ outbox[e].attempts <= tries[e]
  /\ Recording(e) => outbox[e].attempts < tries[e]
  /\ tries[e] <= outbox[e].attempts + lost[e] + 1
  /\ outbox[e].status # "sent" /\ ~Recording(e)
       => tries[e] <= outbox[e].attempts + lost[e]

\* Every acceptance is accounted for in the same way.
AcceptancesExplained(e) ==
  /\ accepted[e] <= lost[e] + unsure[e] + 1
  /\ outbox[e].status # "sent" /\ ~RecordingOk(e) => accepted[e] <= lost[e] + unsure[e]

AttemptsBounded(e) ==
  /\ outbox[e].attempts <= MaxAttempts
  /\ outbox[e].status = "sent" => outbox[e].attempts < MaxAttempts

CountInv == \A e \in Emails :
              TriesExplained(e) /\ AcceptancesExplained(e) /\ AttemptsBounded(e)

-------------------------------------------------------------------------------
(* Frames                                                                  *)

\* What is about to be recorded for e does not change.
SameRecording(e) == /\ Recording(e)' <=> Recording(e)
                    /\ RecordingOk(e)' <=> RecordingOk(e)

\* If workers about to record keep their job and its outcome, nothing changes
\* in what is about to be recorded.
LEMMA RecordingFrame ==
  ASSUME \A v \in Workers :
           \/ pc'[v] # "recording" /\ pc[v] # "recording"
           \/ /\ pc'[v] = pc[v] /\ batch'[v] = batch[v]
              /\ pos'[v] = pos[v] /\ outcome'[v] = outcome[v]
  PROVE  \A e \in Emails : SameRecording(e)
  BY DEF SameRecording, Recording, RecordingOk, Current

\* The counters are typed.
LEMMA CountTypes ==
  ASSUME TypeOK, NEW e \in Emails
  PROVE  /\ outbox[e].attempts \in Nat /\ tries[e] \in Nat /\ accepted[e] \in Nat
         /\ lost[e] \in Nat /\ unsure[e] \in Nat
  BY DEF TypeOK, Row

\* Steps that neither send, record nor lose a result.
LEMMA QuietStep ==
  ASSUME CountInv,
         UNCHANGED <<tries, accepted, lost, unsure>>,
         \A e \in Emails : /\ outbox'[e].attempts = outbox[e].attempts
                           /\ outbox'[e].status = "sent" => outbox[e].status = "sent"
                           /\ outbox[e].status = "sent" => outbox'[e].status = "sent",
         \A v \in Workers :
           \/ pc'[v] # "recording" /\ pc[v] # "recording"
           \/ /\ pc'[v] = pc[v] /\ batch'[v] = batch[v]
              /\ pos'[v] = pos[v] /\ outcome'[v] = outcome[v]
  PROVE  CountInv'
  <1>1. \A e \in Emails : SameRecording(e)
    BY RecordingFrame
  <1> SUFFICES ASSUME NEW e \in Emails
               PROVE  (TriesExplained(e) /\ AcceptancesExplained(e) /\ AttemptsBounded(e))'
    BY DEF CountInv
  <1>2. TriesExplained(e) /\ AcceptancesExplained(e) /\ AttemptsBounded(e)
    BY DEF CountInv
  <1>3. TriesExplained(e)'
    BY <1>1, <1>2 DEF TriesExplained, SameRecording
  <1>4. AcceptancesExplained(e)'
    BY <1>1, <1>2 DEF AcceptancesExplained, SameRecording
  <1>5. AttemptsBounded(e)'
    BY <1>2 DEF AttemptsBounded
  <1> QED BY <1>3, <1>4, <1>5

\* A row whose result is about to be recorded is in that worker's hands only.
LEMMA RecordingAlone ==
  ASSUME TypeOK, ExclusionInv, NEW w \in Workers, pc[w] \in {"sending", "recording"}
  PROVE  /\ Current(w) \in Emails
         /\ outbox[Current(w)].status = "processing"
         /\ \A v \in Workers \ {w} : pc[v] = "recording" => Current(v) # Current(w)
  <1>1. ASSUME NEW v \in Workers, pc[v] \in {"sending", "recording"}
        PROVE  Current(v) \in Held(v) /\ Current(v) \in Hands(v)
    <2>1. pos[v] \in pos[v]..Len(batch[v])
      BY <1>1 DEF TypeOK
    <2> QED BY <1>1, <2>1 DEF Held, Hands, Current
  <1>2. Current(w) \in Emails
    BY CurrentRow
  <1> HIDE DEF Current
  <1> QED BY <1>1, <1>2 DEF ExclusionInv, HeldFresh, HandsDisjoint

\* Moving on from the current job ends the recording of that row only.
LEMMA NextJobRecording ==
  ASSUME TypeOK, ExclusionInv, NEW w \in Workers, pc[w] = "recording", NextJob(w)
  PROVE  \A c \in Emails : c = Current(w) =>
           /\ ~Recording(c)' /\ ~RecordingOk(c)'
           /\ \A e \in Emails \ {c} : SameRecording(e)
  <1> SUFFICES ASSUME NEW c \in Emails, c = Current(w)
               PROVE  /\ ~Recording(c)' /\ ~RecordingOk(c)'
                      /\ \A e \in Emails \ {c} : SameRecording(e)
    OBVIOUS
  <1>1. /\ \A v \in Workers \ {w} : /\ pc'[v] = pc[v] /\ Current(v)' = Current(v)
                                    /\ outcome'[v] = outcome[v]
        /\ pc'[w] # "recording"
    BY NextJobFrame DEF Current
  <1>2. \A v \in Workers \ {w} : pc[v] = "recording" => Current(v) # c
    BY RecordingAlone
  <1>3. ASSUME NEW e
        PROVE  /\ Recording(e)' <=> \E v \in Workers \ {w} : pc[v] = "recording" /\ Current(v) = e
               /\ RecordingOk(e)' <=> \E v \in Workers \ {w} :
                     pc[v] = "recording" /\ Current(v) = e /\ outcome[v] = "ok"
    BY <1>1 DEF Recording, RecordingOk
  <1>4. ~Recording(c)' /\ ~RecordingOk(c)'
    BY <1>2, <1>3
  <1> QED BY <1>3, <1>4 DEF SameRecording, Recording, RecordingOk

-------------------------------------------------------------------------------
(* The step                                                                *)

LEMMA CountStep ==
  TypeInv /\ BudgetInv /\ ExclusionInv /\ CountInv /\ [Next]_vars => CountInv'
  <1> SUFFICES ASSUME TypeInv, BudgetInv, ExclusionInv, CountInv, [Next]_vars
               PROVE  CountInv'
    OBVIOUS
  <1> USE OutboxAssumption
  <1>t. TypeOK
    BY DEF TypeInv
  <1>1. CASE UNCHANGED vars
    BY <1>1, QuietStep DEF vars, workerVars, history
  <1>2. ASSUME NEW e \in Emails, enqueue_email(e) PROVE CountInv'
    <2>1. \A f \in Emails : /\ outbox'[f].attempts = outbox[f].attempts
                            /\ outbox'[f].status = "sent" => outbox[f].status = "sent"
                            /\ outbox[f].status = "sent" => outbox'[f].status = "sent"
      BY <1>2, <1>t DEF enqueue_email, TypeOK, Row
    <2> QED BY <1>2, <2>1, QuietStep DEF enqueue_email, workerVars, history
  <1>3. ASSUME NEW w \in Workers, claim_batch(w) PROVE CountInv'
    BY <1>3, <1>t, QuietStep DEF claim_batch, history, TypeOK
  <1>4. ASSUME NEW w \in Workers, claim_commit(w) PROVE CountInv'
    <2>1. \A e \in Emails : /\ outbox'[e].attempts = outbox[e].attempts
                            /\ outbox'[e].status = "sent" => outbox[e].status = "sent"
                            /\ outbox[e].status = "sent" => outbox'[e].status = "sent"
      BY <1>4 DEF claim_commit, Processing, BudgetInv, ClaimedDeliverable
    <2> QED BY <1>4, <1>t, <2>1, QuietStep DEF claim_commit, history, TypeOK
  <1>5. ASSUME NEW w \in Workers, claim_rollback(w) \/ stop(w) \/ restart(w) PROVE CountInv'
    BY <1>5, <1>t, QuietStep DEF claim_rollback, stop, restart, ResetWorker, history, TypeOK
  <1>6. ASSUME NEW w \in Workers, request_shutdown(w) PROVE CountInv'
    BY <1>6, QuietStep DEF request_shutdown, workerVars, history
  <1>7. CASE Tick
    <2>1. \A e \in Emails : /\ outbox'[e].attempts = outbox[e].attempts
                            /\ outbox'[e].status = "sent" => outbox[e].status = "sent"
                            /\ outbox[e].status = "sent" => outbox'[e].status = "sent"
      BY <1>7 DEF Tick, Older
    <2> QED BY <1>7, <2>1, QuietStep DEF Tick, history
  <1>8. ASSUME NEW w \in Workers, send(w) PROVE CountInv'
    <2>1. PICK c : c = Current(w)
      OBVIOUS
    <2>2. /\ c \in Emails /\ outbox[c].status = "processing"
          /\ \A v \in Workers \ {w} : pc[v] = "recording" => Current(v) # c
      BY <1>8, <2>1, <1>t, RecordingAlone DEF send
    <2>3. /\ pc[w] = "sending" /\ pc' = [pc EXCEPT ![w] = "recording"]
          /\ tries' = [tries EXCEPT ![c] = @ + 1]
          /\ UNCHANGED <<outbox, lost>>
          /\ \A v \in Workers : Current(v)' = Current(v)
      BY <1>8, <2>1 DEF send, Current
    <2>4. /\ \A v \in Workers \ {w} : outcome'[v] = outcome[v] /\ pc'[v] = pc[v]
          /\ pc'[w] = "recording"
      BY <1>8, <1>t DEF send, TypeOK
    <2>5. \/ /\ accepted' = [accepted EXCEPT ![c] = @ + 1]
             /\ outcome'[w] = "ok" /\ unsure' = unsure
          \/ accepted' = accepted /\ unsure' = unsure
          \/ /\ accepted' = [accepted EXCEPT ![c] = @ + 1]
             /\ unsure' = [unsure EXCEPT ![c] = @ + 1]
      BY <1>8, <2>1, <1>t DEF send, TypeOK
    <2>6. \A e \in Emails \ {c} : SameRecording(e)
      BY <2>1, <2>3, <2>4 DEF SameRecording, Recording, RecordingOk
    <2>7. /\ ~Recording(c) /\ ~RecordingOk(c) /\ Recording(c)'
          /\ outcome'[w] = "ok" => RecordingOk(c)'
      BY <2>1, <2>2, <2>3, <2>4 DEF Recording, RecordingOk
    <2> SUFFICES ASSUME NEW e \in Emails
                 PROVE  (TriesExplained(e) /\ AcceptancesExplained(e) /\ AttemptsBounded(e))'
      BY DEF CountInv
    <2>8. TriesExplained(e) /\ AcceptancesExplained(e) /\ AttemptsBounded(e)
      BY DEF CountInv
    <2>9. AttemptsBounded(e)'
      BY <2>3, <2>8 DEF AttemptsBounded
    <2>10. CASE e # c
      <3>1. tries'[e] = tries[e] /\ accepted'[e] = accepted[e] /\ unsure'[e] = unsure[e]
        BY <2>3, <2>5, <2>10, <1>t DEF TypeOK
      <3>2. TriesExplained(e)'
        BY <3>1, <2>3, <2>6, <2>8, <2>10 DEF TriesExplained, SameRecording
      <3>3. AcceptancesExplained(e)'
        BY <3>1, <2>3, <2>6, <2>8, <2>10 DEF AcceptancesExplained, SameRecording
      <3> QED BY <2>9, <3>2, <3>3
    <2>11. CASE e = c
      <3>1. /\ tries'[e] = tries[e] + 1
            /\ \/ accepted'[e] = accepted[e] + 1 /\ unsure'[e] = unsure[e] /\ outcome'[w] = "ok"
               \/ accepted'[e] = accepted[e] /\ unsure'[e] = unsure[e]
               \/ accepted'[e] = accepted[e] + 1 /\ unsure'[e] = unsure[e] + 1
        BY <2>3, <2>5, <2>11, <1>t DEF TypeOK
      <3>2. TriesExplained(e)'
        BY <3>1, <2>2, <2>3, <2>7, <2>8, <2>11, <1>t, CountTypes DEF TriesExplained
      <3>3. AcceptancesExplained(e)'
        BY <3>1, <2>2, <2>3, <2>7, <2>8, <2>11, <1>t, CountTypes DEF AcceptancesExplained
      <3> QED BY <2>9, <3>2, <3>3
    <2> QED BY <2>10, <2>11
  \* A result is recorded or lost: worker w is done with row c.
  <1>9. ASSUME NEW w \in Workers, NEW c \in Emails,
               pc[w] = "recording", c = Current(w),
               ~Recording(c)', ~RecordingOk(c)',
               \A e \in Emails \ {c} :
                 /\ SameRecording(e)
                 /\ outbox'[e] = outbox[e] /\ lost'[e] = lost[e],
               UNCHANGED <<tries, accepted, unsure>>,
               \/ /\ outbox'[c] = outbox[c] /\ lost'[c] = lost[c] + 1
               \/ /\ lost'[c] = lost[c] /\ outcome[w] = "ok"
                  /\ outbox'[c] = mark_sent(outbox[c])
               \/ /\ lost'[c] = lost[c] /\ outcome[w] # "ok"
                  /\ outbox'[c] = record_failure(outbox[c])
        PROVE  CountInv'
    <2> SUFFICES ASSUME NEW e \in Emails
                 PROVE  (TriesExplained(e) /\ AcceptancesExplained(e) /\ AttemptsBounded(e))'
      BY DEF CountInv
    <2>1. TriesExplained(e) /\ AcceptancesExplained(e) /\ AttemptsBounded(e)
      BY DEF CountInv
    <2>2. CASE e # c
      BY <1>9, <2>1, <2>2
         DEF TriesExplained, AcceptancesExplained, AttemptsBounded, SameRecording
    <2>3. CASE e = c
      <3>1. /\ outbox[c].status = "processing" /\ outbox[c].attempts < MaxAttempts
            /\ Recording(c)
        BY <1>9, <1>t, RecordingAlone DEF Recording, BudgetInv, RetryBudget
      <3>2. outcome[w] # "ok" => ~RecordingOk(c)
        BY <1>9, <1>t, RecordingAlone DEF RecordingOk
      <3>3. \/ outbox'[c] = outbox[c] /\ lost'[c] = lost[c] + 1
            \/ /\ outbox'[c].status = "sent" /\ lost'[c] = lost[c]
               /\ outbox'[c].attempts = outbox[c].attempts
            \/ /\ outbox'[c].status # "sent" /\ lost'[c] = lost[c] /\ outcome[w] # "ok"
               /\ outbox'[c].attempts = outbox[c].attempts + 1
        BY <1>9 DEF mark_sent, record_failure, mark_retry, mark_failed
      <3>4. TriesExplained(c)'
        BY <1>9, <2>1, <2>3, <3>1, <3>3, <1>t, CountTypes DEF TriesExplained
      <3>5. AcceptancesExplained(c)'
        BY <1>9, <2>1, <2>3, <3>1, <3>2, <3>3, <1>t, CountTypes DEF AcceptancesExplained
      <3>6. AttemptsBounded(c)'
        BY <1>9, <2>1, <2>3, <3>1, <3>3, <1>t, CountTypes DEF AttemptsBounded
      <3> QED BY <2>3, <3>4, <3>5, <3>6
    <2> QED BY <2>2, <2>3
  <1>10. ASSUME NEW w \in Workers, record(w) \/ record_error(w) PROVE CountInv'
    <2>1. PICK c : c = Current(w)
      OBVIOUS
    <2>2. pc[w] = "recording" /\ NextJob(w) /\ UNCHANGED <<tries, accepted, unsure>>
      BY <1>10 DEF record, record_error, history
    <2>3. c \in Emails
      BY <2>1, <2>2, <1>t, CurrentRow
    <2>4. /\ ~Recording(c)' /\ ~RecordingOk(c)'
          /\ \A e \in Emails \ {c} : SameRecording(e)
      BY <2>1, <2>2, <2>3, <1>t, NextJobRecording
    <2>5. /\ \A e \in Emails \ {c} : outbox'[e] = outbox[e] /\ lost'[e] = lost[e]
          /\ \/ /\ outbox'[c] = outbox[c] /\ lost'[c] = lost[c] + 1
             \/ /\ lost'[c] = lost[c] /\ outcome[w] = "ok"
                /\ outbox'[c] = mark_sent(outbox[c])
             \/ /\ lost'[c] = lost[c] /\ outcome[w] # "ok"
                /\ outbox'[c] = record_failure(outbox[c])
      BY <1>10, <2>1, <2>3, <1>t DEF record, record_error, history, TypeOK
    <2> QED BY <1>9, <2>1, <2>2, <2>3, <2>4, <2>5
  <1>11. ASSUME NEW w \in Workers, crash(w) PROVE CountInv'
    <2>1. /\ pc'[w] = "down" /\ UNCHANGED <<outbox, tries, accepted, unsure>>
          /\ \A v \in Workers \ {w} :
               /\ pc'[v] = pc[v] /\ batch'[v] = batch[v]
               /\ pos'[v] = pos[v] /\ outcome'[v] = outcome[v]
      BY <1>11, <1>t DEF crash, ResetWorker, TypeOK
    <2>2. CASE pc[w] # "recording"
      BY <1>11, <2>1, <2>2, QuietStep DEF crash
    <2>3. CASE pc[w] = "recording"
      <3>1. PICK c : c = Current(w)
        OBVIOUS
      <3>2. /\ c \in Emails
            /\ \A v \in Workers \ {w} : pc[v] = "recording" => Current(v) # c
        BY <2>3, <3>1, <1>t, RecordingAlone
      <3>3. \A v \in Workers \ {w} : Current(v)' = Current(v)
        BY <2>1 DEF Current
      <3>4. /\ ~Recording(c)' /\ ~RecordingOk(c)'
            /\ \A e \in Emails \ {c} : SameRecording(e)
        BY <2>1, <3>1, <3>2, <3>3 DEF SameRecording, Recording, RecordingOk
      <3>5. lost'[c] = lost[c] + 1 /\ \A e \in Emails \ {c} : lost'[e] = lost[e]
        BY <1>11, <2>3, <3>1, <3>2, <1>t DEF crash, TypeOK
      <3> QED BY <1>9, <2>1, <2>3, <3>1, <3>2, <3>4, <3>5
    <2> QED BY <2>2, <2>3
  <1> QED BY <1>1, <1>2, <1>3, <1>4, <1>5, <1>6, <1>7, <1>8, <1>10, <1>11 DEF Next

LEMMA CountInit == Init => CountInv
  BY OutboxAssumption DEF Init, CountInv, TriesExplained, AcceptancesExplained,
                          AttemptsBounded, Recording, RecordingOk, NoRow

-------------------------------------------------------------------------------
(* Theorems                                                                *)

AllInv == TypeInv /\ BudgetInv /\ ExclusionInv /\ CountInv

LEMMA AllInvariant == ASSUME BatchFits PROVE Spec => []AllInv
  <1>1. BatchFits
    OBVIOUS
  <1>2. Init => AllInv
    BY TypeInvInit, BudgetInit, ExclusionInit, CountInit DEF AllInv
  <1>3. AllInv /\ [Next]_vars => AllInv'
    BY <1>1, TypeInvStep, BudgetStep, ExclusionStep, CountStep DEF AllInv
  <1> QED BY <1>2, <1>3, PTL DEF Spec

\* A row costs at most max_attempts send calls plus one per lost result
\* (record_failure, process_batch).
THEOREM TriesBounded == ASSUME BatchFits PROVE Spec => []BoundedTries
  <1>1. AllInv => BoundedTries
    <2> SUFFICES ASSUME AllInv, NEW e \in Emails
                 PROVE  tries[e] <= MaxAttempts + lost[e]
      BY DEF BoundedTries
    <2>t. TypeOK
      BY DEF AllInv, TypeInv
    <2>1. TriesExplained(e) /\ AttemptsBounded(e)
      BY DEF AllInv, CountInv
    <2>2. Recording(e) => outbox[e].attempts < MaxAttempts
      <3> SUFFICES ASSUME NEW w \in Workers, pc[w] = "recording", Current(w) = e
                   PROVE  outbox[e].attempts < MaxAttempts
        BY DEF Recording
      <3>1. outbox[e].status = "processing"
        BY <2>t, RecordingAlone DEF AllInv
      <3> QED BY <3>1 DEF AllInv, BudgetInv, RetryBudget
    <2> QED BY <2>1, <2>2, <2>t, CountTypes, OutboxAssumption
            DEF TriesExplained, AttemptsBounded
  <1> QED BY <1>1, AllInvariant, PTL

\* A recipient gets a message twice only if a result was lost or the mail
\* service took a message whose send call raised.
THEOREM DuplicatesAreExplained == ASSUME BatchFits PROVE Spec => []DuplicatesExplained
  <1>1. AllInv => DuplicatesExplained
    BY CountTypes DEF AllInv, TypeInv, CountInv, AcceptancesExplained, DuplicatesExplained
  <1> QED BY <1>1, AllInvariant, PTL

-------------------------------------------------------------------------------
(* Outbox implements Delivery                                              *)

\* The abstract state of a row: pending and processing are both "queued".
Abs(e) == IF outbox[e].status \in {"pending", "processing"}
          THEN "queued" ELSE outbox[e].status

\* A step that keeps every abstract state and the history is a stutter.
LEMMA SilentStep ==
  ASSUME TypeOK, UNCHANGED <<tries, accepted>>,
         \A e \in Emails : Abs(e)' = Abs(e)
  PROVE  UNCHANGED D!dvars
  BY DEF D!dvars, Abs

\* An abstract action on row c.
LEMMA StateChange ==
  ASSUME NEW c \in Emails, NEW s, Abs(c)' = s, Abs(c) # s,
         \A e \in Emails \ {c} : Abs(e)' = Abs(e)
  PROVE  [e \in Emails |-> Abs(e)]' = [[e \in Emails |-> Abs(e)] EXCEPT ![c] = s]
  <1>1. \A e \in Emails : Abs(e)' = IF e = c THEN s ELSE Abs(e)
    OBVIOUS
  <1> QED BY <1>1, Zenon

\* Every step of the workers is a step of the delivery contract or no step.
LEMMA DeliveryStep == AllInv /\ AllInv' /\ [Next]_vars => [D!DNext]_(D!dvars)
  <1> SUFFICES ASSUME AllInv, [Next]_vars PROVE [D!DNext]_(D!dvars)
    OBVIOUS
  <1> USE OutboxAssumption
  <1>t. TypeOK
    BY DEF AllInv, TypeInv
  <1>1. CASE UNCHANGED vars
    BY <1>1, <1>t, SilentStep DEF vars, history, Abs
  <1>2. ASSUME NEW c \in Emails, enqueue_email(c) PROVE D!Queue(c)
    <2>1. /\ Abs(c) = "absent" /\ Abs(c)' = "queued"
          /\ \A e \in Emails \ {c} : Abs(e)' = Abs(e)
          /\ UNCHANGED <<tries, accepted>>
      BY <1>2, <1>t DEF enqueue_email, history, Abs, TypeOK
    <2> QED BY <2>1, StateChange DEF D!Queue, Abs
  <1>3. ASSUME NEW w \in Workers,
               \/ claim_batch(w) \/ claim_rollback(w) \/ record_error(w)
               \/ request_shutdown(w) \/ stop(w) \/ crash(w) \/ restart(w)
        PROVE  UNCHANGED D!dvars
    BY <1>3, <1>t, SilentStep
       DEF claim_batch, claim_rollback, record_error, request_shutdown, stop, crash,
           restart, history, Abs
  <1>4. ASSUME NEW w \in Workers, claim_commit(w) PROVE UNCHANGED D!dvars
    <2>1. \A e \in Emails : Abs(e)' = Abs(e)
      BY <1>4 DEF claim_commit, Processing, Abs, AllInv, BudgetInv, ClaimedDeliverable
    <2> QED BY <1>4, <1>t, <2>1, SilentStep DEF claim_commit, history
  <1>5. CASE Tick
    <2>1. \A e \in Emails : Abs(e)' = Abs(e)
      BY <1>5 DEF Tick, Older, Abs
    <2> QED BY <1>5, <1>t, <2>1, SilentStep DEF Tick, history
  <1>6. ASSUME NEW w \in Workers, send(w) PROVE \E c \in Emails : D!HandOver(c)
    <2>1. PICK c : c = Current(w)
      OBVIOUS
    <2>2. c \in Emails /\ Abs(c) = "queued"
      BY <1>6, <2>1, <1>t, RecordingAlone DEF send, AllInv, Abs
    <2>3. /\ tries' = [tries EXCEPT ![c] = @ + 1] /\ UNCHANGED outbox
          /\ accepted' = accepted \/ accepted' = [accepted EXCEPT ![c] = @ + 1]
      BY <1>6, <2>1 DEF send
    <2>4. \E b \in BOOLEAN :
            [e \in Emails |-> accepted'[e] > 0]
              = [[e \in Emails |-> accepted[e] > 0] EXCEPT ![c] = (accepted[c] > 0) \/ b]
      <3>1. CASE accepted' = accepted
        <4> WITNESS FALSE \in BOOLEAN
        <4> QED BY <3>1, <2>2
      <3>2. CASE accepted' = [accepted EXCEPT ![c] = @ + 1]
        <4>1. \A e \in Emails : (accepted'[e] > 0) =
                                 IF e = c THEN (accepted[c] > 0) \/ TRUE ELSE accepted[e] > 0
          BY <3>2, <2>2, <1>t DEF TypeOK
        <4> WITNESS TRUE \in BOOLEAN
        <4> QED BY <4>1, <2>2, Zenon
      <3> QED BY <2>3, <3>1, <3>2
    <2>5. D!HandOver(c)
      BY <2>2, <2>3, <2>4 DEF D!HandOver, Abs
    <2> QED BY <2>2, <2>5
  <1>7. ASSUME NEW w \in Workers, record(w)
        PROVE  UNCHANGED D!dvars \/ \E c \in Emails : D!SettleSent(c) \/ D!GiveUp(c)
    <2>1. PICK c : c = Current(w)
      OBVIOUS
    <2>2. /\ c \in Emails /\ outbox[c].status = "processing" /\ Abs(c) = "queued"
      BY <1>7, <2>1, <1>t, RecordingAlone DEF record, AllInv, Abs
    <2>3. /\ outbox' = [outbox EXCEPT ![c] =
                          IF outcome[w] = "ok" THEN mark_sent(outbox[c])
                                               ELSE record_failure(outbox[c])]
          /\ pc[w] = "recording" /\ UNCHANGED <<tries, accepted>>
      BY <1>7, <2>1 DEF record, history
    <2>4. \A e \in Emails \ {c} : Abs(e)' = Abs(e)
      BY <2>2, <2>3, <1>t DEF Abs, TypeOK
    <2>5. CASE outcome[w] = "ok"
      <3>1. accepted[c] > 0
        BY <2>1, <2>2, <2>3, <2>5, <1>t DEF AllInv, BudgetInv, OkWasAccepted, TypeOK
      <3>2. Abs(c)' = "sent"
        BY <2>2, <2>3, <2>5, <1>t DEF Abs, mark_sent, TypeOK
      <3>3. D!SettleSent(c)
        BY <2>2, <2>3, <2>4, <3>1, <3>2, StateChange DEF D!SettleSent, Abs
      <3> QED BY <2>2, <3>3
    <2>6. CASE outcome[w] # "ok" /\ outbox[c].attempts + 1 >= MaxAttempts
      <3>1. Abs(c)' = "failed"
        BY <2>2, <2>3, <2>6, <1>t DEF Abs, record_failure, mark_failed, TypeOK
      <3>2. tries[c] >= MaxAttempts
        <4>1. TriesExplained(c) /\ Recording(c)
          BY <2>1, <2>2, <2>3 DEF AllInv, CountInv, Recording
        <4> QED BY <4>1, <2>2, <2>6, <1>t, CountTypes DEF TriesExplained
      <3>3. D!GiveUp(c)
        BY <2>2, <2>3, <2>4, <3>1, <3>2, StateChange DEF D!GiveUp, Abs
      <3> QED BY <2>2, <3>3
    <2>7. CASE outcome[w] # "ok" /\ ~(outbox[c].attempts + 1 >= MaxAttempts)
      <3>1. Abs(c)' = "queued"
        BY <2>2, <2>3, <2>7, <1>t DEF Abs, record_failure, mark_retry, TypeOK
      <3>2. \A e \in Emails : Abs(e)' = Abs(e)
        BY <3>1, <2>2, <2>4
      <3> QED BY <3>2, <2>3, <1>t, SilentStep
    <2> QED BY <2>5, <2>6, <2>7
  <1> QED BY <1>1, <1>2, <1>3, <1>4, <1>5, <1>6, <1>7 DEF Next, D!DNext

\* When a batch fits into the stale window the outbox keeps the promise of
\* Delivery.tla: settled rows stay settled, `sent` follows acceptance and
\* `failed` follows max_attempts send calls.
THEOREM OutboxImplementsDelivery == ASSUME BatchFits PROVE Spec => ImplementsDelivery
  <1>1. Init => D!DInit
    <2> SUFFICES ASSUME Init PROVE D!DInit
      OBVIOUS
    <2>1. tries = [e \in Emails |-> 0]
      BY DEF Init
    <2>2. \A e \in Emails : outbox[e].status = "absent" /\ (accepted[e] > 0) = FALSE
      BY DEF Init, NoRow
    <2> QED BY <2>1, <2>2 DEF D!DInit
  <1>2. Spec => []AllInv
    BY AllInvariant
  <1> QED BY <1>1, <1>2, DeliveryStep, PTL DEF Spec, ImplementsDelivery, D!DSpec
===============================================================================

-------------------------------- MODULE Outbox --------------------------------
(***************************************************************************)
(* The Postgres-backed e-mail outbox and the worker processes that drain   *)
(* it: app/worker.py, app/repositories/outbox_repository.py,               *)
(* app/services/outbox_service.py and the senders of app/core/email.py.    *)
(*                                                                         *)
(* Time is relative.  A row keeps `wait`, the ticks from now until its     *)
(* next_attempt_at (negative once overdue, floored at -Horizon), and       *)
(* `age`, the ticks since its locked_at (capped at StaleAfter, beyond      *)
(* which the code no longer tells ages apart).  Database transactions are  *)
(* short and take no tick; sending does.                                   *)
(***************************************************************************)
EXTENDS Integers, Sequences, FiniteSets

CONSTANTS Emails,       \* ids of the outbox rows that may be enqueued
          Workers,      \* worker processes (python -m app.worker)
          BatchSize,    \* settings.OUTBOX_BATCH_SIZE
          MaxAttempts,  \* settings.OUTBOX_MAX_ATTEMPTS
          RetryBase,    \* settings.OUTBOX_RETRY_BASE_SECONDS
          MaxBackoff,   \* MAX_BACKOFF_SECONDS
          StaleAfter,   \* STALE_PROCESSING_AFTER
          SendTimeout,  \* SMTP_TIMEOUT_SECONDS / BREVO_TIMEOUT_SECONDS
          Punctual,     \* TRUE: a send call returns within SendTimeout
          MaxFaults,    \* bound on crashes and failed transactions
          MaxStops,     \* bound on SIGTERM / SIGINT deliveries
          Horizon       \* how long overdue rows are told apart

ASSUME OutboxAssumption ==
  /\ BatchSize \in Nat \ {0}
  /\ MaxAttempts \in Nat \ {0}
  /\ RetryBase \in Nat
  /\ MaxBackoff \in Nat
  /\ StaleAfter \in Nat \ {0}
  /\ SendTimeout \in Nat
  /\ Punctual \in BOOLEAN
  /\ MaxFaults \in Nat
  /\ MaxStops \in Nat
  /\ Horizon \in Nat

VARIABLES outbox,    \* the email_outbox table
          pc,        \* where each worker is in run / process_batch
          batch,     \* the jobs of the worker's current batch
          pos,       \* index of the job being delivered
          outcome,   \* what sender.send reported for that job
          elapsed,   \* ticks spent in the current send call
          shutdown,  \* the worker's _shutdown flag
          faults, stops,          \* used up of MaxFaults and MaxStops
          tries, accepted,        \* history: send calls, messages taken
          lost, unsure            \* history: results never recorded, replies lost

workerVars == <<pc, batch, pos, outcome, elapsed>>
history    == <<tries, accepted, lost, unsure>>
vars == <<outbox, workerVars, shutdown, faults, stops, history>>

OutboxStatus == {"pending", "processing", "sent", "failed"}

Row == [status   : OutboxStatus \union {"absent"},
        attempts : Nat,
        wait     : Int,
        age      : 0..StaleAfter]

NoRow == [status |-> "absent", attempts |-> 0, wait |-> 0, age |-> 0]

Init == /\ outbox = [e \in Emails |-> NoRow]
        /\ pc = [w \in Workers |-> "idle"]
        /\ batch = [w \in Workers |-> << >>]
        /\ pos = [w \in Workers |-> 1]
        /\ outcome = [w \in Workers |-> "none"]
        /\ elapsed = [w \in Workers |-> 0]
        /\ shutdown = [w \in Workers |-> FALSE]
        /\ faults = 0
        /\ stops = 0
        /\ tries = [e \in Emails |-> 0]
        /\ accepted = [e \in Emails |-> 0]
        /\ lost = [e \in Emails |-> 0]
        /\ unsure = [e \in Emails |-> 0]

-------------------------------------------------------------------------------
(* Rows: outbox_repository.py                                              *)

LeastOf(m, n) == IF m <= n THEN m ELSE n

compute_backoff_seconds(attempts) ==
  LET exponent == IF attempts >= 1 THEN attempts - 1 ELSE 0
  IN  LeastOf(RetryBase * 2^exponent, MaxBackoff)

\* sent_at, last_error and updated_at are not modelled; locked_at is cleared.
mark_sent(row) ==
  [status |-> "sent", attempts |-> row.attempts, wait |-> row.wait, age |-> 0]

mark_retry(row) ==
  [status   |-> "pending",
   attempts |-> row.attempts + 1,
   wait     |-> compute_backoff_seconds(row.attempts + 1),
   age      |-> 0]

mark_failed(row) ==
  [status |-> "failed", attempts |-> row.attempts + 1, wait |-> row.wait, age |-> 0]

\* The slip of testing attempts itself instead of attempts + 1.
record_failure_late(row) ==
  IF row.attempts >= MaxAttempts THEN mark_failed(row) ELSE mark_retry(row)

record_failure(row) ==
  IF row.attempts + 1 >= MaxAttempts THEN mark_failed(row) ELSE mark_retry(row)

\* The job is in the caller's transaction: it appears with the caller's
\* commit, due at once (server default now()).
enqueue_email(e) ==
  /\ outbox[e].status = "absent"
  /\ outbox' = [outbox EXCEPT ![e].status = "pending"]
  /\ UNCHANGED <<workerVars, shutdown, faults, stops, history>>

-------------------------------------------------------------------------------
(* One iteration of the worker: claim a batch, deliver it job by job.      *)

BatchRows(w) == {batch[w][i] : i \in DOMAIN batch[w]}

\* Row locks are held by a claim from its SELECT ... FOR UPDATE to its commit.
Locked(e) == \E w \in Workers : pc[w] = "claiming" /\ e \in BatchRows(w)

\* Only pending rows: rows of a crashed worker are never reclaimed.
ClaimablePendingOnly(e) ==
  /\ outbox[e].wait <= 0
  /\ outbox[e].status = "pending"

Claimable(e) ==
  /\ outbox[e].wait <= 0
  /\ \/ outbox[e].status = "pending"
     \/ outbox[e].status = "processing" /\ outbox[e].age >= StaleAfter

\* The lists `ORDER BY next_attempt_at, id LIMIT limit` may return from S; ids
\* are random UUIDs, so rows due at the same time come in either order.
Selections(S, limit) ==
  {q \in UNION {[1..n -> S] : n \in 1..limit} :
     /\ \A i, j \in DOMAIN q : i # j => q[i] # q[j]
     /\ \A i, j \in DOMAIN q : i < j => outbox[q[i]].wait <= outbox[q[j]].wait
     /\ \A e \in S : \/ \E i \in DOMAIN q : q[i] = e
                     \/ /\ Len(q) = limit
                        /\ \A i \in DOMAIN q : outbox[q[i]].wait <= outbox[e].wait}

\* A claim whose SELECT takes no row locks and sees rows others are claiming.
claim_batch_unlocked(w) ==
  /\ pc[w] = "idle" /\ ~shutdown[w]
  /\ \E q \in Selections({e \in Emails : Claimable(e)}, BatchSize) :
       batch' = [batch EXCEPT ![w] = q]
  /\ pc' = [pc EXCEPT ![w] = "claiming"]
  /\ UNCHANGED <<outbox, pos, outcome, elapsed, shutdown, faults, stops, history>>

\* SELECT ... FOR UPDATE SKIP LOCKED.  A claim that finds nothing leaves
\* everything as it was and the loop sleeps.
claim_batch(w) ==
  /\ pc[w] = "idle" /\ ~shutdown[w]
  /\ \E q \in Selections({e \in Emails : Claimable(e) /\ ~Locked(e)}, BatchSize) :
       batch' = [batch EXCEPT ![w] = q]
  /\ pc' = [pc EXCEPT ![w] = "claiming"]
  /\ UNCHANGED <<outbox, pos, outcome, elapsed, shutdown, faults, stops, history>>

\* Committed as `processing`, locked_at is now.
Processing(row) ==
  [status |-> "processing", attempts |-> row.attempts, wait |-> row.wait, age |-> 0]

claim_commit(w) ==
  /\ pc[w] = "claiming"
  /\ outbox' = [e \in Emails |->
                  IF e \in BatchRows(w) THEN Processing(outbox[e]) ELSE outbox[e]]
  /\ pc' = [pc EXCEPT ![w] = "sending"]
  /\ UNCHANGED <<batch, pos, outcome, elapsed, shutdown, faults, stops, history>>

ResetWorker(w) ==
  /\ batch' = [batch EXCEPT ![w] = << >>]
  /\ pos' = [pos EXCEPT ![w] = 1]
  /\ outcome' = [outcome EXCEPT ![w] = "none"]
  /\ elapsed' = [elapsed EXCEPT ![w] = 0]

\* The claim's transaction fails: rolled back, logged, and the loop goes on.
claim_rollback(w) ==
  /\ pc[w] = "claiming"
  /\ faults < MaxFaults
  /\ faults' = faults + 1
  /\ pc' = [pc EXCEPT ![w] = "idle"]
  /\ ResetWorker(w)
  /\ UNCHANGED <<outbox, shutdown, stops, history>>

Current(w) == batch[w][pos[w]]

\* sender.send returns, raises before the mail service took the message, or
\* raises (a timeout, say) although the mail service took it.
send(w) ==
  /\ pc[w] = "sending"
  /\ tries' = [tries EXCEPT ![Current(w)] = @ + 1]
  /\ \/ /\ accepted' = [accepted EXCEPT ![Current(w)] = @ + 1]
        /\ outcome' = [outcome EXCEPT ![w] = "ok"]
        /\ UNCHANGED unsure
     \/ /\ outcome' = [outcome EXCEPT ![w] = "error"]
        /\ UNCHANGED <<accepted, unsure>>
     \/ /\ accepted' = [accepted EXCEPT ![Current(w)] = @ + 1]
        /\ unsure' = [unsure EXCEPT ![Current(w)] = @ + 1]
        /\ outcome' = [outcome EXCEPT ![w] = "error"]
  /\ pc' = [pc EXCEPT ![w] = "recording"]
  /\ UNCHANGED <<outbox, batch, pos, elapsed, shutdown, faults, stops, lost>>

\* A batch loop that also looks at _shutdown.
NextJobUnlessShutdown(w) ==
  IF pos[w] = Len(batch[w]) \/ shutdown[w]
  THEN pc' = [pc EXCEPT ![w] = "idle"] /\ ResetWorker(w)
  ELSE /\ pc' = [pc EXCEPT ![w] = "sending"]
       /\ pos' = [pos EXCEPT ![w] = @ + 1]
       /\ outcome' = [outcome EXCEPT ![w] = "none"]
       /\ elapsed' = [elapsed EXCEPT ![w] = 0]
       /\ UNCHANGED batch

\* A batch loop that runs one job past the end.
NextJobPastEnd(w) ==
  IF pos[w] > Len(batch[w])
  THEN pc' = [pc EXCEPT ![w] = "idle"] /\ ResetWorker(w)
  ELSE /\ pc' = [pc EXCEPT ![w] = "sending"]
       /\ pos' = [pos EXCEPT ![w] = @ + 1]
       /\ outcome' = [outcome EXCEPT ![w] = "none"]
       /\ elapsed' = [elapsed EXCEPT ![w] = 0]
       /\ UNCHANGED batch

\* The `for job in jobs` loop: on to the next job, or back to run().
NextJob(w) ==
  IF pos[w] = Len(batch[w])
  THEN pc' = [pc EXCEPT ![w] = "idle"] /\ ResetWorker(w)
  ELSE /\ pc' = [pc EXCEPT ![w] = "sending"]
       /\ pos' = [pos EXCEPT ![w] = @ + 1]
       /\ outcome' = [outcome EXCEPT ![w] = "none"]
       /\ elapsed' = [elapsed EXCEPT ![w] = 0]
       /\ UNCHANGED batch

\* The result of a failed send is taken for a delivery.
record_as_sent(w) ==
  /\ pc[w] = "recording"
  /\ ~Locked(Current(w))
  /\ outbox' = [outbox EXCEPT ![Current(w)] = mark_sent(@)]
  /\ NextJob(w)
  /\ UNCHANGED <<shutdown, faults, stops, history>>

\* Only failures are written back.
record_only_failures(w) ==
  /\ pc[w] = "recording"
  /\ ~Locked(Current(w))
  /\ outbox' = IF outcome[w] = "ok" THEN outbox
               ELSE [outbox EXCEPT ![Current(w)] = record_failure(@)]
  /\ NextJob(w)
  /\ UNCHANGED <<shutdown, faults, stops, history>>

\* _record: get_for_update waits for a claim that holds the row, then the
\* result is written whatever the row says by now.
record(w) ==
  /\ pc[w] = "recording"
  /\ ~Locked(Current(w))
  /\ outbox' = [outbox EXCEPT ![Current(w)] =
                  IF outcome[w] = "ok" THEN mark_sent(@) ELSE record_failure(@)]
  /\ NextJob(w)
  /\ UNCHANGED <<shutdown, faults, stops, history>>

\* _record raises: the row stays `processing`, the batch goes on.
record_error(w) ==
  /\ pc[w] = "recording"
  /\ faults < MaxFaults
  /\ faults' = faults + 1
  /\ lost' = [lost EXCEPT ![Current(w)] = @ + 1]
  /\ NextJob(w)
  /\ UNCHANGED <<outbox, shutdown, stops, tries, accepted, unsure>>

-------------------------------------------------------------------------------
(* Signals, crashes, restarts and time.                                    *)

Running(w) == pc[w] \notin {"down", "stopped"}

request_shutdown(w) ==
  /\ Running(w)
  /\ ~shutdown[w]
  /\ stops < MaxStops
  /\ stops' = stops + 1
  /\ shutdown' = [shutdown EXCEPT ![w] = TRUE]
  /\ UNCHANGED <<outbox, workerVars, faults, history>>

\* `while not _shutdown` ends between two batches.
stop(w) ==
  /\ pc[w] = "idle"
  /\ shutdown[w]
  /\ pc' = [pc EXCEPT ![w] = "stopped"]
  /\ UNCHANGED <<outbox, batch, pos, outcome, elapsed, shutdown, faults, stops, history>>

\* The process dies; an open transaction is rolled back.
crash(w) ==
  /\ Running(w)
  /\ faults < MaxFaults
  /\ faults' = faults + 1
  /\ lost' = IF pc[w] = "recording"
             THEN [lost EXCEPT ![Current(w)] = @ + 1] ELSE lost
  /\ pc' = [pc EXCEPT ![w] = "down"]
  /\ ResetWorker(w)
  /\ shutdown' = [shutdown EXCEPT ![w] = FALSE]
  /\ UNCHANGED <<outbox, stops, tries, accepted, unsure>>

\* docker-compose.yml: restart: unless-stopped.
restart(w) ==
  /\ pc[w] = "down"
  /\ pc' = [pc EXCEPT ![w] = "idle"]
  /\ UNCHANGED <<outbox, batch, pos, outcome, elapsed, shutdown, faults, stops, history>>

Older(row) ==
  [status   |-> row.status,
   attempts |-> row.attempts,
   wait     |-> IF row.wait > -Horizon THEN row.wait - 1 ELSE row.wait,
   age      |-> IF row.status = "processing" /\ row.age < StaleAfter
                THEN row.age + 1 ELSE row.age]

\* A worker may take its time over a send call only as long as the timeout
\* allows when the workers are punctual.
Tick ==
  /\ \A w \in Workers :
       /\ pc[w] # "claiming"
       /\ Punctual => /\ pc[w] # "recording"
                      /\ pc[w] = "sending" => elapsed[w] < SendTimeout
  /\ outbox' = [e \in Emails |->
                  IF outbox[e].status \in {"pending", "processing"}
                  THEN Older(outbox[e]) ELSE outbox[e]]
  /\ elapsed' = [w \in Workers |->
                   IF pc[w] = "sending" /\ elapsed[w] < SendTimeout
                   THEN elapsed[w] + 1 ELSE elapsed[w]]
  /\ UNCHANGED <<pc, batch, pos, outcome, shutdown, faults, stops, history>>

WorkerStep(w) == \/ claim_batch(w) \/ claim_commit(w)
                 \/ send(w) \/ record(w) \/ stop(w) \/ restart(w)

Next == \/ \E e \in Emails : enqueue_email(e)
        \/ \E w \in Workers :
             \/ claim_batch(w) \/ claim_commit(w) \/ claim_rollback(w)
             \/ send(w) \/ record(w) \/ record_error(w)
             \/ request_shutdown(w) \/ stop(w) \/ crash(w) \/ restart(w)
        \/ Tick

Spec == Init /\ [][Next]_vars

\* run() loops for ever and docker restarts a worker that died; time passes.
FairSpec == Spec /\ WF_vars(Tick) /\ \A w \in Workers : WF_vars(WorkerStep(w))

-------------------------------------------------------------------------------
(* Properties                                                              *)

Phases == {"idle", "claiming", "sending", "recording", "down", "stopped"}

\* The row and worker fields keep their types; a worker in the middle of a
\* batch stands on one of its jobs.
TypeOK ==
  /\ outbox \in [Emails -> Row]
  /\ pc \in [Workers -> Phases]
  /\ batch \in [Workers -> Seq(Emails)]
  /\ pos \in [Workers -> Nat \ {0}]
  /\ outcome \in [Workers -> {"none", "ok", "error"}]
  /\ elapsed \in [Workers -> 0..SendTimeout]
  /\ shutdown \in [Workers -> BOOLEAN]
  /\ faults \in 0..MaxFaults
  /\ stops \in 0..MaxStops
  /\ tries \in [Emails -> Nat]
  /\ accepted \in [Emails -> Nat]
  /\ lost \in [Emails -> Nat]
  /\ unsure \in [Emails -> Nat]
  /\ \A w \in Workers : pc[w] \in {"claiming", "sending", "recording"}
                          => pos[w] <= Len(batch[w])

\* The jobs a worker has claimed and not yet recorded.
Held(w) == IF pc[w] \in {"sending", "recording"}
           THEN {batch[w][i] : i \in pos[w]..Len(batch[w])} ELSE {}

\* Every send call is punctual and a whole batch of them ends before the first
\* of its rows counts as stale.
BatchFits == Punctual /\ SendTimeout * BatchSize < StaleAfter

\* "SKIP LOCKED so workers never collide" (OutboxRepository.claim_batch): no
\* two workers ever hold the same claimed row.
WorkersNeverCollide ==
  \A v, w \in Workers : v # w => Held(v) \cap Held(w) = {}

\* A row that may still be delivered has attempts left, and a row is failed
\* only when they are used up (record_failure), however late a result arrives.
RetryBudget ==
  \A e \in Emails :
    /\ outbox[e].status \in {"pending", "processing"} => outbox[e].attempts < MaxAttempts
    /\ outbox[e].status = "failed" => outbox[e].attempts >= MaxAttempts

\* A row says `sent` only if the mail service took the message at least once.
SentWasAccepted ==
  \A e \in Emails : outbox[e].status = "sent" => accepted[e] >= 1

\* Without crashes and database errors, every `processing` row is in some
\* running worker's hands: a graceful shutdown abandons no claimed row.
ProcessingIsHeld ==
  faults = 0 =>
    \A e \in Emails : outbox[e].status = "processing"
                        => \E w \in Workers : e \in Held(w)

\* A row costs at most MaxAttempts send calls plus one for every result that
\* a crash or a failed _record lost.
BoundedTries ==
  \A e \in Emails : tries[e] <= MaxAttempts + lost[e]

\* A recipient gets the message twice only if a result was lost or the mail
\* service took a message whose send call raised.
DuplicatesExplained ==
  \A e \in Emails : accepted[e] <= 1 + lost[e] + unsure[e]

\* Every row that is waiting is eventually settled, crashes included.
EventuallySettled ==
  \A e \in Emails : outbox[e].status \in {"pending", "processing"}
                      ~> outbox[e].status \in {"sent", "failed"}

\* Delivery, with pending and processing rows both counted as queued.
D == INSTANCE Delivery WITH
       state <- [e \in Emails |->
                   IF outbox[e].status \in {"pending", "processing"}
                   THEN "queued" ELSE outbox[e].status],
       tries <- tries,
       taken <- [e \in Emails |-> accepted[e] > 0]

\* Punctual workers implement the delivery contract of Delivery.tla: settled
\* rows stay settled, `sent` follows acceptance, `failed` follows MaxAttempts
\* hand-overs.
ImplementsDelivery == D!DSpec
===============================================================================

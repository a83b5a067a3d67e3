--------------------------- MODULE WebhookDelivery ---------------------------
(***************************************************************************)
(* Outgoing deliveries of one webhook.  An event becomes a row of          *)
(* webhook_deliveries; the delivery worker of every instance polls the due *)
(* rows, and for each of them takes a lock (Redis mode only), asks the     *)
(* circuit breaker, consumes throughput, calls the endpoint and saves the  *)
(* outcome, all from the copy of the row it read when it polled.           *)
(*                                                                         *)
(* The circuit breaker lives in wacraft-core: it is modelled from its use  *)
(* here and from the table of its states in the repository's webhook doc.  *)
(***************************************************************************)
EXTENDS Integers, FiniteSets, Sequences

CONSTANTS
    Instance,          \* server processes on one database
    Delivery,          \* rows of webhook_deliveries
    None,
    MaxAttempts,       \* max_retries + 1
    BatchSize,         \* rows fetched per poll
    PoolSize,          \* jobs an instance runs at once
    FailureThreshold,  \* consecutive failures that open the circuit
    UseLock,           \* SYNC_BACKEND=redis
    LiveLockExpires,   \* the lock's TTL may pass while its holder is at work
    MaxFaults          \* bound on crashes, shutdowns and failed saves

ASSUME DeliveryAssumption ==
    /\ None \notin Instance
    /\ MaxAttempts \in Nat \ {0} /\ FailureThreshold \in Nat \ {0}
    /\ BatchSize \in Nat \ {0} /\ PoolSize \in Nat \ {0}
    /\ UseLock \in BOOLEAN /\ LiveLockExpires \in BOOLEAN
    /\ MaxFaults \in Nat

VARIABLES
    row,       \* delivery -> its status and attempt_count
    due,       \* deliveries with next_attempt_at <= now, oldest first
    breaker,   \* the webhook's circuit state and failure count
    lock,      \* delivery -> instance holding its lock
    worker,    \* instance -> up, stopping or down
    job,       \* instance -> delivery -> where processDelivery is
    copy,      \* instance -> delivery -> attempt_count when it was fetched
    answer,    \* instance -> delivery -> whether the attempt succeeded
    calls,     \* delivery -> requests made to the endpoint
    lost,      \* delivery -> attempts whose outcome was never saved
    faults      \* how many crashes, shutdowns and failed saves so far

db   == <<row, due>>
jobs == <<job, copy, answer>>
vars == <<db, breaker, lock, worker, jobs, calls, lost, faults>>

Open == {"pending", "attempted"}
Final == {"succeeded", "dead_letter"}

Stage == {"none", "queued", "locked", "admitted", "calling", "answered",
          "recorded", "leaving"}

-----------------------------------------------------------------------------
Started(i) == {d \in Delivery : job[i][d] \notin {"none", "queued"}}

\* Between the decision to make an attempt and the end of its update.
Attempting(i, d) == job[i][d] \in {"calling", "answered", "recorded"}

Goto(i, d, from, to) ==
    job[i][d] = from /\ job' = [job EXCEPT ![i][d] = to]

Without(d) == SelectSeq(due, LAMBDA e : e # d)

Init ==
    /\ row = [d \in Delivery |-> [status |-> "none", attempts |-> 0]]
    /\ due = <<>>
    /\ breaker = [state |-> "closed", failures |-> 0]
    /\ lock = [d \in Delivery |-> None]
    /\ worker = [i \in Instance |-> "up"]
    /\ job = [i \in Instance |-> [d \in Delivery |-> "none"]]
    /\ copy = [i \in Instance |-> [d \in Delivery |-> 0]]
    /\ answer = [i \in Instance |-> [d \in Delivery |-> FALSE]]
    /\ calls = [d \in Delivery |-> 0]
    /\ lost = [d \in Delivery |-> 0]
    /\ faults = 0

(***************************************************************************)
(* The circuit breaker and the clock.                                      *)
(***************************************************************************)
RecordSuccess == breaker' = [state |-> "closed", failures |-> 0]

RecordFailure ==
    LET n == IF breaker.failures < FailureThreshold THEN breaker.failures + 1
                                                    ELSE FailureThreshold
    IN  breaker' = [state |-> IF breaker.state # "closed" \/ n = FailureThreshold
                              THEN "open" ELSE "closed",
                    failures |-> n]

RecoveryTimeout ==
    /\ breaker.state = "open"
    /\ breaker' = [breaker EXCEPT !.state = "half_open"]
    /\ UNCHANGED <<db, lock, worker, jobs, calls, lost, faults>>

\* The back-off of d has passed.
BackoffEnds(d) ==
    /\ row[d].status = "attempted" /\ ~\E k \in DOMAIN due : due[k] = d
    /\ due' = Append(due, d)
    /\ UNCHANGED <<row, breaker, lock, worker, jobs, calls, lost, faults>>

\* Mutant: an event that is enqueued again overwrites its row.
EnqueueAgain(d) ==
    /\ breaker.state # "open"
    /\ row' = [row EXCEPT ![d] = [status |-> "pending", attempts |-> 0]]
    /\ due' = Append(SelectSeq(due, LAMBDA e : e # d), d)
    /\ UNCHANGED <<breaker, lock, worker, jobs, calls, lost, faults>>

(***************************************************************************)
(* EnqueueDelivery.  While the circuit is open the event is dropped, and   *)
(* no row exists.                                                          *)
(***************************************************************************)
Enqueue(d) ==
    /\ row[d].status = "none" /\ breaker.state # "open"
    /\ row' = [row EXCEPT ![d] = [status |-> "pending", attempts |-> 0]]
    /\ due' = Append(due, d)
    /\ UNCHANGED <<breaker, lock, worker, jobs, calls, lost, faults>>

(***************************************************************************)
(* The worker of instance i.                                               *)
(***************************************************************************)
\* Mutant: only first attempts are selected.
SelectableFirst(d) == row[d].status = "pending"

Selectable(d) == row[d].status \in Open

\* The first rows in the order of next_attempt_at.
Batch ==
    {d \in Delivery : /\ Selectable(d)
                      /\ \E k \in 1..Len(due) : k <= BatchSize /\ due[k] = d}

\* A poll: the jobs of the previous one are all finished, and the oldest due
\* rows are copied into memory.
Fetch(i) ==
    /\ worker[i] = "up" /\ Batch # {}
    /\ \A d \in Delivery : job[i][d] = "none"
    /\ job' = [job EXCEPT ![i] = [d \in Delivery |->
                 IF d \in Batch THEN "queued" ELSE "none"]]
    /\ copy' = [copy EXCEPT ![i] = [d \in Delivery |->
                  IF d \in Batch THEN row[d].attempts ELSE 0]]
    /\ UNCHANGED <<db, breaker, lock, worker, answer, calls, lost, faults>>

\* Mutant: the result of TryLock is ignored.
LockIgnored(i, d) ==
    /\ Goto(i, d, "queued", "locked")
    /\ Cardinality(Started(i)) < PoolSize
    /\ lock' = IF UseLock THEN [lock EXCEPT ![d] = i] ELSE lock
    /\ UNCHANGED <<db, breaker, worker, copy, answer, calls, lost, faults>>

\* A goroutine of the pool starts on d: TryLock, if there is a lock at all.
Lock(i, d) ==
    /\ Goto(i, d, "queued", "locked")
    /\ Cardinality(Started(i)) < PoolSize
    /\ UseLock => lock[d] = None
    /\ lock' = IF UseLock THEN [lock EXCEPT ![d] = i] ELSE lock
    /\ UNCHANGED <<db, breaker, worker, copy, answer, calls, lost, faults>>

\* The lock is held, or Redis reports an error: the delivery is skipped.
Skip(i, d) ==
    /\ UseLock /\ Cardinality(Started(i)) < PoolSize
    /\ Goto(i, d, "queued", "none")
    /\ copy' = [copy EXCEPT ![i][d] = 0]
    /\ UNCHANGED <<db, breaker, lock, worker, answer, calls, lost, faults>>

\* The circuit lets the delivery through (in half_open, as its test).
Admit(i, d) ==
    /\ Goto(i, d, "locked", "admitted") /\ breaker.state # "open"
    /\ UNCHANGED <<db, breaker, lock, worker, copy, answer, calls, lost, faults>>

\* The circuit is open, its test is under way, or it cannot be read: no update.
Refuse(i, d) ==
    /\ Goto(i, d, "locked", "leaving")
    /\ UNCHANGED <<db, breaker, lock, worker, copy, answer, calls, lost, faults>>

\* The workspace is over its throughput: a failed attempt, without a request.
QuotaExceeded(i, d) ==
    /\ Goto(i, d, "admitted", "recorded")
    /\ answer' = [answer EXCEPT ![i][d] = FALSE]
    /\ UNCHANGED <<db, breaker, lock, worker, copy, calls, lost, faults>>

\* executeWebhook: the request leaves.
Execute(i, d) ==
    /\ Goto(i, d, "admitted", "calling")
    /\ calls' = [calls EXCEPT ![d] = @ + 1]
    /\ UNCHANGED <<db, breaker, lock, worker, copy, answer, lost, faults>>

\* A 2xx answer; or another status, an error, or the timeout.
Answer(i, d, ok) ==
    /\ Goto(i, d, "calling", "answered")
    /\ answer' = [answer EXCEPT ![i][d] = ok]
    /\ UNCHANGED <<db, breaker, lock, worker, copy, calls, lost, faults>>

\* The log entry is written or only reported as failed (webhook_logs is not
\* modelled), then the circuit breaker is told.
Record(i, d) ==
    /\ Goto(i, d, "answered", "recorded")
    /\ IF answer[i][d] THEN RecordSuccess ELSE RecordFailure
    /\ UNCHANGED <<db, lock, worker, copy, answer, calls, lost, faults>>

\* Mutant: the limit is noticed one attempt late.
UpdatedLate(n, ok) ==
    [attempts |-> n + 1,
     status |-> IF ok THEN "succeeded"
                ELSE IF n + 1 > MaxAttempts THEN "dead_letter"
                ELSE "attempted"]

\* What UpdateDeliveryStatus makes of a copy with n attempts.
Updated(n, ok) ==
    [attempts |-> n + 1,
     status |-> IF ok THEN "succeeded"
                ELSE IF n + 1 >= MaxAttempts THEN "dead_letter"
                ELSE "attempted"]

\* DB.Save writes the whole copy over the row, whatever is there by now.
Save(i, d) ==
    /\ Goto(i, d, "recorded", "leaving")
    /\ row' = [row EXCEPT ![d] = Updated(copy[i][d], answer[i][d])]
    /\ due' = Without(d)
    /\ UNCHANGED <<breaker, lock, worker, copy, answer, calls, lost, faults>>

\* The update fails: it is only logged.
SaveFails(i, d) ==
    /\ faults < MaxFaults /\ faults' = faults + 1
    /\ Goto(i, d, "recorded", "leaving")
    /\ lost' = [lost EXCEPT ![d] = @ + 1]
    /\ UNCHANGED <<db, breaker, lock, worker, copy, answer, calls>>

\* Only the holder's Unlock deletes the key; the local variables are gone.
Unlock(i, d) ==
    /\ Goto(i, d, "leaving", "none")
    /\ lock' = IF lock[d] = i THEN [lock EXCEPT ![d] = None] ELSE lock
    /\ copy' = [copy EXCEPT ![i][d] = 0]
    /\ answer' = [answer EXCEPT ![i][d] = FALSE]
    /\ UNCHANGED <<db, breaker, worker, calls, lost, faults>>

(***************************************************************************)
(* Shutdown, crash, and the lock's TTL.                                    *)
(***************************************************************************)
\* Stop cancels the context: queued jobs return at once, started ones finish.
Stop(i) ==
    /\ worker[i] = "up" /\ faults < MaxFaults
    /\ faults' = faults + 1
    /\ worker' = [worker EXCEPT ![i] = "stopping"]
    /\ job' = [job EXCEPT ![i] = [d \in Delivery |->
                 IF job[i][d] = "queued" THEN "none" ELSE job[i][d]]]
    /\ copy' = [copy EXCEPT ![i] = [d \in Delivery |->
                  IF job[i][d] = "queued" THEN 0 ELSE copy[i][d]]]
    /\ UNCHANGED <<db, breaker, lock, answer, calls, lost>>

Exit(i) ==
    /\ worker[i] = "stopping" /\ Started(i) = {}
    /\ worker' = [worker EXCEPT ![i] = "down"]
    /\ UNCHANGED <<db, breaker, lock, jobs, calls, lost, faults>>

\* The process dies; its locks stay until their TTL.
Crash(i) ==
    /\ worker[i] # "down" /\ faults < MaxFaults
    /\ faults' = faults + 1
    /\ worker' = [worker EXCEPT ![i] = "down"]
    /\ lost' = [d \in Delivery |-> IF Attempting(i, d) THEN lost[d] + 1
                                                       ELSE lost[d]]
    /\ job' = [job EXCEPT ![i] = [d \in Delivery |-> "none"]]
    /\ copy' = [copy EXCEPT ![i] = [d \in Delivery |-> 0]]
    /\ answer' = [answer EXCEPT ![i] = [d \in Delivery |-> FALSE]]
    /\ UNCHANGED <<db, breaker, lock, calls>>

Restart(i) ==
    /\ worker[i] = "down" /\ worker' = [worker EXCEPT ![i] = "up"]
    /\ UNCHANGED <<db, breaker, lock, jobs, calls, lost, faults>>

LockExpires(d) ==
    /\ lock[d] # None
    /\ LiveLockExpires \/ job[lock[d]][d] \in {"none", "queued"}
    /\ lock' = [lock EXCEPT ![d] = None]
    /\ UNCHANGED <<db, breaker, worker, jobs, calls, lost, faults>>

-----------------------------------------------------------------------------
JobStep(i, d) ==
    \/ Lock(i, d) \/ Skip(i, d) \/ Admit(i, d) \/ Refuse(i, d)
    \/ QuotaExceeded(i, d) \/ Execute(i, d)
    \/ \E ok \in BOOLEAN : Answer(i, d, ok)
    \/ Record(i, d) \/ Save(i, d) \/ SaveFails(i, d) \/ Unlock(i, d)

Next ==
    \/ RecoveryTimeout
    \/ \E d \in Delivery : Enqueue(d) \/ BackoffEnds(d) \/ LockExpires(d)
    \/ \E i \in Instance : Fetch(i) \/ Stop(i) \/ Exit(i) \/ Crash(i) \/ Restart(i)
    \/ \E i \in Instance, d \in Delivery : JobStep(i, d)

Spec == Init /\ [][Next]_vars

\* Time passes, a stopped process is started again, the calls a job makes
\* return, and a lock or a circuit that is tried for ever lets a job through.
Fairness ==
    /\ WF_vars(RecoveryTimeout)
    /\ \A d \in Delivery : WF_vars(BackoffEnds(d)) /\ WF_vars(LockExpires(d))
    /\ \A i \in Instance :
         /\ SF_vars(Fetch(i)) /\ WF_vars(Exit(i)) /\ WF_vars(Restart(i))
         /\ \A d \in Delivery :
              /\ WF_vars(JobStep(i, d))
              /\ SF_vars(Lock(i, d)) /\ SF_vars(Admit(i, d))

FairSpec == Spec /\ Fairness

-----------------------------------------------------------------------------
TypeOK ==
    /\ row \in [Delivery -> [status : {"none"} \cup Open \cup Final,
                             attempts : 0..MaxAttempts]]
    /\ due \in Seq(Delivery)
    /\ breaker \in [state : {"closed", "open", "half_open"},
                    failures : 0..FailureThreshold]
    /\ lock \in [Delivery -> Instance \cup {None}]
    /\ worker \in [Instance -> {"up", "stopping", "down"}]
    /\ job \in [Instance -> [Delivery -> Stage]]
    /\ copy \in [Instance -> [Delivery -> 0..MaxAttempts]]
    /\ answer \in [Instance -> [Delivery -> BOOLEAN]]
    /\ calls \in [Delivery -> Nat]
    /\ lost \in [Delivery -> Nat]
    /\ faults \in 0..MaxFaults

\* With one instance, a delivery that succeeded or ended in the dead letters
\* is never touched again: no retry, crash or shutdown revives it.
FinalIsFinal ==
    [][\A d \in Delivery :
         row[d].status \in Final => row'[d] = row[d]]_vars

\* With one instance, the endpoint is called at most max_retries + 1 times for
\* a delivery, plus once for every attempt whose outcome was never saved.
RetryBudget ==
    \A d \in Delivery : calls[d] <= MaxAttempts + lost[d]

\* What is known of the attempt under way on d.
Reached(i, d) == job[i][d] \in {"answered", "recorded"}
Outcome(d) ==
    CASE \E i \in Instance : job[i][d] = "calling" -> "waiting"
      [] \E i \in Instance : Reached(i, d) /\ answer[i][d] -> "yes"
      [] \E i \in Instance : Reached(i, d) /\ ~answer[i][d] -> "no"
      [] OTHER -> "idle"

\* One instance keeps what the owner of the webhook is promised, whatever it
\* does about polls, pools, circuits, locks, shutdowns and crashes.
Promise == INSTANCE WebhookPromise WITH outcome <- [d \in Delivery |-> Outcome(d)]
KeepsPromise == Promise!Spec

\* With the lock, two instances are never at work on the same delivery.
OneExecutor ==
    \A i, j \in Instance, d \in Delivery :
        d \in Started(i) /\ d \in Started(j) => i = j

\* A retry is still owed to every delivery that is neither finished nor being
\* worked on: its counter, the instances' copies of it included, never
\* reaches the limit while it is open.
OpenHasBudget ==
    \A d \in Delivery :
        /\ row[d].status \in Open => row[d].attempts < MaxAttempts
        /\ row[d].status = "dead_letter" => row[d].attempts = MaxAttempts
        /\ \A i \in Instance : job[i][d] # "none" => copy[i][d] < MaxAttempts

\* Every delivery that was enqueued is settled, through open circuits,
\* exhausted quotas, crashes and a full batch.
DeliveryResolves ==
    \A d \in Delivery : row[d].status \in Open ~> row[d].status \in Final

\* requirements.md, FR-9: each pending delivery is processed by exactly one
\* instance; delivery_worker_test.go: a late worker is harmless because
\* "idempotency is handled at the DB layer in production".
OnlyOpenIsExecuted ==
    [][\A i \in Instance, d \in Delivery :
         Execute(i, d) => row[d].status \in Open]_vars
=============================================================================

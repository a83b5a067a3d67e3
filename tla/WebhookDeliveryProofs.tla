------------------------ MODULE WebhookDeliveryProofs ------------------------
(***************************************************************************)
(* What WebhookDelivery promises for every set of instances and            *)
(* deliveries, every batch and pool size and every retry limit:            *)
(*   - an open delivery has retries left (EveryOpenHasBudget);             *)
(*   - with the lock, and as long as it outlives the work done under it,   *)
(*     two instances never work on one delivery (LockExcludes);            *)
(*   - with one instance, a settled delivery stays as it is and the        *)
(*     endpoint gets a bounded number of requests (SettledStays,           *)
(*     RequestsAreBounded).                                                *)
(***************************************************************************)
EXTENDS WebhookDelivery, TLAPS

\* Which parts of the state have which type: all that the arguments need.
DataOK ==
    /\ row \in [Delivery -> [status : {"none"} \cup Open \cup Final,
                             attempts : 0..MaxAttempts]]
    /\ lock \in [Delivery -> Instance \cup {None}]
    /\ job \in [Instance -> [Delivery -> Stage]]
    /\ copy \in [Instance -> [Delivery -> 0..MaxAttempts]]
    /\ answer \in [Instance -> [Delivery -> BOOLEAN]]
    /\ calls \in [Delivery -> Nat] /\ lost \in [Delivery -> Nat]

\* An attempt is only under way for a copy with retries left, so what Save
\* writes stays within the limit.
BudgetInv == DataOK /\ OpenHasBudget

LEMMA UpdatedType ==
  ASSUME NEW n \in 0..MaxAttempts, n < MaxAttempts, NEW ok \in BOOLEAN
  PROVE  /\ Updated(n, ok) \in [status : {"none"} \cup Open \cup Final,
                                attempts : 0..MaxAttempts]
         /\ Updated(n, ok).status \in Open => Updated(n, ok).attempts < MaxAttempts
         /\ Updated(n, ok).status = "dead_letter"
              => Updated(n, ok).attempts = MaxAttempts
         /\ Updated(n, ok).attempts = n + 1
<1>0. MaxAttempts \in Nat
  BY DeliveryAssumption
<1>1. CASE ok
  BY <1>0, <1>1 DEF Updated, Open, Final
<1>2. CASE ~ok /\ n + 1 >= MaxAttempts
  BY <1>0, <1>2 DEF Updated, Open, Final
<1>3. CASE ~ok /\ ~(n + 1 >= MaxAttempts)
  BY <1>0, <1>3 DEF Updated, Open, Final
<1> QED
  BY <1>1, <1>2, <1>3

LEMMA InitBudget == Init => BudgetInv
  BY DeliveryAssumption
     DEF Init, BudgetInv, DataOK, OpenHasBudget, Open, Final, Stage

LEMMA NextBudget == BudgetInv /\ [Next]_vars => BudgetInv'
<1> SUFFICES ASSUME BudgetInv, [Next]_vars PROVE BudgetInv'
  OBVIOUS
<1> USE DEF BudgetInv
<1>0. MaxAttempts \in Nat \ {0}
  BY DeliveryAssumption
<1>1. CASE UNCHANGED vars
  BY <1>1 DEF vars, db, jobs, DataOK, OpenHasBudget
<1>2. CASE RecoveryTimeout
  BY <1>2 DEF RecoveryTimeout, db, jobs, DataOK, OpenHasBudget
<1>3. ASSUME NEW d \in Delivery, Enqueue(d) PROVE BudgetInv'
  <2>1. DataOK'
    BY <1>0, <1>3 DEF Enqueue, jobs, DataOK, Open
  <2>2. OpenHasBudget'
    BY <1>0, <1>3 DEF Enqueue, jobs, DataOK, OpenHasBudget
  <2> QED BY <2>1, <2>2
<1>4. ASSUME NEW d \in Delivery, BackoffEnds(d) \/ LockExpires(d)
      PROVE BudgetInv'
  BY <1>4 DEF BackoffEnds, LockExpires, db, jobs, DataOK, OpenHasBudget
<1>5. ASSUME NEW i \in Instance, Fetch(i) PROVE BudgetInv'
  <2>1. DataOK'
    BY <1>0, <1>5 DEF Fetch, db, DataOK, Stage
  <2>2. \A d \in Batch : row[d].status \in Open
    BY DEF Batch, Selectable
  <2>3. OpenHasBudget'
    BY <1>0, <1>5, <2>2 DEF Fetch, db, DataOK, OpenHasBudget
  <2> QED BY <2>1, <2>3
<1>6. ASSUME NEW i \in Instance, Stop(i) PROVE BudgetInv'
  <2>1. DataOK'
    BY <1>0, <1>6 DEF Stop, db, DataOK, Stage
  <2>2. OpenHasBudget'
    BY <1>0, <1>6 DEF Stop, db, DataOK, OpenHasBudget
  <2> QED BY <2>1, <2>2
<1>7. ASSUME NEW i \in Instance, Exit(i) \/ Restart(i) PROVE BudgetInv'
  BY <1>7 DEF Exit, Restart, db, jobs, DataOK, OpenHasBudget
<1>8. ASSUME NEW i \in Instance, Crash(i) PROVE BudgetInv'
  <2>1. DataOK'
    <3>1. lost' \in [Delivery -> Nat]
      BY <1>8 DEF Crash, DataOK
    <3>2. answer' \in [Instance -> [Delivery -> BOOLEAN]]
      BY <1>8, Zenon DEF Crash, DataOK
    <3> QED
      BY <1>0, <1>8, <3>1, <3>2 DEF Crash, db, DataOK, Stage
  <2>2. OpenHasBudget'
    BY <1>0, <1>8 DEF Crash, db, DataOK, OpenHasBudget
  <2> QED BY <2>1, <2>2
<1>9. ASSUME NEW i \in Instance, NEW d \in Delivery, JobStep(i, d)
      PROVE BudgetInv'
  <2>1. CASE Lock(i, d)
    BY <2>1 DEF Lock, Goto, db, DataOK, OpenHasBudget, Stage
  <2>2. CASE Skip(i, d)
    BY <1>0, <2>2 DEF Skip, Goto, db, DataOK, OpenHasBudget, Stage
  <2>3. CASE Admit(i, d)
    BY <2>3 DEF Admit, Goto, db, DataOK, OpenHasBudget, Stage
  <2>11. CASE Refuse(i, d)
    BY <2>11 DEF Refuse, Goto, db, DataOK, OpenHasBudget, Stage
  <2>4. CASE QuotaExceeded(i, d)
    <3>1. answer' \in [Instance -> [Delivery -> BOOLEAN]]
      BY <2>4, Zenon DEF QuotaExceeded, DataOK
    <3> QED
      BY <2>4, <3>1 DEF QuotaExceeded, Goto, db, DataOK, OpenHasBudget, Stage
  <2>5. CASE Execute(i, d)
    BY <2>5 DEF Execute, Goto, db, DataOK, OpenHasBudget, Stage
  <2>6. ASSUME NEW ok \in BOOLEAN, Answer(i, d, ok) PROVE BudgetInv'
    <3>1. answer' \in [Instance -> [Delivery -> BOOLEAN]]
      BY <2>6, Zenon DEF Answer, DataOK
    <3> QED
      BY <2>6, <3>1 DEF Answer, Goto, db, DataOK, OpenHasBudget, Stage
  <2>7. CASE Record(i, d)
    BY <2>7 DEF Record, Goto, db, DataOK, OpenHasBudget, Stage
  <2>8. CASE Save(i, d)
    <3>1. copy[i][d] \in 0..MaxAttempts /\ copy[i][d] < MaxAttempts
      BY <2>8 DEF Save, Goto, DataOK, OpenHasBudget
    <3>2. answer[i][d] \in BOOLEAN
      BY DEF DataOK
    <3> DEFINE new == Updated(copy[i][d], answer[i][d])
    <3>3. /\ new \in [status : {"none"} \cup Open \cup Final,
                      attempts : 0..MaxAttempts]
          /\ new.status \in Open => new.attempts < MaxAttempts
          /\ new.status = "dead_letter" => new.attempts = MaxAttempts
      BY <3>1, <3>2, UpdatedType
    <3>4. /\ row' = [row EXCEPT ![d] = new]
          /\ UNCHANGED <<lock, copy, answer, calls, lost>>
      BY <2>8 DEF Save
    <3>5. job' = [job EXCEPT ![i][d] = "leaving"] /\ job[i][d] = "recorded"
      BY <2>8 DEF Save, Goto
    <3> HIDE DEF new
    <3>6. DataOK'
      BY <3>3, <3>4, <3>5 DEF DataOK, Stage
    <3>7. OpenHasBudget'
      BY <3>3, <3>4, <3>5 DEF DataOK, OpenHasBudget
    <3> QED BY <3>6, <3>7
  <2>9. CASE SaveFails(i, d)
    BY <2>9 DEF SaveFails, Goto, db, DataOK, OpenHasBudget, Stage
  <2>10. CASE Unlock(i, d)
    <3>1. answer' \in [Instance -> [Delivery -> BOOLEAN]]
      BY <2>10, Zenon DEF Unlock, DataOK
    <3> QED
      BY <1>0, <2>10, <3>1 DEF Unlock, Goto, db, DataOK, OpenHasBudget, Stage
  <2> QED
    BY <1>9, <2>1, <2>2, <2>3, <2>4, <2>5, <2>6, <2>7, <2>8, <2>9, <2>10,
       <2>11 DEF JobStep
<1> QED
  BY <1>1, <1>2, <1>3, <1>4, <1>5, <1>6, <1>7, <1>8, <1>9 DEF Next

\* An open delivery, and every copy of it that is being worked on, has a
\* retry left, and the dead letters have used all of theirs: with any number
\* of instances, lock or no lock.
THEOREM EveryOpenHasBudget == Spec => []OpenHasBudget
<1>1. BudgetInv => OpenHasBudget
  BY DEF BudgetInv
<1> QED
  BY <1>1, InitBudget, NextBudget, PTL DEF Spec

-----------------------------------------------------------------------------
\* Whoever works on a delivery holds its lock.
LockInv ==
    \A i \in Instance, d \in Delivery :
        job[i][d] \notin {"none", "queued"} => lock[d] = i

\* With a lock that is kept while its holder is at work, at most one instance
\* works on a delivery at any time.
THEOREM LockExcludes ==
  ASSUME UseLock, ~LiveLockExpires
  PROVE  Spec => []OneExecutor
<1>1. Init => LockInv
  BY DEF Init, LockInv
<1>2. BudgetInv /\ LockInv /\ [Next]_vars => LockInv'
  <2> SUFFICES ASSUME DataOK, LockInv, [Next]_vars PROVE LockInv'
    BY DEF BudgetInv
  <2>1. CASE UNCHANGED vars
    BY <2>1 DEF vars, jobs, LockInv
  <2>2. CASE RecoveryTimeout
    BY <2>2 DEF RecoveryTimeout, jobs, LockInv
  <2>3. ASSUME NEW d \in Delivery, Enqueue(d) \/ BackoffEnds(d) PROVE LockInv'
    BY <2>3 DEF Enqueue, BackoffEnds, jobs, LockInv
  <2>4. ASSUME NEW d \in Delivery, LockExpires(d) PROVE LockInv'
    <3>1. lock[d] \in Instance /\ job[lock[d]][d] \in {"none", "queued"}
      BY <2>4 DEF LockExpires, DataOK
    <3> QED
      BY <2>4, <3>1 DEF LockExpires, jobs, LockInv, DataOK
  <2>5. ASSUME NEW i \in Instance, Fetch(i) PROVE LockInv'
    BY <2>5 DEF Fetch, LockInv, DataOK
  <2>6. ASSUME NEW i \in Instance, Stop(i) PROVE LockInv'
    BY <2>6 DEF Stop, LockInv, DataOK
  <2>7. ASSUME NEW i \in Instance, Exit(i) \/ Restart(i) PROVE LockInv'
    BY <2>7 DEF Exit, Restart, jobs, LockInv
  <2>8. ASSUME NEW i \in Instance, Crash(i) PROVE LockInv'
    BY <2>8 DEF Crash, LockInv, DataOK
  <2>9. ASSUME NEW i \in Instance, NEW d \in Delivery, JobStep(i, d)
        PROVE LockInv'
    <3>1. CASE Lock(i, d)
      <4>1. lock[d] = None /\ lock' = [lock EXCEPT ![d] = i]
        BY <3>1 DEF Lock
      <4>2. \A j \in Instance : job[j][d] \in {"none", "queued"}
        BY <4>1, DeliveryAssumption DEF LockInv
      <4> QED
        BY <3>1, <4>1, <4>2 DEF Lock, Goto, LockInv, DataOK
    <3>2. CASE Skip(i, d)
      BY <3>2 DEF Skip, Goto, LockInv, DataOK
    <3>3. CASE Admit(i, d)
      BY <3>3 DEF Admit, Goto, LockInv, DataOK
    <3>4. CASE Refuse(i, d)
      BY <3>4 DEF Refuse, Goto, LockInv, DataOK
    <3>5. CASE QuotaExceeded(i, d)
      BY <3>5 DEF QuotaExceeded, Goto, LockInv, DataOK
    <3>6. CASE Execute(i, d)
      BY <3>6 DEF Execute, Goto, LockInv, DataOK
    <3>7. CASE \E ok \in BOOLEAN : Answer(i, d, ok)
      BY <3>7 DEF Answer, Goto, LockInv, DataOK
    <3>8. CASE Record(i, d)
      BY <3>8 DEF Record, Goto, LockInv, DataOK
    <3>9. CASE Save(i, d)
      BY <3>9 DEF Save, Goto, LockInv, DataOK
    <3>11. CASE SaveFails(i, d)
      BY <3>11 DEF SaveFails, Goto, LockInv, DataOK
    <3>10. CASE Unlock(i, d)
      <4>1. job[i][d] = "leaving" /\ job' = [job EXCEPT ![i][d] = "none"]
        BY <3>10 DEF Unlock, Goto
      <4>2. lock[d] = i /\ lock' = [lock EXCEPT ![d] = None]
        BY <3>10, <4>1 DEF Unlock, LockInv
      <4>3. \A j \in Instance \ {i} : job[j][d] \in {"none", "queued"}
        BY <4>2 DEF LockInv
      <4>4. lock'[d] = None /\ \A e \in Delivery \ {d} : lock'[e] = lock[e]
        BY <4>2 DEF DataOK
      <4>5. /\ job'[i][d] = "none"
            /\ \A j \in Instance, e \in Delivery :
                 j # i \/ e # d => job'[j][e] = job[j][e]
        BY <4>1 DEF DataOK
      <4> QED
        BY <4>3, <4>4, <4>5 DEF LockInv
    <3> QED
      BY <2>9, <3>1, <3>2, <3>3, <3>4, <3>5, <3>6, <3>7, <3>8, <3>9, <3>10,
         <3>11 DEF JobStep
  <2> QED
    BY <2>1, <2>2, <2>3, <2>4, <2>5, <2>6, <2>7, <2>8, <2>9 DEF Next
<1>3. LockInv => OneExecutor
  BY DEF LockInv, OneExecutor, Started
<1> QED
  BY <1>1, <1>2, <1>3, InitBudget, NextBudget, PTL DEF Spec

-----------------------------------------------------------------------------
\* With one instance a copy is never stale, and every request made is either
\* counted in the row, lost, or of the attempt under way.
CopyInv ==
    \A i \in Instance, d \in Delivery :
        job[i][d] \notin {"none", "leaving"} =>
            row[d].status \in Open /\ copy[i][d] = row[d].attempts

CallsInv ==
    \A i \in Instance, d \in Delivery :
        /\ row[d].status = "none" => row[d].attempts = 0
        /\ calls[d] <= row[d].attempts + lost[d]
                         + (IF Attempting(i, d) THEN 1 ELSE 0)

SoloInv == BudgetInv /\ CopyInv /\ CallsInv

LEMMA InitSolo == Init => SoloInv
<1>1. Init => CopyInv
  BY DEF Init, CopyInv
<1>2. Init => CallsInv
  BY DEF Init, CallsInv
<1> QED
  BY <1>1, <1>2, InitBudget DEF SoloInv

LEMMA NextSolo ==
  ASSUME NEW i \in Instance, Instance = {i}
  PROVE  SoloInv /\ [Next]_vars => SoloInv'
<1> SUFFICES ASSUME BudgetInv, DataOK, CopyInv, CallsInv, BudgetInv', DataOK',
                    [Next]_vars
             PROVE  CopyInv' /\ CallsInv'
  BY NextBudget DEF SoloInv, BudgetInv
<1> USE DEF Attempting
<1>1. CASE UNCHANGED vars
  BY <1>1 DEF vars, db, jobs, CopyInv, CallsInv
<1>2. CASE RecoveryTimeout
  BY <1>2 DEF RecoveryTimeout, db, jobs, CopyInv, CallsInv
<1>3. ASSUME NEW d \in Delivery, Enqueue(d) PROVE CopyInv' /\ CallsInv'
  <2>1. row' = [row EXCEPT ![d] = [status |-> "pending", attempts |-> 0]]
        /\ row[d].status = "none" /\ UNCHANGED <<jobs, calls, lost>>
    BY <1>3 DEF Enqueue
  <2>2. job[i][d] \in {"none", "leaving"}
    BY <2>1 DEF CopyInv, Open
  <2>3. CopyInv'
    BY <2>1, <2>2 DEF jobs, CopyInv, DataOK
  <2>4. CallsInv'
    BY <2>1 DEF jobs, CallsInv, DataOK
  <2> QED BY <2>3, <2>4
<1>4. ASSUME NEW d \in Delivery, BackoffEnds(d) \/ LockExpires(d)
      PROVE CopyInv' /\ CallsInv'
  BY <1>4 DEF BackoffEnds, LockExpires, db, jobs, CopyInv, CallsInv
<1>5. CASE Fetch(i)
  <2>1. \A d \in Batch : row[d].status \in Open
    BY DEF Batch, Selectable
  <2>2. CopyInv'
    BY <1>5, <2>1 DEF Fetch, db, CopyInv, DataOK
  <2>3. CallsInv'
    BY <1>5 DEF Fetch, db, CallsInv, DataOK
  <2> QED BY <2>2, <2>3
<1>6. CASE Stop(i)
  <2>1. CopyInv'
    BY <1>6 DEF Stop, db, CopyInv, DataOK
  <2>2. CallsInv'
    BY <1>6 DEF Stop, db, CallsInv, DataOK
  <2> QED BY <2>1, <2>2
<1>7. CASE Exit(i) \/ Restart(i)
  BY <1>7 DEF Exit, Restart, db, jobs, CopyInv, CallsInv
<1>8. CASE Crash(i)
  <2>1. CopyInv'
    BY <1>8 DEF Crash, db, CopyInv, DataOK
  <2>2. CallsInv'
    BY <1>8 DEF Crash, db, CallsInv, DataOK
  <2> QED BY <2>1, <2>2
<1>9. ASSUME NEW d \in Delivery, JobStep(i, d) PROVE CopyInv' /\ CallsInv'
  <2>1. CASE Lock(i, d)
    BY <2>1 DEF Lock, Goto, db, CopyInv, CallsInv, DataOK
  <2>2. CASE Skip(i, d)
    BY <2>2 DEF Skip, Goto, db, CopyInv, CallsInv, DataOK
  <2>3. CASE Admit(i, d)
    BY <2>3 DEF Admit, Goto, db, CopyInv, CallsInv, DataOK
  <2>4. CASE Refuse(i, d)
    BY <2>4 DEF Refuse, Goto, db, CopyInv, CallsInv, DataOK
  <2>5. CASE QuotaExceeded(i, d)
    BY <2>5 DEF QuotaExceeded, Goto, db, CopyInv, CallsInv, DataOK
  <2>6. CASE Execute(i, d)
    BY <2>6 DEF Execute, Goto, db, CopyInv, CallsInv, DataOK
  <2>7. CASE \E ok \in BOOLEAN : Answer(i, d, ok)
    BY <2>7 DEF Answer, Goto, db, CopyInv, CallsInv, DataOK
  <2>8. CASE Record(i, d)
    BY <2>8 DEF Record, Goto, db, CopyInv, CallsInv, DataOK
  <2>9. CASE Save(i, d)
    <3> DEFINE new == Updated(copy[i][d], answer[i][d])
    <3>1. row' = [row EXCEPT ![d] = new] /\ UNCHANGED <<copy, calls, lost>>
      BY <2>9 DEF Save
    <3>2. job[i][d] = "recorded" /\ job' = [job EXCEPT ![i][d] = "leaving"]
      BY <2>9 DEF Save, Goto
    <3>3. new.attempts = row[d].attempts + 1 /\ new.status # "none"
      BY <3>2 DEF Updated, CopyInv
    <3> HIDE DEF new
    <3>4. CopyInv'
      BY <3>1, <3>2, <3>3 DEF CopyInv, DataOK
    <3>5. CallsInv'
      BY <3>1, <3>2, <3>3 DEF CallsInv, DataOK
    <3> QED BY <3>4, <3>5
  <2>10. CASE SaveFails(i, d)
    BY <2>10 DEF SaveFails, Goto, db, CopyInv, CallsInv, DataOK
  <2>11. CASE Unlock(i, d)
    BY <2>11 DEF Unlock, Goto, db, CopyInv, CallsInv, DataOK
  <2> QED
    BY <1>9, <2>1, <2>2, <2>3, <2>4, <2>5, <2>6, <2>7, <2>8, <2>9, <2>10,
       <2>11 DEF JobStep
<1> QED
  BY <1>1, <1>2, <1>3, <1>4, <1>5, <1>6, <1>7, <1>8, <1>9 DEF Next

\* With one instance, the endpoint gets at most max_retries + 1 requests for a
\* delivery, plus one for each attempt whose outcome was lost.
THEOREM RequestsAreBounded ==
  ASSUME NEW i \in Instance, Instance = {i}
  PROVE  Spec => []RetryBudget
<1>1. SoloInv => RetryBudget
  <2> SUFFICES ASSUME SoloInv, NEW d \in Delivery
               PROVE  calls[d] <= MaxAttempts + lost[d]
    BY DEF RetryBudget
  <2>1. calls[d] <= row[d].attempts + lost[d]
                     + (IF Attempting(i, d) THEN 1 ELSE 0)
    BY DEF SoloInv, CallsInv
  <2>2. /\ row[d].attempts \in 0..MaxAttempts /\ calls[d] \in Nat
        /\ lost[d] \in Nat /\ MaxAttempts \in Nat
    BY DeliveryAssumption DEF SoloInv, BudgetInv, DataOK
  <2>3. Attempting(i, d) => row[d].attempts < MaxAttempts
    BY DEF SoloInv, BudgetInv, OpenHasBudget, CopyInv, Attempting
  <2> QED
    BY <2>1, <2>2, <2>3
<1> QED
  BY <1>1, InitSolo, NextSolo, PTL DEF Spec

\* With one instance, what is settled stays settled.
THEOREM SettledStays ==
  ASSUME NEW i \in Instance, Instance = {i}
  PROVE  Spec => FinalIsFinal
<1>1. SoloInv /\ [Next]_vars =>
        [\A d \in Delivery : row[d].status \in Final => row'[d] = row[d]]_vars
  <2> SUFFICES ASSUME DataOK, CopyInv, Next, NEW e \in Delivery,
                      row[e].status \in Final
               PROVE  row'[e] = row[e]
    BY DEF SoloInv, BudgetInv
  <2>1. ASSUME NEW d \in Delivery, Enqueue(d) PROVE row'[e] = row[e]
    BY <2>1 DEF Enqueue, Final, DataOK
  <2>2. ASSUME NEW d \in Delivery, JobStep(i, d) PROVE row'[e] = row[e]
    <3>1. CASE Save(i, d)
      BY <3>1 DEF Save, Goto, CopyInv, Open, Final, DataOK
    <3> QED
      BY <2>2, <3>1 DEF JobStep, Lock, Skip, Admit, Refuse, QuotaExceeded,
         Execute, Answer, Record, SaveFails, Unlock, db
  <2> QED
    BY <2>1, <2>2 DEF Next, RecoveryTimeout, BackoffEnds, LockExpires, Fetch,
       Stop, Exit, Crash, Restart, db
<1> QED
  BY <1>1, InitSolo, NextSolo, PTL DEF Spec, FinalIsFinal

-----------------------------------------------------------------------------
\* With one instance the outcome of an attempt is what its one job knows.
LEMMA OutcomeOfJob ==
  ASSUME NEW i \in Instance, Instance = {i}, NEW d \in Delivery
  PROVE  /\ job[i][d] = "calling" => Outcome(d) = "waiting"
         /\ Reached(i, d) /\ answer[i][d] => Outcome(d) = "yes"
         /\ Reached(i, d) /\ ~answer[i][d] => Outcome(d) = "no"
         /\ ~Attempting(i, d) => Outcome(d) = "idle"
  BY DEF Outcome, Reached, Attempting

LEMMA OutcomeOfJobNext ==
  ASSUME NEW i \in Instance, Instance = {i}, NEW d \in Delivery
  PROVE  /\ job'[i][d] = "calling" => Outcome(d)' = "waiting"
         /\ Reached(i, d)' /\ answer'[i][d] => Outcome(d)' = "yes"
         /\ Reached(i, d)' /\ ~answer'[i][d] => Outcome(d)' = "no"
         /\ ~Attempting(i, d)' => Outcome(d)' = "idle"
  BY DEF Outcome, Reached, Attempting

\* An outcome changes only with the job.
LEMMA OutcomeStays ==
  ASSUME NEW i \in Instance, Instance = {i}, NEW d \in Delivery,
         \/ job'[i][d] = job[i][d] /\ answer'[i][d] = answer[i][d]
         \/ ~Attempting(i, d) /\ ~Attempting(i, d)'
  PROVE  Outcome(d)' = Outcome(d)
  BY DEF Outcome, Reached, Attempting

\* A step that leaves rows, counters and outcomes alone is a stutter.
LEMMA Stutters ==
  ASSUME UNCHANGED <<row, calls, lost>>,
         \A d \in Delivery : Outcome(d)' = Outcome(d)
  PROVE  UNCHANGED Promise!vars
  BY DEF Promise!vars

\* What a step of one job does to the outcomes.
LEMMA OutcomeChanges ==
  ASSUME NEW d \in Delivery, NEW known, Outcome(d)' = known,
         \A e \in Delivery \ {d} : Outcome(e)' = Outcome(e)
  PROVE  [e \in Delivery |-> Outcome(e)]'
           = [[e \in Delivery |-> Outcome(e)] EXCEPT ![d] = known]
  OBVIOUS

\* The steps of a job.
LEMMA JobKeepsPromise ==
  ASSUME NEW i \in Instance, Instance = {i}, NEW d \in Delivery,
         DataOK, CopyInv, JobStep(i, d)
  PROVE  Promise!Next \/ UNCHANGED Promise!vars
<1> USE DEF Attempting
<1>1. CASE Lock(i, d) \/ Skip(i, d) \/ Admit(i, d) \/ Refuse(i, d) \/ Record(i, d)
           \/ Unlock(i, d)
  <2>1. UNCHANGED <<row, calls, lost>>
    BY <1>1 DEF Lock, Skip, Admit, Refuse, Record, Unlock, db
  <2>2. ASSUME NEW e \in Delivery PROVE Outcome(e)' = Outcome(e)
    <3>1. CASE Record(i, d)
      <4>1. job' = [job EXCEPT ![i][d] = "recorded"] /\ job[i][d] = "answered"
            /\ answer' = answer
        BY <3>1 DEF Record, Goto
      <4> QED
        BY <4>1 DEF Outcome, Reached, DataOK
    <3>2. CASE Unlock(i, d)
      <4>1. job' = [job EXCEPT ![i][d] = "none"] /\ job[i][d] = "leaving"
            /\ answer' = [answer EXCEPT ![i][d] = FALSE]
        BY <3>2 DEF Unlock, Goto
      <4> QED
        BY <4>1, OutcomeStays DEF DataOK
    <3>3. CASE Lock(i, d) \/ Skip(i, d) \/ Admit(i, d) \/ Refuse(i, d)
      BY <3>3, OutcomeStays DEF Lock, Skip, Admit, Refuse, Goto, DataOK
    <3> QED
      BY <1>1, <3>1, <3>2, <3>3
  <2> QED
    BY <2>1, <2>2, Stutters
<1>2. CASE QuotaExceeded(i, d)
  <2>1. /\ job[i][d] = "admitted" /\ job' = [job EXCEPT ![i][d] = "recorded"]
        /\ answer' = [answer EXCEPT ![i][d] = FALSE] /\ UNCHANGED <<row, calls, lost>>
    BY <1>2 DEF QuotaExceeded, Goto, db
  <2>2. Outcome(d) = "idle" /\ Outcome(d)' = "no"
    BY <2>1, OutcomeOfJob, OutcomeOfJobNext DEF DataOK, Reached
  <2>3. \A e \in Delivery \ {d} : Outcome(e)' = Outcome(e)
    BY <2>1, OutcomeStays DEF DataOK
  <2>4. row[d].status \in Open
    BY <2>1 DEF CopyInv
  <2>5. Promise!Withhold(d)
    BY <2>1, <2>2, <2>3, <2>4, OutcomeChanges
       DEF Promise!Withhold, Promise!IsOpen, Promise!Underway, Open
  <2> QED
    BY <2>5 DEF Promise!Next
<1>3. CASE Execute(i, d)
  <2>1. /\ job[i][d] = "admitted" /\ job' = [job EXCEPT ![i][d] = "calling"]
        /\ calls' = [calls EXCEPT ![d] = @ + 1] /\ UNCHANGED <<row, answer, lost>>
    BY <1>3 DEF Execute, Goto, db
  <2>2. Outcome(d) = "idle" /\ Outcome(d)' = "waiting"
    BY <2>1, OutcomeOfJob, OutcomeOfJobNext DEF DataOK
  <2>3. \A e \in Delivery \ {d} : Outcome(e)' = Outcome(e)
    BY <2>1, OutcomeStays DEF DataOK
  <2>4. row[d].status \in Open
    BY <2>1 DEF CopyInv
  <2>5. Promise!Call(d)
    BY <2>1, <2>2, <2>3, <2>4, OutcomeChanges
       DEF Promise!Call, Promise!IsOpen, Promise!Underway, Open
  <2> QED
    BY <2>5 DEF Promise!Next
<1>4. ASSUME NEW ok \in BOOLEAN, Answer(i, d, ok)
      PROVE  Promise!Next \/ UNCHANGED Promise!vars
  <2>1. /\ job[i][d] = "calling" /\ job' = [job EXCEPT ![i][d] = "answered"]
        /\ answer' = [answer EXCEPT ![i][d] = ok] /\ UNCHANGED <<row, calls, lost>>
    BY <1>4 DEF Answer, Goto, db
  <2> DEFINE heard == IF ok THEN "yes" ELSE "no"
  <2>2. Outcome(d) = "waiting" /\ Outcome(d)' = heard
    BY <2>1, OutcomeOfJob, OutcomeOfJobNext DEF DataOK, Reached
  <2>3. \A e \in Delivery \ {d} : Outcome(e)' = Outcome(e)
    BY <2>1, OutcomeStays DEF DataOK
  <2>4. heard \in {"yes", "no"}
    OBVIOUS
  <2> HIDE DEF heard
  <2>5. Promise!Hear(d)
    BY <2>1, <2>2, <2>3, <2>4, OutcomeChanges DEF Promise!Hear
  <2> QED
    BY <2>5 DEF Promise!Next
<1>5. CASE Save(i, d)
  <2> DEFINE ok == answer[i][d]
  <2>1. /\ job[i][d] = "recorded" /\ job' = [job EXCEPT ![i][d] = "leaving"]
        /\ row' = [row EXCEPT ![d] = Updated(copy[i][d], answer[i][d])]
        /\ UNCHANGED <<answer, calls, lost>>
    BY <1>5 DEF Save, Goto
  <2>2. Outcome(d) = (IF ok THEN "yes" ELSE "no") /\ Outcome(d)' = "idle"
    BY <2>1, OutcomeOfJob, OutcomeOfJobNext DEF DataOK, Reached
  <2>3. \A e \in Delivery \ {d} : Outcome(e)' = Outcome(e)
    BY <2>1, OutcomeStays DEF DataOK
  <2>4. copy[i][d] = row[d].attempts
    BY <2>1 DEF CopyInv
  <2>5. ok \in BOOLEAN /\ row[d].attempts \in Int /\ MaxAttempts \in Int
    BY DeliveryAssumption DEF DataOK
  <2>6. Updated(copy[i][d], answer[i][d]) = Promise!Attempted(row[d], Outcome(d) = "yes")
    BY <2>2, <2>4, <2>5 DEF Updated, Promise!Attempted
  <2>7. Promise!Settle(d)
    BY <2>1, <2>2, <2>3, <2>6, OutcomeChanges DEF Promise!Settle
  <2> QED
    BY <2>7 DEF Promise!Next
<1>6. CASE SaveFails(i, d)
  <2>1. /\ job[i][d] = "recorded" /\ job' = [job EXCEPT ![i][d] = "leaving"]
        /\ lost' = [lost EXCEPT ![d] = @ + 1] /\ UNCHANGED <<row, answer, calls>>
    BY <1>6 DEF SaveFails, Goto, db
  <2>2. Outcome(d) # "idle" /\ Outcome(d)' = "idle"
    BY <2>1, OutcomeOfJob, OutcomeOfJobNext DEF DataOK, Reached
  <2>3. \A e \in Delivery \ {d} : Outcome(e)' = Outcome(e)
    BY <2>1, OutcomeStays DEF DataOK
  <2>4. lost' = [e \in Delivery |-> IF e \in {d} THEN lost[e] + 1 ELSE lost[e]]
    BY <2>1 DEF DataOK
  <2>5. Promise!Forget({d})
    BY <2>1, <2>2, <2>3, <2>4 DEF Promise!Forget, Promise!Underway
  <2> QED
    BY <2>5 DEF Promise!Next
<1> QED
  BY <1>1, <1>2, <1>3, <1>4, <1>5, <1>6 DEF JobStep

\* One instance implements WebhookPromise: each of its steps is a step of the
\* promise, or one that its owner cannot see.
THEOREM PromiseIsKept ==
  ASSUME NEW i \in Instance, Instance = {i}
  PROVE  Spec => KeepsPromise
<1>1. Init => Promise!Init
  <2> SUFFICES ASSUME Init PROVE Promise!Init
    OBVIOUS
  <2>1. \A d \in Delivery : Outcome(d) = "idle"
    BY OutcomeOfJob DEF Init, Attempting
  <2> QED
    BY <2>1 DEF Init, Promise!Init
<1>2. SoloInv /\ [Next]_vars => [Promise!Next]_(Promise!vars)
  <2> SUFFICES ASSUME DataOK, CopyInv, [Next]_vars
               PROVE  Promise!Next \/ UNCHANGED Promise!vars
    BY DEF SoloInv, BudgetInv
  <2>1. CASE UNCHANGED vars
    BY <2>1 DEF vars, db, jobs, Promise!vars, Outcome, Reached
  <2>2. ASSUME NEW d \in Delivery, Enqueue(d) PROVE Promise!Next
    <3>1. Promise!Accept(d)
      BY <2>2 DEF Enqueue, jobs, Promise!Accept, Outcome, Reached
    <3> QED
      BY <3>1 DEF Promise!Next
  <2>3. CASE RecoveryTimeout \/ (\E d \in Delivery : BackoffEnds(d) \/ LockExpires(d))
             \/ Exit(i) \/ Restart(i)
    <3>1. UNCHANGED <<row, job, answer, calls, lost>>
      BY <2>3 DEF RecoveryTimeout, BackoffEnds, LockExpires, Exit, Restart, db, jobs
    <3> QED
      BY <3>1, Stutters DEF Outcome, Reached
  <2>4. CASE Fetch(i) \/ Stop(i)
    <3>1. UNCHANGED <<row, answer, calls, lost>>
      BY <2>4 DEF Fetch, Stop, db
    <3>2. ASSUME NEW d \in Delivery PROVE Outcome(d)' = Outcome(d)
      BY <2>4, OutcomeStays DEF Fetch, Stop, Attempting, DataOK
    <3> QED
      BY <3>1, <3>2, Stutters
  <2>5. CASE Crash(i)
    <3> DEFINE D == {d \in Delivery : Attempting(i, d)}
    <3>1. /\ UNCHANGED <<row, calls>>
          /\ lost' = [d \in Delivery |-> IF d \in D THEN lost[d] + 1 ELSE lost[d]]
          /\ \A d \in Delivery : job'[i][d] = "none"
      BY <2>5 DEF Crash, db, DataOK
    <3>2. \A d \in Delivery : Outcome(d)' = "idle"
      BY <3>1, OutcomeOfJobNext DEF Attempting
    <3>3. \A d \in Delivery : d \in D <=> Outcome(d) # "idle"
      BY OutcomeOfJob DEF Attempting, Reached, DataOK
    <3> HIDE DEF D
    <3>4. Promise!Forget(D)
      BY <3>1, <3>2, <3>3 DEF Promise!Forget, Promise!Underway, D
    <3>5. D \in SUBSET Delivery
      BY DEF D
    <3> QED
      BY <3>4, <3>5 DEF Promise!Next
  <2>6. ASSUME NEW d \in Delivery, JobStep(i, d)
        PROVE  Promise!Next \/ UNCHANGED Promise!vars
    BY <2>6, JobKeepsPromise
  <2> QED
    BY <2>1, <2>2, <2>3, <2>4, <2>5, <2>6 DEF Next
<1> QED
  BY <1>1, <1>2, InitSolo, NextSolo, PTL DEF Spec, KeepsPromise, Promise!Spec
=============================================================================

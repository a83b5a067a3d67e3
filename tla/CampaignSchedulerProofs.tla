----------------------- MODULE CampaignSchedulerProofs -----------------------
(***************************************************************************)
(* The scheduler of a campaign, for any number of instances, clients,      *)
(* requests and crashes: one scheduled run at a time, a finished status    *)
(* only when nobody sends, and runs that overlap only after a race for the *)
(* sending flag.                                                           *)
(***************************************************************************)
EXTENDS CampaignScheduler, TLAPS

\* The two deployments the code is written for: instances that share Redis
\* with a lock that outlives the run, or a single instance.
SharedLock == UseRedis /\ ~LiveLockExpires
Protected  == SharedLock \/ \A i, j \in Instance : i = j

\* From TryLock to Unlock the worker of i has the campaign to itself.
Owns(i) ==
    worker[i] \in {"locked", "claimed", "starting", "sending", "completed",
                   "failed", "unlocking"}

OwnerHoldsLock == SharedLock => \A i \in Instance : Owns(i) => lock = i

OwnerInv == TypeOK /\ OwnerHoldsLock /\ FinishedMeansIdle

\* All senders look at one flag: the one in Redis, or that of one process.
SharedFlag == UseRedis \/ \A i, j \in Instance : i = j

\* The run of s has passed the check of the flag and has not ended.
Started(s) == At(s, "starting") \/ Sending(s)

\* Without a race one run at most is past its check, and while it sends the
\* flag is set.
OneStarted ==
    ~raced => /\ \A s, t \in Sender : Started(s) /\ Started(t) => s = t
              /\ \A s \in Sender : Sending(s) => isSending

RunsInv == TypeOK /\ OneStarted

-----------------------------------------------------------------------------
(* Types.                                                                  *)

Places == {"down", "idle", "fetched", "locked", "claimed", "starting",
           "sending", "completed", "failed", "unlocking"}

\* A sender is the worker or the client of an instance.
LEMMA SenderKinds ==
    ASSUME NEW s \in Sender
    PROVE  /\ s[2] \in Instance
           /\ \/ s[1] = "worker" /\ s = <<"worker", s[2]>>
              \/ s[1] = "client" /\ s[2] \in Client /\ s = <<"client", s[2]>>
<1>1. CASE s \in {"worker"} \X Instance
  BY <1>1
<1>2. CASE s \in {"client"} \X Client
  <2>1. s[1] = "client" /\ s[2] \in Client /\ s = <<"client", s[2]>>
    BY <1>2
  <2> QED
    BY <2>1, SchedulerAssumption
<1> QED
  BY <1>1, <1>2 DEF Sender

LEMMA SenderOf ==
    ASSUME NEW i \in Instance
    PROVE  /\ <<"worker", i>> \in Sender
           /\ i \in Client => <<"client", i>> \in Sender
BY DEF Sender

\* A step of the run s leaves the places typed.
LEMMA StepType ==
    ASSUME TypeOK, NEW s \in Sender,
           NEW from \in {"claimed", "starting", "sending"},
           NEW to \in {"starting", "sending", "completed", "failed"},
           Step(s, from, to)
    PROVE  /\ worker' \in [Instance -> Places]
           /\ client' \in [Client -> {"new", "accepted", "starting", "sending",
                                      "done"}]
BY SenderKinds DEF Step, Move, TypeOK, Places

LEMMA TypeInit == Init => TypeOK
<1> SUFFICES ASSUME Init
             PROVE  TypeOK
  OBVIOUS
<1>1. crashes \in 0..MaxCrashes
  BY SchedulerAssumption DEF Init
<1>2. /\ worker \in [Instance -> {"down"}] /\ client \in [Client -> {"new"}]
      /\ request \in [Request -> {"new"}]
  BY DEF Init
<1> QED
  BY <1>1, <1>2 DEF Init, TypeOK

LEMMA TypeRequest ==
    ASSUME TypeOK, NEW r \in Request, RequestStep(r)
    PROVE  TypeOK'
BY DEF RequestStep, ScheduleRead, ScheduleWrite, UnscheduleRead,
       UnscheduleWrite, AddMessageRead, AddMessageWrite, DeleteCampaign,
       ReadFor, WriteFor, Store, TypeOK, campaign, shared

LEMMA TypeWorker ==
    ASSUME TypeOK, NEW i \in Instance, WorkerStep(i)
    PROVE  TypeOK'
BY DEF WorkerStep, Boot, BootWithoutRecovery, Fetch, TryLock, TryLockFails,
       Claim, ClaimFails, StoreStatus, StoreStatusFails, Unlock, Move, Release,
       Store, TypeOK, campaign, shared

LEMMA TypeSender ==
    ASSUME TypeOK, NEW s \in Sender, SenderStep(s)
    PROVE  TypeOK'
BY StepType
   DEF SenderStep, FlagIsClear, FlagIsSet, SetSending, RunEnds, Races, TypeOK,
       campaign, shared, Places

LEMMA TypeCrash ==
    ASSUME TypeOK, NEW i \in Instance, Crash(i)
    PROVE  TypeOK'
<1>1. crashes' \in 0..MaxCrashes /\ isSending' \in BOOLEAN
  BY SchedulerAssumption DEF Crash, TypeOK
<1>2. /\ worker' \in [Instance -> Places]
      /\ client' \in [Client -> {"new", "accepted", "starting", "sending",
                                 "done"}]
  BY DEF Crash, TypeOK, Places
<1>3. UNCHANGED <<status, scheduledAt, raced, lock, request>>
  BY DEF Crash, campaign
<1> QED
  BY <1>1, <1>2, <1>3 DEF TypeOK, Places

LEMMA TypeStep == TypeOK /\ [Next]_vars => TypeOK'
<1> SUFFICES ASSUME TypeOK, [Next]_vars
             PROVE  TypeOK'
  OBVIOUS
<1>1. CASE TimePasses \/ LockExpires \/ FlagExpires
  BY <1>1 DEF TimePasses, LockExpires, FlagExpires, TypeOK, campaign, shared
<1>2. ASSUME NEW i \in Client, ClientSend(i) \/ ClientSendUnread(i)
      PROVE  TypeOK'
  BY <1>2 DEF ClientSend, ClientSendUnread, TypeOK, campaign, shared
<1>3. CASE UNCHANGED vars
  BY <1>3 DEF vars, TypeOK, campaign, shared
<1> QED
  BY <1>1, <1>2, <1>3, TypeRequest, TypeWorker, TypeSender, TypeCrash DEF Next

-----------------------------------------------------------------------------
(* The owner of the campaign.                                              *)

\* However the campaign is protected, it has at most one owner.
LEMMA OneOwner ==
    ASSUME Protected, OwnerHoldsLock, NEW i \in Instance, NEW j \in Instance,
           Owns(i), Owns(j)
    PROVE  i = j
BY DEF Protected, OwnerHoldsLock

LEMMA ExecutingOwns ==
    ASSUME NEW i \in Instance, Executing(i)
    PROVE  Owns(i)
BY DEF Executing, Owns
\* A step that leaves lock and status alone and makes no new owner.
LEMMA OwnerKept ==
    ASSUME OwnerInv, UNCHANGED <<lock, status>>, TypeOK',
           \A i \in Instance : (Owns(i)' => Owns(i))
                               /\ (Executing(i)' => Executing(i))
    PROVE  OwnerInv'
BY DEF OwnerInv, OwnerHoldsLock, FinishedMeansIdle, SharedLock

LEMMA OwnerRequest ==
    ASSUME OwnerInv, NEW r \in Request, RequestStep(r)
    PROVE  OwnerInv'
<1>1. UNCHANGED <<worker, lock>>
  BY DEF RequestStep, ScheduleRead, ScheduleWrite, UnscheduleRead,
         UnscheduleWrite, AddMessageRead, AddMessageWrite, DeleteCampaign,
         ReadFor, WriteFor, shared
<1>2. status' = status \/ status' \in {"scheduled", "draft", "gone"}
  BY DEF RequestStep, ScheduleRead, ScheduleWrite, UnscheduleRead,
         UnscheduleWrite, AddMessageRead, AddMessageWrite, DeleteCampaign,
         ReadFor, WriteFor, Store, campaign
<1>3. TypeOK'
  BY TypeRequest DEF OwnerInv
<1> QED
  BY <1>1, <1>2, <1>3
     DEF OwnerInv, OwnerHoldsLock, FinishedMeansIdle, SharedLock, Owns, Executing

\* A worker takes and leaves the campaign.
LEMMA OwnerWorker ==
    ASSUME Protected, OwnerInv, NEW i \in Instance, WorkerStep(i)
    PROVE  OwnerInv'
<1>1. TypeOK /\ TypeOK'
  BY TypeWorker DEF OwnerInv
<1>2. CASE Boot(i) \/ BootWithoutRecovery(i) \/ Fetch(i) \/ TryLockFails(i)
  <2>1. \A j \in Instance : (Owns(j)' => Owns(j))
                            /\ (Executing(j)' => Executing(j))
    BY <1>1, <1>2 DEF Boot, BootWithoutRecovery, Fetch, TryLockFails, Move,
                      Owns, Executing, TypeOK
  <2>2. lock' = lock /\ (status' = status \/ status' = "scheduled")
    BY <1>2 DEF Boot, BootWithoutRecovery, Fetch, TryLockFails, shared, campaign
  <2> QED
    BY <1>1, <2>1, <2>2
       DEF OwnerInv, OwnerHoldsLock, FinishedMeansIdle, SharedLock
<1>3. CASE TryLock(i)
  <2>1. \A j \in Instance : /\ Executing(j)' => Executing(j)
                            /\ Owns(j)' => j = i \/ Owns(j)
    BY <1>1, <1>3 DEF TryLock, Move, Owns, Executing, TypeOK
  <2>2. SharedLock => lock' = i /\ \A j \in Instance : ~Owns(j)
    BY <1>3, SchedulerAssumption DEF TryLock, SharedLock, OwnerInv, OwnerHoldsLock
  <2>3. OwnerHoldsLock'
    BY <2>1, <2>2 DEF OwnerHoldsLock, SharedLock
  <2>4. FinishedMeansIdle'
    BY <1>3, <2>1 DEF TryLock, campaign, OwnerInv, FinishedMeansIdle
  <2> QED
    BY <1>1, <2>3, <2>4 DEF OwnerInv
<1>4. CASE Claim(i)
  <2>1. \A j \in Instance : Owns(j)' => Owns(j)
    BY <1>1, <1>4 DEF Claim, Move, Owns, TypeOK
  <2>2. status' = "running" /\ lock' = lock
    BY <1>4 DEF Claim, shared
  <2> QED
    BY <1>1, <2>1, <2>2
       DEF OwnerInv, OwnerHoldsLock, FinishedMeansIdle, SharedLock
<1>5. CASE StoreStatus(i) \/ StoreStatusFails(i)
  <2>1. Executing(i) /\ ~Executing(i)'
    BY <1>1, <1>5 DEF StoreStatus, StoreStatusFails, Move, Executing, TypeOK
  <2>2. \A j \in Instance : ~Executing(j)'
    <3> SUFFICES ASSUME NEW j \in Instance, j # i
                 PROVE  ~Executing(j)'
      BY <2>1
    <3>1. ~Executing(j)
      BY <2>1, ExecutingOwns, OneOwner DEF OwnerInv
    <3> QED
      BY <1>1, <1>5, <3>1
         DEF StoreStatus, StoreStatusFails, Move, Executing, TypeOK
  <2>3. \A j \in Instance : Owns(j)' => Owns(j)
    BY <1>1, <1>5 DEF StoreStatus, StoreStatusFails, Move, Owns, TypeOK
  <2>4. lock' = lock
    BY <1>5 DEF StoreStatus, StoreStatusFails, shared
  <2> QED
    BY <1>1, <2>2, <2>3, <2>4
       DEF OwnerInv, OwnerHoldsLock, FinishedMeansIdle, SharedLock
<1>6. CASE ClaimFails(i) \/ Unlock(i)
  <2>1. \A j \in Instance : /\ Owns(j)' => Owns(j) /\ j # i
                            /\ Executing(j)' => Executing(j)
    BY <1>1, <1>6 DEF ClaimFails, Unlock, Move, Owns, Executing, TypeOK
  <2>2. lock # i => lock' = lock
    BY <1>6 DEF ClaimFails, Unlock, Release
  <2>3. OwnerHoldsLock'
    BY <2>1, <2>2 DEF OwnerInv, OwnerHoldsLock, SharedLock
  <2>4. FinishedMeansIdle'
    BY <1>6, <2>1 DEF ClaimFails, Unlock, campaign, OwnerInv, FinishedMeansIdle
  <2> QED
    BY <1>1, <2>3, <2>4 DEF OwnerInv
<1> QED
  BY <1>2, <1>3, <1>4, <1>5, <1>6 DEF WorkerStep

\* A run keeps what its sender owns.
LEMMA OwnerSender ==
    ASSUME OwnerInv, NEW s \in Sender, SenderStep(s)
    PROVE  OwnerInv'
<1>1. UNCHANGED <<lock, status>>
  BY DEF SenderStep, FlagIsClear, FlagIsSet, SetSending, RunEnds, campaign,
         shared
<1>2. \/ UNCHANGED worker
      \/ \E from \in {"claimed", "starting", "sending"},
            to \in {"starting", "sending", "completed", "failed"} :
              Move(s[2], from, to)
  BY DEF SenderStep, FlagIsClear, FlagIsSet, SetSending, RunEnds, Step
<1>3. \A i \in Instance : (Owns(i)' => Owns(i))
                          /\ (Executing(i)' => Executing(i))
  BY <1>2, SenderKinds DEF Move, Owns, Executing, OwnerInv, TypeOK
<1> QED
  BY <1>1, <1>3, TypeSender, OwnerKept DEF OwnerInv

\* Crashes take owners away, and the lock expires only without an owner.
LEMMA OwnerFailure ==
    ASSUME OwnerInv, [Next]_vars,
           \/ \E i \in Instance : Crash(i)
           \/ \E i \in Client : ClientSend(i) \/ ClientSendUnread(i)
           \/ TimePasses \/ LockExpires \/ FlagExpires \/ UNCHANGED vars
    PROVE  OwnerInv'
<1>1. TypeOK /\ TypeOK'
  BY TypeStep DEF OwnerInv
<1>2. CASE LockExpires
  <2>1. SharedLock => \A i \in Instance : ~Owns(i)
    BY <1>2 DEF LockExpires, SharedLock, Owns, OwnerInv, OwnerHoldsLock
  <2> QED
    BY <1>1, <1>2, <2>1
       DEF LockExpires, OwnerInv, OwnerHoldsLock, SharedLock, FinishedMeansIdle,
           Owns, Executing, campaign
<1>3. CASE \E i \in Instance : Crash(i)
  <2>1. \A i \in Instance : (Owns(i)' => Owns(i))
                            /\ (Executing(i)' => Executing(i))
    BY <1>1, <1>3 DEF Crash, Owns, Executing, TypeOK
  <2> QED
    BY <1>1, <1>3, <2>1, OwnerKept DEF Crash, campaign
<1>4. CASE \/ \E i \in Client : ClientSend(i) \/ ClientSendUnread(i)
           \/ TimePasses \/ FlagExpires \/ UNCHANGED vars
  BY <1>1, <1>4, OwnerKept
     DEF ClientSend, ClientSendUnread, TimePasses, FlagExpires, vars, campaign,
         shared, Owns, Executing
<1> QED
  BY <1>2, <1>3, <1>4

LEMMA OwnerInit == Init => OwnerInv
BY TypeInit DEF Init, OwnerInv, OwnerHoldsLock, FinishedMeansIdle, Owns,
                Executing

LEMMA OwnerStep ==
    ASSUME Protected
    PROVE  OwnerInv /\ [Next]_vars => OwnerInv'
<1> SUFFICES ASSUME OwnerInv, [Next]_vars
             PROVE  OwnerInv'
  OBVIOUS
<1> QED
  BY OwnerRequest, OwnerWorker, OwnerSender, OwnerFailure DEF Next

\* With a lock that outlives the run, or with one instance, two scheduler
\* workers never execute the campaign together, whatever crashes, recoveries
\* and schedule requests happen.
THEOREM OneRunAtATime ==
    ASSUME Protected
    PROVE  Spec => []OneSchedulerRun
<1>1. OwnerInv => OneSchedulerRun
  BY ExecutingOwns, OneOwner DEF OwnerInv, OneSchedulerRun
<1> QED
  BY <1>1, OwnerInit, OwnerStep, PTL DEF Spec

\* The final status is stored last: no worker sends when it is shown.
THEOREM FinishedIsFinished ==
    ASSUME Protected
    PROVE  Spec => []FinishedMeansIdle
<1>1. OwnerInv => FinishedMeansIdle
  BY DEF OwnerInv
<1> QED
  BY <1>1, OwnerInit, OwnerStep, PTL DEF Spec

-----------------------------------------------------------------------------
(* The sending flag.                                                       *)

\* A step of the run of s moves no other run.
LEMMA PlacesAfter ==
    ASSUME TypeOK, NEW s \in Sender,
           NEW from \in {"claimed", "starting", "sending"},
           NEW to \in {"starting", "sending", "completed", "failed"},
           Step(s, from, to)
    PROVE  /\ Sending(s) <=> from = "sending"
           /\ Sending(s)' <=> to = "sending"
           /\ Started(s) <=> from \in {"starting", "sending"}
           /\ Started(s)' <=> to \in {"starting", "sending"}
           /\ \A t \in Sender \ {s} : /\ Sending(t)' <=> Sending(t)
                                      /\ Started(t)' <=> Started(t)
<1>1. CASE s[1] = "worker"
  BY <1>1, SenderKinds DEF Step, Move, Sending, Started, At, TypeOK
<1>2. CASE s[1] = "client"
  BY <1>2, SenderKinds DEF Step, Move, Sending, Started, At, TypeOK
<1> QED
  BY <1>1, <1>2, SenderKinds

\* Steps that start no run and leave the flag of those that send alone.
LEMMA StartedKept ==
    ASSUME OneStarted, raced' = raced,
           \A s \in Sender : /\ Started(s)' => Started(s)
                             /\ Sending(s)' => Sending(s)
                             /\ Sending(s)' /\ isSending => isSending'
    PROVE  OneStarted'
BY DEF OneStarted

LEMMA StartedRequest ==
    ASSUME TypeOK, OneStarted, NEW r \in Request, RequestStep(r)
    PROVE  OneStarted'
<1>1. UNCHANGED <<worker, client, isSending, raced>>
  BY DEF RequestStep, ScheduleRead, ScheduleWrite, UnscheduleRead,
         UnscheduleWrite, AddMessageRead, AddMessageWrite, DeleteCampaign,
         ReadFor, WriteFor, shared
<1> QED
  BY <1>1, StartedKept DEF Started, Sending, At

LEMMA StartedWorker ==
    ASSUME TypeOK, OneStarted, NEW i \in Instance, WorkerStep(i)
    PROVE  OneStarted'
<1>1. /\ UNCHANGED <<client, isSending, raced>>
      /\ worker'[i] \notin {"starting", "sending"}
      /\ \A j \in Instance \ {i} : worker'[j] = worker[j]
  BY DEF WorkerStep, Boot, BootWithoutRecovery, Fetch, TryLock, TryLockFails,
         Claim, ClaimFails, StoreStatus, StoreStatusFails, Unlock, Move, TypeOK,
         shared
<1> QED
  BY <1>1, StartedKept, SenderKinds DEF Started, Sending, At

\* A run starts where no other has, unless it races; only the run that has
\* the flag clears it.
LEMMA StartedSender ==
    ASSUME TypeOK, OneStarted, NEW s \in Sender, SenderStep(s)
    PROVE  OneStarted'
<1> SUFFICES ASSUME ~raced'
             PROVE  /\ \A t, u \in Sender : Started(t)' /\ Started(u)' => t = u
                    /\ \A t \in Sender : Sending(t)' => isSending'
  BY DEF OneStarted
<1>1. CASE FlagIsClear(s)
  <2>1. ~raced /\ ~isSending /\ isSending' = isSending
    BY <1>1 DEF FlagIsClear, shared, TypeOK
  <2>2. \A t \in Sender \ {s} : ~Started(t)
    BY <1>1, <2>1 DEF FlagIsClear, Races, OneStarted, Started, TypeOK
  <2>3. /\ ~Sending(s)'
        /\ \A t \in Sender \ {s} : ~Started(t)' /\ ~Sending(t)'
    BY <1>1, <2>2, PlacesAfter DEF FlagIsClear, Started
  <2> QED
    BY <2>3
<1>2. CASE FlagIsSet(s)
  <2>1. UNCHANGED <<raced, isSending>>
    BY <1>2 DEF FlagIsSet, shared
  <2>2. \A t \in Sender : (Started(t)' => Started(t)) /\ (Sending(t)' => Sending(t))
    BY <1>2, PlacesAfter DEF FlagIsSet
  <2> QED
    BY <2>1, <2>2 DEF OneStarted
<1>3. CASE SetSending(s)
  <2>1. raced' = raced /\ isSending' = TRUE
    BY <1>3 DEF SetSending
  <2>2. \A t \in Sender : Started(t)' => Started(t)
    BY <1>3, PlacesAfter DEF SetSending
  <2> QED
    BY <2>1, <2>2 DEF OneStarted
<1>4. CASE RunEnds(s)
  <2>1. PICK result \in {"completed", "failed"} : Step(s, "sending", result)
    BY <1>4 DEF RunEnds
  <2>2. ~raced
    BY <1>4 DEF RunEnds
  <2>3. \A t \in Sender \ {s} : ~Started(t)
    BY <2>1, <2>2, PlacesAfter DEF OneStarted
  <2>4. \A t \in Sender : ~Started(t)' /\ ~Sending(t)'
    BY <2>1, <2>3, PlacesAfter DEF Started
  <2> QED
    BY <2>4
<1> QED
  BY <1>1, <1>2, <1>3, <1>4 DEF SenderStep

\* A crash takes the flag only where the runs it belonged to are gone too.
LEMMA StartedCrash ==
    ASSUME SharedFlag, TypeOK, OneStarted, NEW i \in Instance, Crash(i)
    PROVE  OneStarted'
<1>1. /\ raced' = raced /\ isSending' = (UseRedis /\ isSending)
      /\ worker' = [worker EXCEPT ![i] = "down"]
      /\ client' = [c \in Client |-> IF c = i THEN "done" ELSE client[c]]
  BY DEF Crash
<1>2. \A s \in Sender : s[2] = i => ~Started(s)' /\ ~Sending(s)'
  BY <1>1, SenderKinds DEF Started, Sending, At, TypeOK
<1>3. \A s \in Sender : s[2] # i => /\ Started(s)' <=> Started(s)
                                    /\ Sending(s)' <=> Sending(s)
  BY <1>1, SenderKinds DEF Started, Sending, At, TypeOK
<1>4. UseRedis \/ \A s \in Sender : s[2] = i
  BY SenderKinds DEF SharedFlag
<1> QED
  BY <1>1, <1>2, <1>3, <1>4, StartedKept DEF TypeOK

LEMMA StartedElse ==
    ASSUME TypeOK, OneStarted,
           \/ \E i \in Client : ClientSend(i) \/ ClientSendUnread(i)
           \/ TimePasses \/ LockExpires \/ FlagExpires \/ UNCHANGED vars
    PROVE  OneStarted'
<1>1. CASE \E i \in Client : ClientSend(i) \/ ClientSendUnread(i)
  <2>1. PICK i \in Client : client' = [client EXCEPT ![i] = "accepted"]
    BY <1>1 DEF ClientSend, ClientSendUnread
  <2>2. UNCHANGED <<worker, isSending, raced>>
    BY <1>1 DEF ClientSend, ClientSendUnread, shared
  <2> QED
    BY <2>1, <2>2, StartedKept, SenderKinds DEF Started, Sending, At, TypeOK
<1>2. CASE TimePasses \/ LockExpires \/ FlagExpires \/ UNCHANGED vars
  <2>1. UNCHANGED <<worker, client, raced>>
    BY <1>2 DEF TimePasses, LockExpires, FlagExpires, vars
  <2>2. isSending' = isSending \/ ~\E s \in Sender : Sending(s)
    BY <1>2 DEF TimePasses, LockExpires, FlagExpires, vars, shared
  <2> QED
    BY <2>1, <2>2, StartedKept DEF Started, Sending, At
<1> QED
  BY <1>1, <1>2

LEMMA RunsInit == Init => RunsInv
<1> SUFFICES ASSUME Init
             PROVE  OneStarted
  BY TypeInit DEF RunsInv
<1>1. \A s \in Sender : ~Started(s) /\ ~Sending(s)
  BY SenderKinds DEF Init, Started, Sending, At
<1> QED
  BY <1>1 DEF OneStarted

LEMMA RunsStep ==
    ASSUME SharedFlag
    PROVE  RunsInv /\ [Next]_vars => RunsInv'
<1> SUFFICES ASSUME RunsInv, [Next]_vars
             PROVE  RunsInv'
  OBVIOUS
<1>1. TypeOK /\ TypeOK' /\ OneStarted
  BY TypeStep DEF RunsInv
<1>2. OneStarted'
  BY <1>1, StartedRequest, StartedWorker, StartedSender, StartedCrash,
     StartedElse DEF Next
<1> QED
  BY <1>1, <1>2 DEF RunsInv

\* Where all senders look at one flag, runs of a campaign overlap only after
\* two of them were between their look and their setting of it, whatever
\* crashes, expires, or fails to be read; the lock of the workers may expire.
THEOREM RunsStayApart ==
    ASSUME SharedFlag
    PROVE  Spec => []RunsApart
<1>1. RunsInv => RunsApart
  BY DEF RunsInv, OneStarted, RunsApart, Started
<1> QED
  BY <1>1, RunsInit, RunsStep, PTL DEF Spec
=============================================================================

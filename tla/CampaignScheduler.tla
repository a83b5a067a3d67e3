-------------------------- MODULE CampaignScheduler --------------------------
(***************************************************************************)
(* The life of one campaign across the instances of the server: the        *)
(* schedule endpoints, the scheduler worker of every instance (poll, lock, *)
(* compare-and-set, run, final status, recovery at start), and the clients *)
(* that start the same campaign by hand over a WebSocket.                  *)
(*                                                                         *)
(* What a run does with the rows is the subject of CampaignSend.  Here it  *)
(* is a span of time, from IsSending to the deferred SetSending(false),    *)
(* that ends with a result or with an error.  Both kinds of run share the  *)
(* sending flag, kept in Redis when SYNC_BACKEND=redis and in the process  *)
(* otherwise.                                                              *)
(***************************************************************************)
EXTENDS Integers, FiniteSets

CONSTANTS
    Instance,         \* server processes on one database
    Client,           \* the instances with a WebSocket client, which sends once
    Request,          \* HTTP requests of users, each handled once
    None,
    UseRedis,         \* SYNC_BACKEND=redis: shared lock and flag
    LiveLockExpires,  \* the lock's TTL may pass while its holder is at work
    MaxCrashes        \* bound on crashes

ASSUME SchedulerAssumption ==
    /\ Client \subseteq Instance /\ None \notin Instance
    /\ UseRedis \in BOOLEAN /\ LiveLockExpires \in BOOLEAN
    /\ MaxCrashes \in Nat

\* Whoever calls SendWhatsAppCampaign: the worker or a client of an instance.
Sender == ({"worker"} \X Instance) \cup ({"client"} \X Client)

VARIABLES
    status,       \* campaigns.status, or "gone" when the row is deleted
    scheduledAt,  \* campaigns.scheduled_at: unset, still ahead, or due
    lock,         \* holder of campaign_schedule:{id}
    isSending,    \* the channel's sending flag
    worker,       \* instance -> where its scheduler worker is
    client,       \* instance -> where its WebSocket client is
    request,      \* request -> where its handler is
    raced,        \* history: a run passed the check while another was between
                  \* its check and the setting of the flag
    crashes       \* how many crashes so far

campaign == <<status, scheduledAt>>
shared   == <<lock, isSending>>
vars     == <<campaign, shared, worker, client, request, raced, crashes>>

-----------------------------------------------------------------------------
\* The worker of i is past its claim and has not stored the outcome yet.
Executing(i) ==
    worker[i] \in {"claimed", "starting", "sending", "completed", "failed"}

\* Where the run of s is.
At(s, place) == IF s[1] = "worker" THEN worker[s[2]] = place
                                   ELSE client[s[2]] = place

\* s is between SetSending(true) and SetSending(false).
Sending(s) == At(s, "sending")

Move(i, from, to) == worker[i] = from /\ worker' = [worker EXCEPT ![i] = to]

\* Only the holder's Unlock deletes the key.
Release(i) == lock' = IF lock = i THEN None ELSE lock

Init ==
    /\ \/ status = "draft" /\ scheduledAt = "unset"
       \/ status = "scheduled" /\ scheduledAt = "due"
    /\ lock = None /\ isSending = FALSE
    /\ worker = [i \in Instance |-> "down"]
    /\ client = [i \in Client |-> "new"]
    /\ request = [r \in Request |-> "new"]
    /\ raced = FALSE /\ crashes = 0

\* UPDATE campaigns SET status = new: a deleted row stays deleted.
Store(new) == status' = IF status = "gone" THEN "gone" ELSE new

(***************************************************************************)
(* The HTTP handlers read the campaign, decide, and write in a second      *)
(* statement that does not look at the status again.                       *)
(***************************************************************************)
ReadFor(r, todo, blocked) ==
    /\ request[r] = "new"
    /\ request' = [request EXCEPT ![r] =
                      IF status \in blocked \cup {"gone"} THEN "done" ELSE todo]
    /\ UNCHANGED <<campaign, raced, shared, worker, client, crashes>>

WriteFor(r, todo, newStatus, newTime) ==
    /\ request[r] = todo
    /\ request' = [request EXCEPT ![r] = "done"]
    /\ Store(newStatus)
    /\ scheduledAt' = IF status = "gone" THEN scheduledAt ELSE newTime
    /\ UNCHANGED <<raced, shared, worker, client, crashes>>

ScheduleRead(r) == ReadFor(r, "schedule", {"running", "completed"})
ScheduleWrite(r) == \E t \in {"ahead", "due"} :
                       WriteFor(r, "schedule", "scheduled", t)

UnscheduleRead(r) == ReadFor(r, "unschedule", {"running"})
UnscheduleWrite(r) == WriteFor(r, "unschedule", "draft", "unset")

\* A message added to a finished campaign makes it a draft again; the new row
\* itself is CampaignSend's business.
AddMessageRead(r) ==
    ReadFor(r, "reset", {"draft", "scheduled", "running"})
AddMessageWrite(r) == WriteFor(r, "reset", "draft", "unset")

\* The campaign is deleted, and its messages with it, whatever its status.
DeleteCampaign(r) ==
    /\ request[r] = "new"
    /\ request' = [request EXCEPT ![r] = "done"]
    /\ status' = "gone" /\ scheduledAt' = "unset"
    /\ UNCHANGED <<raced, shared, worker, client, crashes>>

TimePasses ==
    /\ scheduledAt = "ahead" /\ scheduledAt' = "due"
    /\ UNCHANGED <<status, raced, shared, worker, client, request, crashes>>

(***************************************************************************)
(* The scheduler worker of instance i.                                     *)
(***************************************************************************)
\* Mutant: recovery marks the interrupted campaigns as failed.
BootFails(i) ==
    /\ Move(i, "down", "idle")
    /\ status' = IF status = "running" THEN "failed" ELSE status
    /\ UNCHANGED <<scheduledAt, raced, shared, client, request, crashes>>

\* Start: every running campaign is put back, whoever is running it.
Boot(i) ==
    /\ Move(i, "down", "idle")
    /\ status' = IF status = "running" THEN "scheduled" ELSE status
    /\ UNCHANGED <<scheduledAt, raced, shared, client, request, crashes>>

\* The same, when the recovery statement fails: it is only logged.
BootWithoutRecovery(i) ==
    /\ Move(i, "down", "idle")
    /\ UNCHANGED <<campaign, raced, shared, client, request, crashes>>

\* Mutant: the comparison with the clock is the wrong way round.
FetchAhead(i) ==
    /\ status = "scheduled" /\ scheduledAt = "ahead"
    /\ Move(i, "idle", "fetched")
    /\ UNCHANGED <<campaign, raced, shared, client, request, crashes>>

\* A poll finds the campaign due; the loop waits for it before polling again.
Fetch(i) ==
    /\ status = "scheduled" /\ scheduledAt = "due"
    /\ Move(i, "idle", "fetched")
    /\ UNCHANGED <<campaign, raced, shared, client, request, crashes>>

\* Mutant: the result of TryLock is ignored.
TryLockIgnored(i) ==
    /\ Move(i, "fetched", "locked")
    /\ IF UseRedis THEN lock' = i ELSE lock' = lock
    /\ UNCHANGED <<campaign, raced, isSending, client, request, crashes>>

\* TryLock, in Redis mode only.
TryLock(i) ==
    /\ Move(i, "fetched", "locked")
    /\ IF UseRedis THEN lock = None /\ lock' = i ELSE lock' = lock
    /\ UNCHANGED <<campaign, raced, isSending, client, request, crashes>>

\* Held by another instance, or Redis reports an error: skip the campaign.
TryLockFails(i) ==
    /\ UseRedis
    /\ Move(i, "fetched", "idle")
    /\ UNCHANGED <<campaign, raced, shared, client, request, crashes>>

\* UPDATE ... SET status = 'running' WHERE status = 'scheduled'.
Claim(i) ==
    /\ status = "scheduled" /\ status' = "running"
    /\ Move(i, "locked", "claimed")
    /\ UNCHANGED <<scheduledAt, raced, shared, client, request, crashes>>

\* No row was updated, or the statement failed: unlock and skip.
ClaimFails(i) ==
    /\ Move(i, "locked", "idle")
    /\ Release(i)
    /\ UNCHANGED <<campaign, raced, isSending, client, request, crashes>>

\* updateCampaignStatus, by id alone; then the deferred release and unlock.
StoreStatus(i) ==
    /\ \E result \in {"completed", "failed"} :
         Move(i, result, "unlocking") /\ Store(result)
    /\ UNCHANGED <<scheduledAt, raced, shared, client, request, crashes>>

\* The final update fails: it is only logged.
StoreStatusFails(i) ==
    /\ \E result \in {"completed", "failed"} : Move(i, result, "unlocking")
    /\ UNCHANGED <<campaign, raced, shared, client, request, crashes>>

Unlock(i) ==
    /\ Move(i, "unlocking", "idle")
    /\ Release(i)
    /\ UNCHANGED <<campaign, raced, isSending, client, request, crashes>>

(***************************************************************************)
(* The WebSocket client of instance i: "send" reads the status, then the   *)
(* flag (again inside SendWhatsAppCampaign: the last look decides).        *)
(***************************************************************************)
ClientSend(i) ==
    /\ client[i] = "new" /\ worker[i] # "down"
    /\ status \notin {"scheduled", "running"}
    /\ client' = [client EXCEPT ![i] = "accepted"]
    /\ UNCHANGED <<campaign, raced, shared, worker, request, crashes>>

\* The status cannot be read: the request goes on as if it were free.
ClientSendUnread(i) ==
    /\ client[i] = "new" /\ worker[i] # "down"
    /\ client' = [client EXCEPT ![i] = "accepted"]
    /\ UNCHANGED <<campaign, raced, shared, worker, request, crashes>>

(***************************************************************************)
(* SendWhatsAppCampaign, run by sender s.                                  *)
(***************************************************************************)
\* s moves from the place "from" of its program to the place "to".
Step(s, from, to) ==
    IF s[1] = "worker"
    THEN Move(s[2], from, to) /\ UNCHANGED client
    ELSE /\ client[s[2]] = IF from = "claimed" THEN "accepted" ELSE from
         /\ client' = [client EXCEPT ![s[2]] =
                         IF to \in {"completed", "failed"} THEN "done" ELSE to]
         /\ UNCHANGED worker

Races(s) == \E t \in Sender \ {s} : At(t, "starting")

\* Mutant: the flag is not looked at.
FlagIgnored(s) ==
    /\ Step(s, "claimed", "starting")
    /\ raced' = (raced \/ Races(s))
    /\ UNCHANGED <<campaign, shared, request, crashes>>

\* if campaignChannel.IsSending() ...
FlagIsClear(s) ==
    /\ ~isSending
    /\ Step(s, "claimed", "starting")
    /\ raced' = (raced \/ Races(s))
    /\ UNCHANGED <<campaign, shared, request, crashes>>

\* ... return "campaign is already sending".
FlagIsSet(s) ==
    /\ isSending
    /\ Step(s, "claimed", "failed")
    /\ UNCHANGED <<campaign, raced, shared, request, crashes>>

\* campaignChannel.SetSending(true): a step of its own.
SetSending(s) ==
    /\ isSending' = TRUE
    /\ Step(s, "starting", "sending")
    /\ UNCHANGED <<campaign, raced, lock, request, crashes>>

\* Return from the run, with or without an error, however far it came: the
\* deferred SetSending(false) clears the flag.
RunEnds(s) ==
    /\ \E result \in {"completed", "failed"} : Step(s, "sending", result)
    /\ isSending' = FALSE
    /\ UNCHANGED <<campaign, raced, lock, request, crashes>>

(***************************************************************************)
(* Failures.                                                               *)
(***************************************************************************)
\* The process of i dies.  What it kept in memory is gone; what it kept in
\* Redis stays: the lock until its TTL, the flag until its own.
Crash(i) ==
    /\ worker[i] # "down" /\ crashes < MaxCrashes
    /\ crashes' = crashes + 1
    /\ worker' = [worker EXCEPT ![i] = "down"]
    /\ client' = [c \in Client |-> IF c = i THEN "done" ELSE client[c]]
    /\ isSending' = (UseRedis /\ isSending)
    /\ UNCHANGED <<campaign, raced, lock, request>>

\* The TTL of the lock (REDIS_LOCK_TTL) passes.
LockExpires ==
    /\ lock # None
    /\ LiveLockExpires \/ worker[lock] \in {"down", "idle", "fetched"}
    /\ lock' = None
    /\ UNCHANGED <<campaign, raced, isSending, worker, client, request, crashes>>

\* The TTL of the flag passes; a run is taken to be shorter than that hour.
FlagExpires ==
    /\ isSending /\ ~\E s \in Sender : Sending(s)
    /\ isSending' = FALSE
    /\ UNCHANGED <<campaign, raced, lock, worker, client, request, crashes>>

-----------------------------------------------------------------------------
RequestStep(r) ==
    \/ ScheduleRead(r) \/ ScheduleWrite(r)
    \/ UnscheduleRead(r) \/ UnscheduleWrite(r)
    \/ AddMessageRead(r) \/ AddMessageWrite(r)
    \/ DeleteCampaign(r)

WorkerStep(i) ==
    \/ Boot(i) \/ BootWithoutRecovery(i) \/ Fetch(i)
    \/ TryLock(i) \/ TryLockFails(i) \/ Claim(i) \/ ClaimFails(i)
    \/ StoreStatus(i) \/ StoreStatusFails(i) \/ Unlock(i)

SenderStep(s) ==
    \/ FlagIsClear(s) \/ FlagIsSet(s) \/ SetSending(s)
    \/ RunEnds(s)

Next ==
    \/ \E r \in Request : RequestStep(r)
    \/ \E i \in Instance : WorkerStep(i) \/ Crash(i)
    \/ \E i \in Client : ClientSend(i) \/ ClientSendUnread(i)
    \/ \E s \in Sender : SenderStep(s)
    \/ TimePasses \/ LockExpires \/ FlagExpires

Spec == Init /\ [][Next]_vars

\* Time passes, processes that run make progress, a dead process is started
\* again and recovers, and a statement or lock request that is repeated for
\* ever succeeds at some point.
Fairness ==
    /\ WF_vars(TimePasses) /\ WF_vars(LockExpires) /\ WF_vars(FlagExpires)
    /\ \A i \in Instance :
         /\ WF_vars(Boot(i)) /\ SF_vars(Fetch(i))
         /\ SF_vars(TryLock(i)) /\ SF_vars(Claim(i))
         /\ WF_vars(TryLock(i) \/ TryLockFails(i))
         /\ WF_vars(Claim(i) \/ ClaimFails(i))
         /\ WF_vars(StoreStatus(i) \/ StoreStatusFails(i)) /\ WF_vars(Unlock(i))
    /\ \A s \in Sender : WF_vars(SenderStep(s))

FairSpec == Spec /\ Fairness

-----------------------------------------------------------------------------
TypeOK ==
    /\ status \in {"draft", "scheduled", "running", "completed", "failed",
                   "gone"}
    /\ scheduledAt \in {"unset", "ahead", "due"}
    /\ lock \in Instance \cup {None}
    /\ isSending \in BOOLEAN
    /\ worker \in [Instance -> {"down", "idle", "fetched", "locked", "claimed",
                       "starting", "sending", "completed", "failed",
                       "unlocking"}]
    /\ client \in [Client -> {"new", "accepted", "starting", "sending", "done"}]
    /\ request \in [Request -> {"new", "schedule", "unschedule", "reset",
                       "done"}]
    /\ raced \in BOOLEAN
    /\ crashes \in 0..MaxCrashes

\* At most one scheduler worker executes the campaign at any time, through
\* crashes, recoveries by other instances and racing schedule requests.
OneSchedulerRun ==
    \A i, j \in Instance : Executing(i) /\ Executing(j) => i = j

\* A finished status is never shown while a worker is still sending.
FinishedMeansIdle ==
    status \in {"completed", "failed"} => ~\E i \in Instance : Executing(i)

\* Runs of one campaign, those of the workers and those of the clients, never
\* overlap, and nobody can start one while the flag tells the truth: only two
\* that were between IsSending and SetSending(true) at once can be sending at
\* once.  In particular neither the flag that a crash leaves behind, nor its
\* expiry, nor a status that could not be read lets a second run in.
RunsApart ==
    ~raced => \A s, t \in Sender :
                 Sending(s) => isSending /\ (Sending(t) => s = t)

\* A due campaign does not stay in the queue: some worker claims it (or a user
\* takes it back).
DueCampaignLeavesQueue ==
    (status = "scheduled" /\ scheduledAt = "due") ~> (status # "scheduled")

\* send-whatsapp-campaign.go: "campaign is already sending".
OneRunPerCampaign == \A s, t \in Sender : Sending(s) /\ Sending(t) => s = t

\* schedule.go: "Cannot unschedule a campaign that is currently running."
UnscheduleNeverWhileRunning ==
    [][\A r \in Request :
         UnscheduleWrite(r) => ~\E i \in Instance : Executing(i)]_vars
=============================================================================

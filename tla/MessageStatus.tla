--------------------------- MODULE MessageStatus ---------------------------
(***************************************************************************)
(* The handshake between a message sent through the WhatsApp API and the   *)
(* status updates WhatsApp posts for it, for one WhatsApp message id:      *)
(* SendWhatsAppMessageWithAPI and its variant that does not wait           *)
(* (message/service/whatsapp.go), handleStatuses (webhook-in/handler/      *)
(* whatsapp-message-status.go) and the two implementations of              *)
(* MessageStatusSync, Go channels in memory and lists in Redis.            *)
(*                                                                         *)
(* A status may arrive before the row of its message exists, and its       *)
(* handler then waits, under the lock of the message id, for the sender.   *)
(* Every wait has a timeout; one that fires although the other side is     *)
(* still coming is counted in "slow".                                      *)
(***************************************************************************)
EXTENDS Naturals, FiniteSets

CONSTANTS
    Status,       \* the status updates WhatsApp posts for the message
    Sender,       \* the goroutine that sends the message
    Channel,      \* identities of Go channels
    None,
    MaxSlow,      \* timeouts that fire too early
    MaxFailures   \* status rows that cannot be inserted

Party == Status \cup {Sender}

ASSUME PartyAssumption == Sender \notin Status /\ None \notin Party \cup Channel
ASSUME ChannelAssumption ==
    /\ IsFiniteSet(Status)
    /\ IsFiniteSet(Channel) => Cardinality(Channel) > Cardinality(Party)
ASSUME BoundsAssumption == MaxSlow \in Nat /\ MaxFailures \in Nat

VARIABLES
    backend,   \* SYNC_BACKEND
    caller,    \* who sends: api (waits), local (does not), campaign
    add,       \* the sender's AddMessage call
    create,    \* the insertion of the message row
    signal,    \* the sender's MessageSaved or RollbackMessage call
    stage,     \* status -> where its handler is
    got,       \* status -> what AddStatus received as the message id
    holder,    \* holder of the status lock of the message id
    channel,   \* the map entry of the message id, in memory
    ch,        \* party -> the channel it has taken from the map
    tokens,    \* length of the Redis list "status"
    savedKey,  \* content of the Redis list "saved"
    slow,
    failures

config == <<backend, caller>>
memory == <<channel, ch>>
redis  == <<tokens, savedKey>>
bounds == <<slow, failures>>
vars   == <<config, add, create, signal, stage, got, holder, memory, redis,
            bounds>>

Stored == create = "stored"

Stage == {"unsent", "arrived", "locked", "missing", "signalling", "waiting",
          "answered", "linked", "dropped", "ignored"}

\* What AddStatus may receive; a rollback is announced with an empty string.
Answer == {"nothing", "", "id"}

Init ==
    /\ backend \in {"memory", "redis"}
    /\ caller \in {"api", "local", "campaign"}
    /\ add = "idle" /\ create = "idle" /\ signal = "idle"
    /\ stage = [s \in Status |-> "unsent"]
    /\ got = [s \in Status |-> "nothing"]
    /\ holder = None
    /\ channel = None /\ ch = [p \in Party |-> None]
    /\ tokens = 0 /\ savedKey = "nothing"
    /\ slow = 0 /\ failures = 0

(***************************************************************************)
(* Go channels.  A channel is unbuffered: a value passes when one party    *)
(* sends and another receives on it.                                       *)
(***************************************************************************)
\* The map entry is read, and made when there is none.
Obtain(p) ==
    /\ channel' = IF channel # None THEN channel
                  ELSE CHOOSE c \in Channel : \A q \in Party : ch[q] # c
    /\ ch' = [ch EXCEPT ![p] = channel']

Receiving(p) == IF p = Sender THEN add = "waiting" ELSE stage[p] = "waiting"

\* Party q receives v; the party that sent it goes to next.
Receive(q, v) ==
    /\ add' = IF q = Sender THEN "returned" ELSE add
    /\ got' = [s \in Status |-> IF s = q THEN v ELSE got[s]]

\* A timeout that fires too early, or one that was due.
Timeout(early) == slow' = IF early THEN slow + 1 ELSE slow

EarlyAllowed(early) == early => slow < MaxSlow

(***************************************************************************)
(* The sender.  WhatsApp has accepted the message.                         *)
(***************************************************************************)
AddMessage ==
    /\ add = "idle" /\ add' = "waiting"
    /\ IF backend = "memory" THEN Obtain(Sender) ELSE UNCHANGED memory
    /\ UNCHANGED <<config, create, signal, stage, got, holder, redis, bounds>>

\* BLPOP on the status key.
PopStatus ==
    /\ backend = "redis" /\ add = "waiting" /\ tokens > 0
    /\ tokens' = tokens - 1
    /\ add' = "returned"
    /\ UNCHANGED <<config, create, signal, stage, got, holder, memory,
                   savedKey, bounds>>

\* A handler has found no message and is going to signal on the channel AddMessage
\* waits on, or the row takes longer than the timeout.
StatusIsComing ==
    \/ \E s \in Status : stage[s] = "missing" /\ channel = ch[Sender]
    \/ \E s \in Status : stage[s] = "signalling" /\ ch[s] = ch[Sender]
    \/ (caller # "api" /\ create = "idle")

AddMessageTimeout ==
    /\ add = "waiting" /\ tokens = 0
    /\ EarlyAllowed(StatusIsComing) /\ Timeout(StatusIsComing)
    /\ add' = "failed"
    /\ channel' = None /\ ch' = [ch EXCEPT ![Sender] = None]
    /\ UNCHANGED <<config, create, signal, stage, got, holder, redis, failures>>

\* tx.Create: after AddMessage for the caller that waits, beside it otherwise.
Create(result) ==
    /\ create = "idle"
    /\ caller = "api" => add = "returned"
    /\ create' = result
    /\ UNCHANGED <<config, add, signal, stage, got, holder, memory, redis,
                   bounds>>

\* Mutant: MessageSaved is forgotten.
AnnouncesFailure == create = "failed"

\* RollbackMessage always, MessageSaved unless the caller gave a transaction.
Announces == create = "failed" \/ (Stored /\ caller # "campaign")

Message == IF Stored THEN "id" ELSE ""

\* The channel is read from the map; a missing entry is dereferenced.
Signal ==
    /\ backend = "memory" /\ signal = "idle" /\ add = "returned" /\ Announces
    /\ signal' = IF channel = None THEN "panicked" ELSE "sending"
    /\ ch' = [ch EXCEPT ![Sender] = channel]
    /\ UNCHANGED <<config, add, create, stage, got, holder, channel, redis,
                   bounds>>

\* The handler receives the message id; the map entry is deleted.
SignalReceived ==
    /\ signal = "sending"
    /\ \E p \in Status :
         /\ ch[p] = ch[Sender] /\ Receiving(p)
         /\ Receive(p, Message)
         /\ stage' = [stage EXCEPT ![p] = "answered"]
         /\ ch' = [ch EXCEPT ![p] = None, ![Sender] = None]
    /\ signal' = "done" /\ channel' = None
    /\ UNCHANGED <<config, create, holder, redis, bounds>>

SignalTimeout ==
    LET early == \E s \in Status : ch[s] = ch[Sender] /\ Receiving(s)
    IN  /\ signal = "sending"
        /\ EarlyAllowed(early) /\ Timeout(early)
        /\ signal' = "done"
        /\ channel' = None /\ ch' = [ch EXCEPT ![Sender] = None]
        /\ UNCHANGED <<config, add, create, stage, got, holder, redis, failures>>

\* RPUSH on the saved key; the status key is deleted.
PushSaved ==
    /\ backend = "redis" /\ signal = "idle" /\ add = "returned" /\ Announces
    /\ signal' = "done"
    /\ savedKey' = Message /\ tokens' = 0
    /\ UNCHANGED <<config, add, create, stage, got, holder, memory, bounds>>

(***************************************************************************)
(* The handler of status s (handleStatuses).                               *)
(***************************************************************************)
\* WhatsApp posts the status.
Arrive(s) ==
    /\ stage[s] = "unsent"
    /\ stage' = [stage EXCEPT ![s] = "arrived"]
    /\ UNCHANGED <<config, add, create, signal, got, holder, memory, redis,
                   bounds>>

\* Mutant: handlers of the same message id are not serialized.
LockIgnored(s) ==
    /\ stage[s] = "arrived" /\ holder' = s
    /\ stage' = [stage EXCEPT ![s] = "locked"]
    /\ UNCHANGED <<config, add, create, signal, got, memory, redis, bounds>>

Lock(s) ==
    /\ stage[s] = "arrived" /\ holder = None
    /\ holder' = s
    /\ stage' = [stage EXCEPT ![s] = "locked"]
    /\ UNCHANGED <<config, add, create, signal, got, memory, redis, bounds>>

\* GetWamID finds the message: the lock is released, and the status is stored
\* unless the contact is blocked.
Found(s, blocked) ==
    /\ stage[s] = "locked" /\ Stored
    /\ holder' = None
    /\ stage' = [stage EXCEPT ![s] = IF blocked THEN "ignored" ELSE "linked"]
    /\ UNCHANGED <<config, add, create, signal, got, memory, redis, bounds>>

Missing(s) ==
    /\ stage[s] = "locked" /\ ~Stored
    /\ stage' = [stage EXCEPT ![s] = "missing"]
    /\ UNCHANGED <<config, add, create, signal, got, holder, memory, redis,
                   bounds>>

\* AddStatus in memory takes the channel; in Redis it pushes a token.
AddStatus(s) ==
    /\ stage[s] = "missing"
    /\ IF backend = "memory"
       THEN /\ Obtain(s) /\ UNCHANGED redis
            /\ stage' = [stage EXCEPT ![s] = "signalling"]
       ELSE /\ tokens' = tokens + 1 /\ UNCHANGED <<memory, savedKey>>
            /\ stage' = [stage EXCEPT ![s] = "waiting"]
    /\ UNCHANGED <<config, add, create, signal, got, holder, bounds>>

\* Mutant: the map entry is deleted when the two sides have met.
StatusReceivedDeletes(s) ==
    /\ stage[s] = "signalling"
    /\ \E p \in Party :
         /\ ch[p] = ch[s] /\ Receiving(p)
         /\ Receive(p, "")
         /\ stage' = [t \in Status |-> IF t = s THEN "waiting"
                                       ELSE IF t = p THEN "answered"
                                       ELSE stage[t]]
         /\ ch' = [ch EXCEPT ![p] = None]
    /\ channel' = None
    /\ UNCHANGED <<config, create, signal, holder, redis, bounds>>

\* The empty string passes to whoever receives on the channel.
StatusReceived(s) ==
    /\ stage[s] = "signalling"
    /\ \E p \in Party :
         /\ ch[p] = ch[s] /\ Receiving(p)
         /\ Receive(p, "")
         /\ stage' = [t \in Status |-> IF t = s THEN "waiting"
                                       ELSE IF t = p THEN "answered"
                                       ELSE stage[t]]
         /\ ch' = [ch EXCEPT ![p] = None]
    /\ UNCHANGED <<config, create, signal, holder, channel, redis, bounds>>

\* BLPOP on the saved key.
PopSaved(s) ==
    /\ backend = "redis" /\ stage[s] = "waiting" /\ savedKey # "nothing"
    /\ got' = [got EXCEPT ![s] = savedKey]
    /\ savedKey' = "nothing"
    /\ stage' = [stage EXCEPT ![s] = "answered"]
    /\ UNCHANGED <<config, add, create, signal, holder, memory, tokens, bounds>>

\* The sender is still going to receive the status, or to announce the row, and
\* on the same channel.
MessageIsComing(s) ==
    LET inMap == ch[s] = channel
        held == ch[s] = ch[Sender]
    IN  \/ /\ stage[s] = "signalling"
           /\ (add = "idle" /\ inMap) \/ (add = "waiting" /\ held)
        \/ /\ stage[s] = "waiting"
           /\ add = "returned" \/ (backend = "redis" /\ add # "failed")
           /\ create = "idle" \/ Announces
           /\ (signal = "idle" /\ inMap) \/ (signal = "sending" /\ held)

\* Mutant: the timeout leaves the map entry behind.
AddStatusTimeoutKeeps(s) ==
    /\ stage[s] \in {"signalling", "waiting"} /\ savedKey = "nothing"
    /\ EarlyAllowed(MessageIsComing(s)) /\ Timeout(MessageIsComing(s))
    /\ stage' = [stage EXCEPT ![s] = "answered"]
    /\ ch' = [ch EXCEPT ![s] = None]
    /\ UNCHANGED <<config, add, create, signal, got, holder, channel, redis,
                   failures>>

\* Mutant: the wait for the message id has no timeout.
AddStatusTimeoutFirst(s) ==
    /\ stage[s] = "signalling"
    /\ EarlyAllowed(MessageIsComing(s)) /\ Timeout(MessageIsComing(s))
    /\ stage' = [stage EXCEPT ![s] = "answered"]
    /\ channel' = None /\ ch' = [ch EXCEPT ![s] = None]
    /\ UNCHANGED <<config, add, create, signal, got, holder, redis, failures>>

\* AddStatus gives up, in either of its two waits.
AddStatusTimeout(s) ==
    /\ stage[s] \in {"signalling", "waiting"} /\ savedKey = "nothing"
    /\ EarlyAllowed(MessageIsComing(s)) /\ Timeout(MessageIsComing(s))
    /\ stage' = [stage EXCEPT ![s] = "answered"]
    /\ channel' = None /\ ch' = [ch EXCEPT ![s] = None]
    /\ UNCHANGED <<config, add, create, signal, got, holder, redis, failures>>

\* AddStatus has returned: the lock is released, and the status is stored when
\* there is an id.  Any error is swallowed.
Settle(s) ==
    /\ stage[s] = "answered"
    /\ holder' = None
    /\ stage' = [stage EXCEPT ![s] = IF got[s] = "id" THEN "linked" ELSE "dropped"]
    /\ UNCHANGED <<config, add, create, signal, got, memory, redis, bounds>>

\* The status row cannot be inserted: the callback fails, its transaction is
\* rolled back, and WhatsApp posts the status again.
InsertFails(s) ==
    /\ stage[s] = "answered" /\ got[s] = "id"
    /\ failures < MaxFailures /\ failures' = failures + 1
    /\ holder' = None
    /\ stage' = [stage EXCEPT ![s] = "unsent"]
    /\ got' = [got EXCEPT ![s] = "nothing"]
    /\ UNCHANGED <<config, add, create, signal, memory, redis, slow>>

\* The keys expire when nobody is left to read them.
KeysExpire ==
    /\ tokens > 0 \/ savedKey # "nothing"
    /\ \A s \in Status : stage[s] # "waiting"
    /\ tokens' = 0 /\ savedKey' = "nothing"
    /\ UNCHANGED <<config, add, create, signal, stage, got, holder, memory,
                   bounds>>

-----------------------------------------------------------------------------
SenderStep ==
    \/ AddMessage \/ PopStatus \/ AddMessageTimeout
    \/ \E r \in {"stored", "failed"} : Create(r)
    \/ Signal \/ SignalReceived \/ SignalTimeout \/ PushSaved

StatusStep(s) ==
    \/ Lock(s) \/ \E b \in BOOLEAN : Found(s, b)
    \/ Missing(s) \/ AddStatus(s) \/ StatusReceived(s) \/ PopSaved(s)
    \/ AddStatusTimeout(s) \/ Settle(s) \/ InsertFails(s)

\* A panic in the sender's goroutine ends the process.
Next ==
    /\ signal # "panicked"
    /\ \/ SenderStep \/ KeysExpire
       \/ \E s \in Status : Arrive(s) \/ StatusStep(s)

Spec == Init /\ [][Next]_vars

\* Goroutines are scheduled and timers fire.
Alive(A) == signal # "panicked" /\ A

Fairness ==
    /\ WF_vars(Alive(SenderStep))
    /\ \A s \in Status : WF_vars(Alive(StatusStep(s)))

FairSpec == Spec /\ Fairness

(***************************************************************************)
(* Queries: the message by its WhatsApp id, and its statuses.              *)
(***************************************************************************)
GetWamID      == IF Stored THEN {"id"} ELSE {}
GetStatuses   == {s \in Status : Stored /\ stage[s] = "linked"}
CountStatuses == Cardinality(GetStatuses)

(***************************************************************************)
(* Properties.                                                             *)
(***************************************************************************)
TypeOK ==
    /\ backend \in {"memory", "redis"}
    /\ caller \in {"api", "local", "campaign"}
    /\ add \in {"idle", "waiting", "returned", "failed"}
    /\ create \in {"idle", "stored", "failed"}
    /\ signal \in {"idle", "sending", "done", "panicked"}
    /\ stage \in [Status -> Stage] /\ got \in [Status -> Answer]
    /\ holder \in Status \cup {None}
    /\ channel \in Channel \cup {None}
    /\ ch \in [Party -> Channel \cup {None}]
    /\ tokens \in Nat /\ savedKey \in Answer
    /\ slow \in 0..MaxSlow /\ failures \in 0..MaxFailures

\* What AddStatus returns is true: an id only when the row exists, and "message
\* rolled back" only when the insertion failed.  The same channel carries the
\* arrival of a status (also an empty string) and the answer.
AnswerIsTrue ==
    \A s \in Status :
        /\ got[s] = "id" => Stored
        /\ got[s] = "" => create = "failed"

\* No status of a stored message is lost, as long as every timeout that fired
\* was due and the sender announces what it stored: once the callback has been
\* answered, so that WhatsApp does not post it again, the queries find it.
NoStatusLost ==
    LET answered == {s \in Status : stage[s] \in {"linked", "dropped"}}
    IN  slow = 0 /\ caller # "campaign" /\ GetWamID # {} =>
            GetStatuses = answered /\ CountStatuses = Cardinality(answered)

\* The sender finds the channel it signals on, as long as every timeout that
\* fired was due: nobody has deleted the map entry under it.  When all calls
\* have returned the entry is gone ("Remove the channel from the map to prevent
\* leaks").
AllReturned ==
    /\ add \in {"returned", "failed"} /\ create # "idle"
    /\ signal = "done" \/ add = "failed" \/ ~Announces
    /\ \A s \in Status : stage[s] \notin {"signalling", "waiting"}

ChannelWhileNeeded ==
    /\ slow = 0 => signal # "panicked"
    /\ AllReturned => channel = None

\* Every status that arrives is settled: neither the lock nor a wait for the
\* sender holds its handler, and its transaction, for ever.
StatusSettles ==
    \A s \in Status :
        stage[s] = "arrived" ~>
            \/ stage[s] \in {"unsent", "linked", "dropped", "ignored"}
            \/ signal = "panicked"

\* synchronize-message-and-status.go: "You must call MessageSaved after this
\* function": a status whose arrival AddMessage has returned for is answered.
SavedIsAnnounced ==
    slow = 0 /\ Stored => \A s \in Status : stage[s] # "dropped"
=============================================================================

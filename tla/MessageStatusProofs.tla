------------------------ MODULE MessageStatusProofs ------------------------
(***************************************************************************)
(* For any number of status updates, either backend and every caller: what *)
(* a status handler is told about its message is true; and as long as no   *)
(* timeout fires too early, the sender finds the channel it signals on and *)
(* no status of a stored message is lost.                                  *)
(***************************************************************************)
EXTENDS MessageStatus, FiniteSetTheorems, FunctionTheorems, TLAPS

\* Only this much of the type invariant is needed.
Typed ==
    /\ stage \in [Status -> Stage] /\ got \in [Status -> Answer]
    /\ savedKey \in Answer
    /\ create \in {"idle", "stored", "failed"}

\* The stages a handler passes under the lock of the message id.
Inside == {"locked", "missing", "signalling", "waiting", "answered"}

HoldsLock == \A s \in Status : stage[s] \in Inside => holder = s

\* What is on its way to a handler is true as well.
SavedIsTrue ==
    /\ savedKey = "id" => Stored
    /\ savedKey = "" => create = "failed"

SignalIsTrue == signal = "sending" => Announces

AnswerInv ==
    /\ Typed /\ HoldsLock /\ AnswerIsTrue /\ SavedIsTrue /\ SignalIsTrue

LEMMA AnswerInit == Init => AnswerInv
BY PartyAssumption DEF Init, AnswerInv, Typed, Stage, Answer, HoldsLock, Inside, AnswerIsTrue,
   SavedIsTrue, SignalIsTrue

\* The sender's steps that neither announce nor decide the fate of the row.
LEMMA AnswerSender ==
    ASSUME AnswerInv,
           \/ AddMessage \/ PopStatus \/ AddMessageTimeout \/ SignalTimeout
    PROVE  AnswerInv'
<1> USE DEF AnswerInv, Typed, Stage, Answer, HoldsLock, AnswerIsTrue, SavedIsTrue,
            SignalIsTrue, Announces, Stored, config, redis
<1>1. CASE AddMessage
  BY <1>1 DEF AddMessage
<1>2. CASE PopStatus
  BY <1>2 DEF PopStatus
<1>3. CASE AddMessageTimeout
  BY <1>3 DEF AddMessageTimeout
<1>4. CASE SignalTimeout
  BY <1>4 DEF SignalTimeout
<1> QED
  BY <1>1, <1>2, <1>3, <1>4

\* The row is inserted, or not: nobody can have been told before.
LEMMA AnswerCreate ==
    ASSUME AnswerInv, NEW r \in {"stored", "failed"}, Create(r)
    PROVE  AnswerInv'
BY DEF Create, AnswerInv, Typed, Stage, Answer, HoldsLock, AnswerIsTrue, SavedIsTrue,
       SignalIsTrue, Announces, Stored, config, redis

\* The sender announces what happened to the row.
LEMMA AnswerAnnounce ==
    ASSUME AnswerInv, Signal \/ SignalReceived \/ PushSaved
    PROVE  AnswerInv'
<1> USE DEF AnswerInv, Typed, Stage, Answer, HoldsLock, AnswerIsTrue, SavedIsTrue,
            SignalIsTrue, Announces, Stored, Message, config, redis
<1>1. CASE Signal
  BY <1>1 DEF Signal
<1>2. CASE SignalReceived
  <2>1. PICK p \in Status :
             /\ ch[p] = ch[Sender] /\ Receiving(p)
             /\ Receive(p, Message)
             /\ stage' = [stage EXCEPT ![p] = "answered"]
    BY <1>2 DEF SignalReceived
  <2>2. stage[p] = "waiting"
    BY <2>1, PartyAssumption DEF Receiving
  <2>3. Typed' /\ SavedIsTrue' /\ SignalIsTrue'
    BY <1>2, <2>1 DEF SignalReceived, Receive
  <2>4. HoldsLock'
    BY <1>2, <2>1, <2>2 DEF SignalReceived, Inside
  <2>5. AnswerIsTrue'
    BY <1>2, <2>1 DEF SignalReceived, Receive
  <2> QED
    BY <2>3, <2>4, <2>5
<1>3. CASE PushSaved
  BY <1>3 DEF PushSaved
<1> QED
  BY <1>1, <1>2, <1>3

\* A handler signals: only the sender can receive it, for any other receiver
\* would hold the lock too.
LEMMA AnswerStatusReceived ==
    ASSUME AnswerInv, NEW s \in Status, StatusReceived(s)
    PROVE  AnswerInv'
<1> USE DEF AnswerInv, Typed, Stage, Answer, HoldsLock, AnswerIsTrue, SavedIsTrue,
            SignalIsTrue, Announces, Stored, config, redis
<1>1. PICK p \in Party :
           /\ ch[p] = ch[s] /\ Receiving(p)
           /\ Receive(p, "")
           /\ stage' = [t \in Status |-> IF t = s THEN "waiting"
                                         ELSE IF t = p THEN "answered"
                                         ELSE stage[t]]
  BY DEF StatusReceived
<1>2. p = Sender
  <2> SUFFICES ASSUME p \in Status, p # Sender
               PROVE  FALSE
    BY <1>1 DEF Party
  <2>1. stage[p] = "waiting"
    BY <1>1 DEF Receiving
  <2>2. holder = p /\ holder = s
    BY <2>1 DEF Inside, StatusReceived
  <2> QED
    BY <2>1, <2>2 DEF StatusReceived
<1>3. p \notin Status
  BY <1>2, PartyAssumption
<1>4. got' = got
  BY <1>1, <1>3 DEF Receive
<1>5. UNCHANGED <<create, signal, holder, savedKey, caller>>
  BY DEF StatusReceived
<1>6. Typed' /\ AnswerIsTrue' /\ SavedIsTrue' /\ SignalIsTrue'
  BY <1>1, <1>4, <1>5
<1>7. HoldsLock'
  BY <1>1, <1>3, <1>5 DEF Inside, StatusReceived
<1> QED
  BY <1>6, <1>7

\* The other steps of a handler, and the expiry of the keys.
LEMMA AnswerStatus ==
    ASSUME AnswerInv, NEW s \in Status,
           \/ Arrive(s) \/ Lock(s) \/ \E b \in BOOLEAN : Found(s, b)
           \/ Missing(s) \/ AddStatus(s) \/ PopSaved(s)
           \/ AddStatusTimeout(s) \/ Settle(s) \/ InsertFails(s)
    PROVE  AnswerInv'
<1> USE DEF AnswerInv, Typed, Stage, Answer, HoldsLock, Inside, AnswerIsTrue, SavedIsTrue,
            SignalIsTrue, Announces, Stored, config, redis
<1>1. CASE Arrive(s)
  BY <1>1 DEF Arrive
<1>2. CASE Lock(s)
  BY <1>2, PartyAssumption DEF Lock, Party
<1>3. ASSUME NEW b \in BOOLEAN, Found(s, b)
      PROVE  AnswerInv'
  BY <1>3 DEF Found
<1>4. CASE Missing(s)
  BY <1>4 DEF Missing
<1>5. CASE AddStatus(s)
  BY <1>5 DEF AddStatus
<1>6. CASE PopSaved(s)
  BY <1>6 DEF PopSaved
<1>7. CASE AddStatusTimeout(s)
  BY <1>7 DEF AddStatusTimeout
<1>8. CASE Settle(s)
  BY <1>8 DEF Settle
<1>9. CASE InsertFails(s)
  BY <1>9 DEF InsertFails
<1> QED
  BY <1>1, <1>2, <1>3, <1>4, <1>5, <1>6, <1>7, <1>8, <1>9

LEMMA AnswerExpire ==
    ASSUME AnswerInv, KeysExpire \/ UNCHANGED vars
    PROVE  AnswerInv'
BY DEF KeysExpire, vars, AnswerInv, Typed, Stage, Answer, HoldsLock, AnswerIsTrue,
       SavedIsTrue, SignalIsTrue, Announces, Stored, config, redis

LEMMA AnswerStep == AnswerInv /\ [Next]_vars => AnswerInv'
<1> SUFFICES ASSUME AnswerInv, [Next]_vars
             PROVE  AnswerInv'
  OBVIOUS
<1>1. ASSUME SenderStep
      PROVE  AnswerInv'
  BY <1>1, AnswerSender, AnswerCreate, AnswerAnnounce DEF SenderStep
<1>2. ASSUME NEW s \in Status, Arrive(s) \/ StatusStep(s)
      PROVE  AnswerInv'
  BY <1>2, AnswerStatus, AnswerStatusReceived DEF StatusStep
<1>3. CASE KeysExpire \/ UNCHANGED vars
  BY <1>3, AnswerExpire
<1> QED
  BY <1>1, <1>2, <1>3 DEF Next

\* A handler that is given a message id finds the row of the message, and a
\* handler that is told of a rollback has no row to wait for (AddStatus).
THEOREM AnswersAreTrue == Spec => []AnswerIsTrue
<1>1. AnswerInv => AnswerIsTrue
  BY DEF AnswerInv
<1> QED
  BY <1>1, AnswerInit, AnswerStep, PTL DEF Spec
-----------------------------------------------------------------------------
(* Nobody is left alone.  Which calls own which channel, and, as long as   *)
(* every timeout that fired was due, who is still waiting for whom.        *)

ShakeTypes ==
    /\ backend \in {"memory", "redis"}
    /\ caller \in {"api", "local", "campaign"}
    /\ add \in {"idle", "waiting", "returned", "failed"}
    /\ signal \in {"idle", "sending", "done", "panicked"}
    /\ channel \in Channel \cup {None}
    /\ ch \in [Party -> Channel \cup {None}]
    /\ tokens \in Nat /\ slow \in Nat

\* The sender's three calls happen in this order.
CallsInOrder ==
    /\ signal # "idle" => add = "returned" /\ create # "idle" /\ Announces
    /\ caller = "api" /\ add # "returned" => create = "idle"
    /\ savedKey # "nothing" => backend = "redis" /\ signal = "done"

\* A channel is held from the start of a call to its end.
HoldsChannel ==
    /\ backend = "redis" => channel = None /\ signal # "sending"
                            /\ \A p \in Party : ch[p] = None
    /\ ch[Sender] # None <=>
         backend = "memory" /\ (add = "waiting" \/ signal = "sending")
    /\ \A s \in Status :
         /\ ch[s] # None <=>
              backend = "memory" /\ stage[s] \in {"signalling", "waiting"}
         /\ stage[s] = "signalling" => backend = "memory"

\* A handler waits for the message id only after its arrival was received, or
\* left a token.
ArrivalIsKnown ==
    \A s \in Status : stage[s] = "waiting" =>
        IF backend = "memory" THEN add = "returned"
        ELSE add \in {"idle", "waiting"} => tokens > 0

\* The map entry exists only for a call in progress.
EntryIsNeeded ==
    channel # None => \/ add = "waiting" \/ signal = "sending"
                      \/ \E s \in Status : stage[s] \in {"signalling", "waiting"}

ChannelInv ==
    /\ AnswerInv /\ ShakeTypes /\ CallsInOrder /\ HoldsChannel
    /\ ArrivalIsKnown /\ EntryIsNeeded

-----------------------------------------------------------------------------
\* The handlers between "no message found" and the end of AddStatus.
Pending(s) == stage[s] \in {"missing", "signalling", "waiting"}

\* The sender has met a handler and is going to announce the row, or does.
Owing == create = "idle" \/ Announces

OnOneChannel == \A p \in Party : ch[p] # None => ch[p] = channel

\* The sender's call failed only when nobody was coming.
FailedAlone ==
    add = "failed" =>
        /\ caller # "api" => create # "idle"
        /\ Stored => \A s \in Status : ~Pending(s)

\* Whoever owes an announcement has a handler that waits for it.
OwedToSomebody ==
    /\ (add = "returned" /\ signal \in {"idle", "sending"} /\ Owing)
         => \E s \in Status : stage[s] = "waiting"
    /\ (tokens > 0 /\ add \in {"idle", "waiting"} /\ Owing)
         => \E s \in Status : stage[s] = "waiting"

\* After the announcement of a stored row, only the handler it is meant for
\* is pending.
NobodyAfterwards ==
    signal = "done" /\ Stored =>
        \A s \in Status : Pending(s) => stage[s] = "waiting" /\ savedKey # "nothing"

\* No handler has given up on a row that is, or may still be, stored.
NobodyGaveUp ==
    (create = "idle" /\ add # "failed") \/ (Stored /\ caller # "campaign") =>
        \A s \in Status : /\ stage[s] # "dropped"
                          /\ stage[s] = "answered" => got[s] = "id"

MeetInv ==
    slow = 0 => /\ OnOneChannel /\ FailedAlone /\ OwedToSomebody
                /\ NobodyAfterwards /\ NobodyGaveUp /\ signal # "panicked"

ShakeInv == ChannelInv /\ MeetInv
-----------------------------------------------------------------------------

LEMMA FreshChannel ==
    ASSUME ShakeTypes
    PROVE  \E c \in Channel : \A q \in Party : ch[q] # c
<1> SUFFICES ASSUME \A c \in Channel : \E q \in Party : ch[q] = c
             PROVE  FALSE
  OBVIOUS
<1> DEFINE P == {q \in Party : ch[q] \in Channel}
           f == [q \in P |-> ch[q]]
<1>1. f \in [P -> Channel] /\ \A c \in Channel : \E q \in P : f[q] = c
  OBVIOUS
<1>2. f \in Surjection(P, Channel)
  <2> HIDE DEF P, f
  <2> QED
    BY <1>1, Fun_IsSurj
<1>3. IsFiniteSet(Party)
  BY ChannelAssumption, FS_AddElement DEF Party
<1>4. IsFiniteSet(P) /\ Cardinality(P) <= Cardinality(Party)
  BY <1>3, FS_Subset
<1>5. IsFiniteSet(Channel) /\ Cardinality(Channel) <= Cardinality(P)
  <2> HIDE DEF P, f
  <2> QED
    BY <1>2, <1>4, FS_Surjection
<1>6. /\ Cardinality(Channel) \in Nat /\ Cardinality(P) \in Nat
      /\ Cardinality(Party) \in Nat
  BY <1>3, <1>4, <1>5, FS_CardinalityType
<1> QED
  BY <1>4, <1>5, <1>6, ChannelAssumption

\* Whoever obtains a channel gets the one of the map, or a new one that is
\* put there.
LEMMA ObtainGets ==
    ASSUME ShakeTypes, NEW p \in Party, Obtain(p)
    PROVE  /\ channel' \in Channel /\ ch' = [ch EXCEPT ![p] = channel']
           /\ channel # None => channel' = channel
           /\ ch' \in [Party -> Channel \cup {None}]
BY FreshChannel DEF Obtain, ShakeTypes

\* The parties are the sender and the handlers.
LEMMA Parties ==
    /\ Sender \in Party /\ Status \subseteq Party /\ Sender \notin Status
    /\ \A p \in Party : p # Sender => p \in Status
    /\ None \notin Channel /\ None \notin Status
BY PartyAssumption DEF Party

LEMMA ShakeInit == Init => ShakeInv
<1> SUFFICES ASSUME Init
             PROVE  ShakeInv
  OBVIOUS
<1>1. ShakeTypes /\ CallsInOrder /\ HoldsChannel /\ ArrivalIsKnown /\ EntryIsNeeded
  BY Parties DEF Init, ShakeTypes, CallsInOrder, HoldsChannel, ArrivalIsKnown,
                 EntryIsNeeded, Announces
<1>2. MeetInv
  BY Parties DEF Init, MeetInv, OnOneChannel, FailedAlone, OwedToSomebody,
                 NobodyAfterwards, NobodyGaveUp, Stored
<1> QED
  BY <1>1, <1>2, AnswerInit DEF ShakeInv, ChannelInv

\* Under the lock there is one handler at a time.
LEMMA OneInside ==
    ASSUME HoldsLock, NEW s \in Status, NEW t \in Status,
           stage[s] \in Inside, stage[t] \in Inside
    PROVE  s = t
BY DEF HoldsLock

LEMMA ShakeAddMessage ==
    ASSUME ShakeInv, AnswerInv', AddMessage
    PROVE  ShakeInv'
<1> USE DEF ShakeInv, ChannelInv, config, memory, redis, bounds
<1>1. /\ add = "idle" /\ add' = "waiting"
      /\ UNCHANGED <<backend, caller, create, signal, stage, got, holder, tokens,
                     savedKey, slow>>
      /\ signal = "idle" /\ savedKey = "nothing"
  BY DEF AddMessage, CallsInOrder, ShakeTypes
<1>2. CASE backend = "memory"
  <2>1. /\ channel' \in Channel /\ ch' = [ch EXCEPT ![Sender] = channel']
        /\ channel # None => channel' = channel
        /\ ch' \in [Party -> Channel \cup {None}]
    BY <1>2, ObtainGets, Parties DEF AddMessage
  <2>2. ShakeTypes' /\ CallsInOrder' /\ ArrivalIsKnown' /\ EntryIsNeeded'
    BY <1>1, <1>2, <2>1 DEF ShakeTypes, CallsInOrder, ArrivalIsKnown, EntryIsNeeded,
                            Announces, Stored
  <2>3. HoldsChannel'
    BY <1>1, <1>2, <2>1, Parties DEF HoldsChannel, ShakeTypes
  <2>4. MeetInv'
    BY <1>1, <1>2, <2>1, Parties
       DEF MeetInv, OnOneChannel, FailedAlone, OwedToSomebody, NobodyAfterwards,
           NobodyGaveUp, Owing, Announces, Stored, Pending, ShakeTypes
  <2> QED
    BY <2>2, <2>3, <2>4
<1>3. CASE backend = "redis"
  <2>1. UNCHANGED <<channel, ch>>
    BY <1>3 DEF AddMessage
  <2>2. ShakeTypes' /\ CallsInOrder' /\ ArrivalIsKnown' /\ EntryIsNeeded' /\ HoldsChannel'
    BY <1>1, <1>3, <2>1 DEF ShakeTypes, CallsInOrder, ArrivalIsKnown, EntryIsNeeded,
                            HoldsChannel, Announces, Stored
  <2>3. MeetInv'
    BY <1>1, <2>1
       DEF MeetInv, OnOneChannel, FailedAlone, OwedToSomebody, NobodyAfterwards,
           NobodyGaveUp, Owing, Announces, Stored, Pending
  <2> QED
    BY <2>2, <2>3
<1> QED
  BY <1>2, <1>3 DEF ShakeTypes

LEMMA ShakePopStatus ==
    ASSUME ShakeInv, AnswerInv', PopStatus
    PROVE  ShakeInv'
<1> USE DEF ShakeInv, ChannelInv, config, memory, redis, bounds
<1>1. /\ add = "waiting" /\ add' = "returned" /\ tokens > 0 /\ tokens' = tokens - 1
      /\ backend = "redis"
      /\ UNCHANGED <<backend, caller, create, signal, stage, got, holder, channel,
                     ch, savedKey, slow>>
  BY DEF PopStatus
<1>2. ShakeTypes' /\ CallsInOrder' /\ ArrivalIsKnown' /\ EntryIsNeeded' /\ HoldsChannel'
  BY <1>1 DEF ShakeTypes, CallsInOrder, ArrivalIsKnown, EntryIsNeeded,
              HoldsChannel, Announces, Stored
<1>3. MeetInv'
  BY <1>1
     DEF MeetInv, OnOneChannel, FailedAlone, OwedToSomebody, NobodyAfterwards,
         NobodyGaveUp, Owing, Announces, Stored, Pending
<1> QED
  BY <1>2, <1>3

LEMMA ShakeAddMessageTimeout ==
    ASSUME ShakeInv, AnswerInv', AddMessageTimeout
    PROVE  ShakeInv'
<1> USE DEF ShakeInv, ChannelInv, config, memory, redis, bounds
<1>1. /\ add = "waiting" /\ add' = "failed" /\ tokens = 0
      /\ channel' = None /\ ch' = [ch EXCEPT ![Sender] = None]
      /\ slow' = IF StatusIsComing THEN slow + 1 ELSE slow
      /\ UNCHANGED <<backend, caller, create, signal, stage, got, holder, tokens,
                     savedKey>>
      /\ signal = "idle" /\ savedKey = "nothing"
  BY DEF AddMessageTimeout, Timeout, CallsInOrder, ShakeTypes
<1>2. ShakeTypes'
  BY <1>1, Parties DEF ShakeTypes
<1>3. CallsInOrder' /\ ArrivalIsKnown' /\ EntryIsNeeded'
  BY <1>1 DEF CallsInOrder, ArrivalIsKnown, EntryIsNeeded, ShakeTypes
<1>4. HoldsChannel'
  BY <1>1, Parties DEF HoldsChannel, ShakeTypes
<1>5. MeetInv'
  <2> SUFFICES ASSUME slow' = 0
               PROVE  MeetInv'
    BY DEF MeetInv
  <2>1. slow = 0 /\ ~StatusIsComing
    BY <1>1 DEF ShakeTypes
  <2>2. OnOneChannel /\ FailedAlone /\ OwedToSomebody /\ NobodyAfterwards
        /\ NobodyGaveUp
    BY <2>1 DEF MeetInv
  <2>3. \A s \in Status : ~Pending(s)
    <3> SUFFICES ASSUME NEW s \in Status, Pending(s)
                 PROVE  FALSE
      OBVIOUS
    <3>1. CASE stage[s] = "missing"
      BY <1>1, <2>1, <2>2, <3>1, Parties
         DEF StatusIsComing, OnOneChannel, HoldsChannel, ShakeTypes
    <3>2. CASE stage[s] = "signalling"
      BY <1>1, <2>1, <2>2, <3>2, Parties
         DEF StatusIsComing, OnOneChannel, HoldsChannel, ShakeTypes
    <3>3. CASE stage[s] = "waiting"
      BY <1>1, <3>3 DEF ArrivalIsKnown, ShakeTypes
    <3> QED
      BY <3>1, <3>2, <3>3 DEF Pending
  <2>4. OnOneChannel'
    BY <1>1, <2>3, Parties DEF OnOneChannel, HoldsChannel, Pending, ShakeTypes
  <2>5. FailedAlone'
    BY <1>1, <2>1, <2>3 DEF FailedAlone, Pending, StatusIsComing
  <2>6. OwedToSomebody' /\ NobodyAfterwards' /\ NobodyGaveUp'
    BY <1>1, <2>2 DEF OwedToSomebody, NobodyAfterwards, NobodyGaveUp, Stored
  <2> QED
    BY <1>1, <2>4, <2>5, <2>6 DEF MeetInv
<1> QED
  BY <1>2, <1>3, <1>4, <1>5

LEMMA ShakeCreate ==
    ASSUME ShakeInv, AnswerInv', NEW r \in {"stored", "failed"}, Create(r)
    PROVE  ShakeInv'
<1> USE DEF ShakeInv, ChannelInv, config, memory, redis, bounds
<1>1. /\ create = "idle" /\ create' = r /\ (caller = "api" => add = "returned")
      /\ signal = "idle"
      /\ UNCHANGED <<backend, caller, add, signal, stage, got, holder, channel, ch,
                     tokens, savedKey, slow>>
  BY DEF Create, CallsInOrder
<1>2. ShakeTypes' /\ CallsInOrder' /\ ArrivalIsKnown' /\ EntryIsNeeded' /\ HoldsChannel'
  BY <1>1 DEF ShakeTypes, CallsInOrder, ArrivalIsKnown, EntryIsNeeded,
              HoldsChannel
<1>3. MeetInv'
  <2> SUFFICES ASSUME slow = 0
               PROVE  MeetInv'
    BY <1>1 DEF MeetInv
  <2>1. OnOneChannel' /\ OwedToSomebody' /\ NobodyAfterwards'
    BY <1>1 DEF MeetInv, OnOneChannel, OwedToSomebody, NobodyAfterwards, Owing
  <2>2. add # "failed"
    BY <1>1 DEF MeetInv, FailedAlone
  <2>3. FailedAlone' /\ NobodyGaveUp'
    BY <1>1, <2>2 DEF MeetInv, FailedAlone, NobodyGaveUp
  <2> QED
    BY <1>1, <2>1, <2>3 DEF MeetInv
<1> QED
  BY <1>2, <1>3

LEMMA ShakeSignal ==
    ASSUME ShakeInv, AnswerInv', Signal
    PROVE  ShakeInv'
<1> USE DEF ShakeInv, ChannelInv, config, memory, redis, bounds
<1>1. /\ backend = "memory" /\ signal = "idle" /\ add = "returned" /\ Announces
      /\ signal' = IF channel = None THEN "panicked" ELSE "sending"
      /\ ch' = [ch EXCEPT ![Sender] = channel]
      /\ UNCHANGED <<backend, caller, add, create, stage, got, holder, channel,
                     tokens, savedKey, slow>>
      /\ create # "idle" /\ Announces'
  BY DEF Signal, Announces, Stored
<1>2. ShakeTypes' /\ CallsInOrder' /\ ArrivalIsKnown' /\ EntryIsNeeded'
  BY <1>1, Parties DEF ShakeTypes, CallsInOrder, ArrivalIsKnown, EntryIsNeeded
<1>3. HoldsChannel'
  BY <1>1, Parties DEF HoldsChannel, ShakeTypes
<1>4. MeetInv'
  <2> SUFFICES ASSUME slow = 0
               PROVE  MeetInv'
    BY <1>1 DEF MeetInv
  <2>1. channel # None
    <3>1. PICK s \in Status : stage[s] = "waiting"
      BY <1>1 DEF MeetInv, OwedToSomebody, Owing
    <3> QED
      BY <1>1, <3>1, Parties DEF HoldsChannel, MeetInv, OnOneChannel, ShakeTypes
  <2> QED
    BY <1>1, <2>1, Parties
       DEF MeetInv, OnOneChannel, FailedAlone, OwedToSomebody, NobodyAfterwards,
           NobodyGaveUp, Owing, Announces, Stored, Pending, ShakeTypes
<1> QED
  BY <1>2, <1>3, <1>4

\* The announcement meets the only handler inside the lock.
LEMMA ShakeSignalReceived ==
    ASSUME ShakeInv, AnswerInv', SignalReceived
    PROVE  ShakeInv'
<1> USE DEF ShakeInv, ChannelInv, config, memory, redis, bounds
<1>1. PICK p \in Status :
           /\ ch[p] = ch[Sender] /\ Receiving(p)
           /\ Receive(p, Message)
           /\ stage' = [stage EXCEPT ![p] = "answered"]
           /\ ch' = [ch EXCEPT ![p] = None, ![Sender] = None]
  BY DEF SignalReceived
<1>2. /\ stage[p] = "waiting" /\ p # Sender
      /\ signal = "sending" /\ signal' = "done" /\ channel' = None
      /\ add' = add /\ got' = [s \in Status |-> IF s = p THEN Message ELSE got[s]]
      /\ UNCHANGED <<backend, caller, create, holder, tokens, savedKey, slow>>
  BY <1>1, Parties DEF SignalReceived, Receiving, Receive
<1>3. /\ backend = "memory" /\ add = "returned" /\ create # "idle" /\ Announces
      /\ Announces'
  BY <1>2 DEF HoldsChannel, CallsInOrder, ShakeTypes, Announces, Stored
<1>4. stage \in [Status -> Stage]
  BY DEF AnswerInv, Typed
<1>5. \A s \in Status : s # p => stage[s] \notin Inside
  BY <1>2, OneInside DEF AnswerInv, Inside
<1>6. \A s \in Status : stage'[s] = IF s = p THEN "answered" ELSE stage[s]
  BY <1>1, <1>4
<1>7. ShakeTypes' /\ CallsInOrder' /\ ArrivalIsKnown' /\ EntryIsNeeded'
  BY <1>1, <1>2, <1>3, <1>6, Parties
     DEF ShakeTypes, CallsInOrder, ArrivalIsKnown, EntryIsNeeded
<1>8. HoldsChannel'
  BY <1>1, <1>2, <1>3, <1>6, Parties DEF HoldsChannel, ShakeTypes
<1>9. MeetInv'
  <2> SUFFICES ASSUME slow = 0
               PROVE  MeetInv'
    BY <1>2 DEF MeetInv
  <2>1. \A s \in Status : stage'[s] \notin {"missing", "signalling", "waiting"}
    BY <1>5, <1>6 DEF Inside
  <2>2. OnOneChannel'
    BY <1>2, <1>3, <1>8, <2>1, Parties DEF OnOneChannel, HoldsChannel
  <2>3. FailedAlone' /\ OwedToSomebody' /\ NobodyAfterwards'
    BY <1>2, <1>3, <2>1
       DEF FailedAlone, OwedToSomebody, NobodyAfterwards, Pending
  <2>4. NobodyGaveUp'
    BY <1>2, <1>3, <1>6 DEF MeetInv, NobodyGaveUp, Stored, Message
  <2> QED
    BY <1>2, <2>2, <2>3, <2>4 DEF MeetInv
<1> QED
  BY <1>7, <1>8, <1>9

LEMMA ShakeSignalTimeout ==
    ASSUME ShakeInv, AnswerInv', SignalTimeout
    PROVE  ShakeInv'
<1> USE DEF ShakeInv, ChannelInv, config, memory, redis, bounds
<1> DEFINE early == \E s \in Status : ch[s] = ch[Sender] /\ Receiving(s)
<1>1. /\ signal = "sending" /\ signal' = "done"
      /\ channel' = None /\ ch' = [ch EXCEPT ![Sender] = None]
      /\ slow' = IF early THEN slow + 1 ELSE slow
      /\ UNCHANGED <<backend, caller, add, create, stage, got, holder, tokens,
                     savedKey>>
  BY DEF SignalTimeout, Timeout
<1>2. /\ backend = "memory" /\ add = "returned" /\ create # "idle" /\ Announces
      /\ Announces'
  BY <1>1 DEF HoldsChannel, CallsInOrder, ShakeTypes, Announces, Stored
<1>3. ShakeTypes'
  BY <1>1, Parties DEF ShakeTypes
<1>4. CallsInOrder' /\ ArrivalIsKnown' /\ EntryIsNeeded'
  BY <1>1, <1>2 DEF CallsInOrder, ArrivalIsKnown, EntryIsNeeded
<1>5. HoldsChannel'
  BY <1>1, <1>2, Parties DEF HoldsChannel, ShakeTypes
<1>6. slow' # 0
  <2> SUFFICES ASSUME slow = 0
               PROVE  early
    BY <1>1 DEF ShakeTypes
  <2>1. PICK s \in Status : stage[s] = "waiting"
    BY <1>1, <1>2 DEF MeetInv, OwedToSomebody, Owing
  <2>2. ch[s] = channel /\ ch[Sender] = channel
    BY <1>1, <1>2, <2>1, Parties DEF HoldsChannel, MeetInv, OnOneChannel
  <2> QED
    BY <2>1, <2>2, Parties DEF Receiving
<1> QED
  BY <1>3, <1>4, <1>5, <1>6 DEF MeetInv

LEMMA ShakePushSaved ==
    ASSUME ShakeInv, AnswerInv', PushSaved
    PROVE  ShakeInv'
<1> USE DEF ShakeInv, ChannelInv, config, memory, redis, bounds
<1>1. /\ backend = "redis" /\ signal = "idle" /\ add = "returned" /\ Announces
      /\ signal' = "done" /\ savedKey' = Message /\ tokens' = 0
      /\ create # "idle" /\ Announces'
      /\ UNCHANGED <<backend, caller, add, create, stage, got, holder, channel, ch,
                     slow>>
  BY DEF PushSaved, Announces, Stored
<1>2. ShakeTypes' /\ CallsInOrder' /\ ArrivalIsKnown' /\ EntryIsNeeded' /\ HoldsChannel'
  BY <1>1 DEF ShakeTypes, CallsInOrder, ArrivalIsKnown, EntryIsNeeded, HoldsChannel
<1>3. MeetInv'
  <2> SUFFICES ASSUME slow = 0
               PROVE  MeetInv'
    BY <1>1 DEF MeetInv
  <2>1. PICK s \in Status : stage[s] = "waiting"
    BY <1>1 DEF MeetInv, OwedToSomebody, Owing
  <2>2. \A t \in Status : Pending(t) => t = s
    BY <2>1, OneInside DEF AnswerInv, Pending, Inside
  <2>3. NobodyAfterwards'
    BY <1>1, <2>1, <2>2 DEF NobodyAfterwards, Pending, Message
  <2>4. OnOneChannel' /\ FailedAlone' /\ OwedToSomebody' /\ NobodyGaveUp'
    BY <1>1 DEF MeetInv, OnOneChannel, FailedAlone, OwedToSomebody, NobodyGaveUp,
                Stored, Pending
  <2> QED
    BY <1>1, <2>3, <2>4 DEF MeetInv
<1> QED
  BY <1>2, <1>3

LEMMA ShakeKeysExpire ==
    ASSUME ShakeInv, AnswerInv', KeysExpire
    PROVE  ShakeInv'
<1> USE DEF ShakeInv, ChannelInv, config, memory, redis, bounds
<1>1. /\ \A s \in Status : stage[s] # "waiting"
      /\ tokens' = 0 /\ savedKey' = "nothing"
      /\ UNCHANGED <<backend, caller, add, create, signal, stage, got, holder,
                     channel, ch, slow>>
  BY DEF KeysExpire
<1>2. ShakeTypes' /\ CallsInOrder' /\ ArrivalIsKnown' /\ EntryIsNeeded' /\ HoldsChannel'
  BY <1>1 DEF ShakeTypes, CallsInOrder, ArrivalIsKnown, EntryIsNeeded,
              HoldsChannel, Announces, Stored
<1>3. MeetInv'
  BY <1>1 DEF MeetInv, OnOneChannel, FailedAlone, OwedToSomebody,
              NobodyAfterwards, NobodyGaveUp, Owing, Announces, Stored, Pending
<1> QED
  BY <1>2, <1>3
\* Steps of a handler outside the calls: no channel, key or sender is touched.
LEMMA ShakeQuiet ==
    ASSUME ShakeInv, AnswerInv', NEW s \in Status,
           \/ Arrive(s) \/ Lock(s) \/ \E b \in BOOLEAN : Found(s, b)
           \/ Missing(s) \/ Settle(s) \/ InsertFails(s)
    PROVE  ShakeInv'
<1> USE DEF ShakeInv, ChannelInv, config, memory, redis, bounds
<1>1. UNCHANGED <<backend, caller, add, create, signal, channel, ch, tokens,
                  savedKey, slow>>
  BY DEF Arrive, Lock, Found, Missing, Settle, InsertFails
<1>2. /\ stage[s] \notin {"missing", "signalling", "waiting"}
      /\ stage'[s] \notin {"signalling", "waiting"}
      /\ \A t \in Status : t # s => stage'[t] = stage[t] /\ got'[t] = got[t]
  BY DEF Arrive, Lock, Found, Missing, Settle, InsertFails, AnswerInv, Typed
<1>3. ShakeTypes' /\ CallsInOrder' /\ ArrivalIsKnown' /\ EntryIsNeeded'
  BY <1>1, <1>2 DEF ShakeTypes, CallsInOrder, ArrivalIsKnown, EntryIsNeeded,
                    Announces, Stored
<1>4. HoldsChannel'
  BY <1>1, <1>2 DEF HoldsChannel
<1>5. MeetInv'
  <2> SUFFICES ASSUME slow = 0
               PROVE  MeetInv'
    BY <1>1 DEF MeetInv
  <2>1. Pending(s)' => ~Stored
    BY <1>2 DEF Arrive, Lock, Found, Missing, Settle, InsertFails, AnswerInv, Typed,
                Pending
  <2>2. \A t \in Status : t # s => (Pending(t)' <=> Pending(t))
    BY <1>2 DEF Pending
  <2>3. OnOneChannel' /\ FailedAlone' /\ NobodyAfterwards'
    BY <1>1, <1>2, <2>1, <2>2
       DEF MeetInv, OnOneChannel, FailedAlone, NobodyAfterwards, Stored
  <2>4. OwedToSomebody'
    BY <1>1, <1>2 DEF MeetInv, OwedToSomebody, Owing, Announces, Stored
  <2>5. NobodyGaveUp'
    <3> SUFFICES ASSUME (create = "idle" /\ add # "failed")
                          \/ (Stored /\ caller # "campaign"),
                        NEW t \in Status
                 PROVE  /\ stage'[t] # "dropped"
                        /\ stage'[t] = "answered" => got'[t] = "id"
      BY <1>1 DEF NobodyGaveUp, Stored
    <3>1. \A u \in Status : /\ stage[u] # "dropped"
                            /\ stage[u] = "answered" => got[u] = "id"
      BY DEF MeetInv, NobodyGaveUp
    <3>2. CASE t # s
      BY <1>2, <3>1, <3>2
    <3>3. CASE t = s
      BY <3>1, <3>3 DEF Arrive, Lock, Found, Missing, Settle, InsertFails,
                        AnswerInv, Typed
    <3> QED
      BY <3>2, <3>3
  <2> QED
    BY <1>1, <2>3, <2>4, <2>5 DEF MeetInv
<1> QED
  BY <1>3, <1>4, <1>5

LEMMA ShakeAddStatus ==
    ASSUME ShakeInv, AnswerInv', NEW s \in Status, AddStatus(s)
    PROVE  ShakeInv'
<1> USE DEF ShakeInv, ChannelInv, config, memory, redis, bounds
<1>1. /\ stage[s] = "missing"
      /\ UNCHANGED <<backend, caller, add, create, signal, got, holder, savedKey,
                     slow>>
  BY DEF AddStatus
<1>2. \A t \in Status : t # s => stage'[t] = stage[t]
  BY DEF AddStatus, AnswerInv, Typed
<1>3. stage'[s] = IF backend = "memory" THEN "signalling" ELSE "waiting"
  BY DEF AddStatus, AnswerInv, Typed
<1>4. /\ ch' \in [Party -> Channel \cup {None}]
      /\ IF backend = "memory"
         THEN /\ channel' \in Channel /\ ch' = [ch EXCEPT ![s] = channel']
              /\ (channel # None => channel' = channel) /\ tokens' = tokens
         ELSE tokens' = tokens + 1 /\ channel' = channel /\ ch' = ch
  BY ObtainGets, Parties DEF AddStatus, ShakeTypes
<1>5. ShakeTypes' /\ CallsInOrder' /\ ArrivalIsKnown' /\ EntryIsNeeded'
  BY <1>1, <1>2, <1>3, <1>4
     DEF ShakeTypes, CallsInOrder, ArrivalIsKnown, EntryIsNeeded, Announces, Stored
<1>6. HoldsChannel'
  BY <1>1, <1>2, <1>3, <1>4, Parties DEF HoldsChannel, ShakeTypes
<1>7. MeetInv'
  <2> SUFFICES ASSUME slow = 0
               PROVE  MeetInv'
    BY <1>1 DEF MeetInv
  <2>1. OnOneChannel'
    <3>1. CASE backend = "memory"
      BY <1>4, <3>1, Parties DEF MeetInv, OnOneChannel, ShakeTypes
    <3>2. CASE backend # "memory"
      BY <1>4, <3>2 DEF MeetInv, OnOneChannel
    <3> QED
      BY <3>1, <3>2
  <2>2. \A t \in Status : Pending(t)' <=> Pending(t)
    BY <1>1, <1>2, <1>3 DEF Pending
  <2>3. FailedAlone' /\ NobodyAfterwards'
    BY <1>1, <1>2, <2>2 DEF MeetInv, FailedAlone, NobodyAfterwards, Stored, Pending
  <2>4. OwedToSomebody'
    <3>1. \A t \in Status : stage[t] = "waiting" => stage'[t] = "waiting"
      BY <1>1, <1>2
    <3>2. tokens' > 0 => tokens > 0 \/ stage'[s] = "waiting"
      BY <1>3, <1>4 DEF ShakeTypes
    <3> QED
      BY <1>1, <3>1, <3>2 DEF MeetInv, OwedToSomebody, Owing, Announces, Stored
  <2>5. NobodyGaveUp'
    BY <1>1, <1>2, <1>3 DEF MeetInv, NobodyGaveUp, Stored
  <2> QED
    BY <1>1, <2>1, <2>3, <2>4, <2>5 DEF MeetInv
<1> QED
  BY <1>5, <1>6, <1>7

\* The arrival is received by the sender: any other receiver would be inside
\* the lock with s.
LEMMA ShakeStatusReceived ==
    ASSUME ShakeInv, AnswerInv', NEW s \in Status, StatusReceived(s)
    PROVE  ShakeInv'
<1> USE DEF ShakeInv, ChannelInv, config, memory, redis, bounds
<1>1. PICK p \in Party :
           /\ ch[p] = ch[s] /\ Receiving(p)
           /\ Receive(p, "")
           /\ stage' = [t \in Status |-> IF t = s THEN "waiting"
                                         ELSE IF t = p THEN "answered"
                                         ELSE stage[t]]
           /\ ch' = [ch EXCEPT ![p] = None]
  BY DEF StatusReceived
<1>2. /\ stage[s] = "signalling"
      /\ UNCHANGED <<backend, caller, create, signal, holder, channel, tokens,
                     savedKey, slow>>
  BY DEF StatusReceived
<1>3. p = Sender
  <2> SUFFICES ASSUME p \in Status, p # Sender
               PROVE  FALSE
    BY Parties
  <2>1. stage[p] = "waiting"
    BY <1>1 DEF Receiving
  <2> QED
    BY <1>2, <2>1, OneInside DEF Inside, AnswerInv
<1>4. /\ add = "waiting" /\ add' = "returned" /\ got' = got
      /\ backend = "memory" /\ signal = "idle" /\ savedKey = "nothing"
  BY <1>1, <1>2, <1>3, Parties
     DEF Receiving, Receive, AnswerInv, Typed, HoldsChannel, CallsInOrder,
         ShakeTypes
<1>5. \A t \in Status : stage'[t] = IF t = s THEN "waiting" ELSE stage[t]
  BY <1>1, <1>3, Parties
<1>6. ShakeTypes' /\ CallsInOrder' /\ ArrivalIsKnown' /\ EntryIsNeeded'
  BY <1>1, <1>2, <1>3, <1>4, <1>5, Parties
     DEF ShakeTypes, CallsInOrder, ArrivalIsKnown, EntryIsNeeded, Announces, Stored
<1>7. HoldsChannel'
  BY <1>1, <1>2, <1>3, <1>4, <1>5, Parties DEF HoldsChannel, ShakeTypes
<1>8. MeetInv'
  BY <1>1, <1>2, <1>3, <1>4, <1>5, Parties
     DEF MeetInv, OnOneChannel, FailedAlone, OwedToSomebody, NobodyAfterwards,
         NobodyGaveUp, Owing, Announces, Stored, Pending, ShakeTypes
<1> QED
  BY <1>6, <1>7, <1>8

LEMMA ShakePopSaved ==
    ASSUME ShakeInv, AnswerInv', NEW s \in Status, PopSaved(s)
    PROVE  ShakeInv'
<1> USE DEF ShakeInv, ChannelInv, config, memory, redis, bounds
<1>1. /\ backend = "redis" /\ stage[s] = "waiting" /\ savedKey # "nothing"
      /\ savedKey' = "nothing"
      /\ UNCHANGED <<backend, caller, add, create, signal, holder, channel, ch,
                     tokens, slow>>
  BY DEF PopSaved
<1>2. \A t \in Status : /\ stage'[t] = IF t = s THEN "answered" ELSE stage[t]
                        /\ got'[t] = IF t = s THEN savedKey ELSE got[t]
  BY DEF PopSaved, AnswerInv, Typed
<1>3. /\ signal = "done" /\ add = "returned" /\ create # "idle"
      /\ Stored => savedKey = "id"
  BY <1>1 DEF CallsInOrder, AnswerInv, SavedIsTrue, Typed, Answer, Stored
<1>4. \A t \in Status : t # s => ~Pending(t)
  BY <1>1, OneInside DEF AnswerInv, Inside, Pending
<1>5. ShakeTypes' /\ CallsInOrder' /\ ArrivalIsKnown' /\ EntryIsNeeded' /\ HoldsChannel'
  BY <1>1, <1>2 DEF ShakeTypes, CallsInOrder, ArrivalIsKnown, EntryIsNeeded,
              HoldsChannel, Announces, Stored
<1>6. MeetInv'
  BY <1>1, <1>2, <1>3, <1>4
     DEF MeetInv, OnOneChannel, FailedAlone, OwedToSomebody, NobodyAfterwards,
         NobodyGaveUp, Owing, Announces, Stored, Pending
<1> QED
  BY <1>5, <1>6

\* When a wait of a handler ends in its timeout and the timeout was due, the
\* sender holds no channel, and is not going to announce a row that is stored.
LEMMA DueMeansAlone ==
    ASSUME ShakeInv, slow = 0, NEW s \in Status,
           stage[s] \in {"signalling", "waiting"}, savedKey = "nothing",
           ~MessageIsComing(s)
    PROVE  /\ ch[Sender] = None
           /\ ~(create = "idle" /\ add # "failed")
           /\ ~(Stored /\ caller # "campaign")
           /\ ~(add = "returned" /\ signal \in {"idle", "sending"} /\ Owing)
           /\ ~(add \in {"idle", "waiting"} /\ Owing)
<1> USE DEF ShakeInv, ChannelInv
<1>1. OnOneChannel /\ FailedAlone /\ OwedToSomebody /\ NobodyAfterwards
      /\ signal # "panicked"
  BY DEF MeetInv
<1>2. \A t \in Status : stage[t] = "waiting" => t = s
  BY OneInside DEF AnswerInv, Inside
<1>3. add = "returned" /\ signal \in {"idle", "sending"} /\ Owing
        => stage[s] = "waiting"
  BY <1>1, <1>2 DEF OwedToSomebody
<1>4. backend = "memory" => ch[s] = channel /\ channel # None
  BY <1>1, Parties DEF HoldsChannel, OnOneChannel
<1>5. backend = "redis" => ch[s] = channel /\ stage[s] = "waiting"
                           /\ signal # "sending"
  BY Parties DEF HoldsChannel
<1>6. ch[Sender] # None => ch[Sender] = channel /\ backend = "memory"
                           /\ (add = "waiting" \/ signal = "sending")
  BY <1>1, Parties DEF HoldsChannel, OnOneChannel
<1>7. ~(add = "returned" /\ signal \in {"idle", "sending"} /\ Owing)
  <2> SUFFICES ASSUME add = "returned", signal \in {"idle", "sending"}, Owing
               PROVE  MessageIsComing(s)
    OBVIOUS
  <2>1. stage[s] = "waiting" /\ ch[s] = channel
    BY <1>3, <1>4, <1>5 DEF ShakeTypes
  <2>2. signal = "sending" => ch[s] = ch[Sender]
    BY <1>4, <1>5, <1>6 DEF HoldsChannel, ShakeTypes
  <2> QED
    BY <2>1, <2>2 DEF MessageIsComing, Owing
<1>8. ~(add \in {"idle", "waiting"} /\ Owing)
  <2> SUFFICES ASSUME add \in {"idle", "waiting"}, Owing
               PROVE  MessageIsComing(s)
    OBVIOUS
  <2>1. signal = "idle"
    BY DEF CallsInOrder, ShakeTypes
  <2>2. CASE stage[s] = "waiting"
    <3>1. backend = "redis"
      BY <2>2 DEF ArrivalIsKnown, ShakeTypes
    <3> QED
      BY <1>5, <2>1, <2>2, <3>1 DEF MessageIsComing, Owing
  <2>3. CASE stage[s] = "signalling"
    <3>1. backend = "memory"
      BY <2>3 DEF HoldsChannel
    <3>2. add = "waiting" => ch[Sender] = channel
      BY <1>6, <3>1 DEF HoldsChannel
    <3> QED
      BY <1>4, <2>3, <3>1, <3>2 DEF MessageIsComing
  <2> QED
    BY <2>2, <2>3
<1>9. ~(signal = "done" /\ Stored)
  BY <1>1 DEF NobodyAfterwards, Pending
<1>10. ~(add = "failed" /\ Stored)
  BY <1>1 DEF FailedAlone, Pending
<1>11. create = "idle" => signal = "idle" /\ Owing
  BY DEF CallsInOrder, Owing
<1>12. Stored /\ caller # "campaign" => Owing
  BY DEF Owing, Announces
<1>13. ~(add = "waiting" /\ backend = "memory")
  <2> SUFFICES ASSUME add = "waiting", backend = "memory"
               PROVE  FALSE
    OBVIOUS
  <2>1. stage[s] = "signalling"
    BY DEF ArrivalIsKnown
  <2>2. ch[s] = ch[Sender]
    BY <1>4, <1>6 DEF HoldsChannel
  <2> QED
    BY <2>1, <2>2 DEF MessageIsComing
<1>14. ch[Sender] = None
  <2>1. signal = "sending" => add = "returned" /\ Owing
    BY DEF CallsInOrder, Owing
  <2> QED
    BY <1>6, <1>7, <1>13, <2>1
<1>15. ~(create = "idle" /\ add # "failed")
  BY <1>7, <1>8, <1>11 DEF ShakeTypes
<1>16. ~(Stored /\ caller # "campaign")
  <2>1. signal # "idle" => add = "returned"
    BY DEF CallsInOrder
  <2> QED
    BY <1>1, <1>7, <1>8, <1>9, <1>10, <1>12, <2>1 DEF ShakeTypes
<1> QED
  BY <1>7, <1>8, <1>14, <1>15, <1>16

\* A handler gives up.  The map entry goes with it; the other handlers are not
\* in their waits, for it holds the lock.
LEMMA ShakeAddStatusTimeout ==
    ASSUME ShakeInv, AnswerInv', NEW s \in Status, AddStatusTimeout(s)
    PROVE  ShakeInv'
<1> USE DEF ShakeInv, ChannelInv, config, redis
<1>1. /\ stage[s] \in {"signalling", "waiting"} /\ savedKey = "nothing"
      /\ slow' = IF MessageIsComing(s) THEN slow + 1 ELSE slow
      /\ channel' = None
      /\ UNCHANGED <<backend, caller, add, create, signal, got, holder, tokens,
                     savedKey>>
  BY DEF AddStatusTimeout, Timeout
<1>2. \A t \in Status : stage'[t] = IF t = s THEN "answered" ELSE stage[t]
  BY DEF AddStatusTimeout, AnswerInv, Typed
<1>3. /\ ch' \in [Party -> Channel \cup {None}]
      /\ \A p \in Party : ch'[p] = IF p = s THEN None ELSE ch[p]
  BY DEF AddStatusTimeout, ShakeTypes
<1>4. \A t \in Status : t # s => ~Pending(t)
  BY <1>1, OneInside DEF AnswerInv, Inside, Pending
<1>5. slow \in Nat /\ slow' \in Nat /\ (slow' = 0 => slow = 0 /\ ~MessageIsComing(s))
  <2> HIDE DEF config, redis
  <2> QED
    BY <1>1 DEF ShakeTypes
<1>6. ShakeTypes' /\ CallsInOrder' /\ ArrivalIsKnown' /\ EntryIsNeeded'
  BY <1>1, <1>2, <1>3, <1>5 DEF ShakeTypes, CallsInOrder, ArrivalIsKnown, EntryIsNeeded,
              Announces, Stored
<1>7. HoldsChannel'
  BY <1>1, <1>2, <1>3, Parties DEF HoldsChannel
<1>8. ASSUME slow' = 0
      PROVE  /\ OnOneChannel' /\ FailedAlone' /\ OwedToSomebody'
             /\ NobodyAfterwards' /\ NobodyGaveUp' /\ signal' # "panicked"
  <2>1. slow = 0 /\ ~MessageIsComing(s)
    BY <1>5, <1>8
  <2>2. /\ ch[Sender] = None
        /\ ~(create = "idle" /\ add # "failed")
        /\ ~(Stored /\ caller # "campaign")
        /\ ~(add = "returned" /\ signal \in {"idle", "sending"} /\ Owing)
        /\ ~(add \in {"idle", "waiting"} /\ Owing)
    BY <1>1, <2>1, DueMeansAlone
  <2>3. /\ FailedAlone /\ NobodyAfterwards /\ signal # "panicked"
    BY <2>1 DEF MeetInv
  <2>4. OnOneChannel'
    <3>1. \A t \in Status : t # s => ch[t] = None
      BY <1>4 DEF HoldsChannel, Pending
    <3> QED
      BY <1>3, <2>2, <3>1, Parties DEF OnOneChannel
  <2>5. \A t \in Status : Pending(t)' => Pending(t) /\ stage'[t] = stage[t]
    BY <1>2 DEF Pending
  <2>6. FailedAlone' /\ NobodyAfterwards'
    BY <1>1, <1>2, <2>3, <2>5 DEF FailedAlone, NobodyAfterwards, Stored
  <2>7. OwedToSomebody' /\ NobodyGaveUp'
    BY <1>1, <2>2 DEF OwedToSomebody, NobodyGaveUp, Owing, Announces, Stored
  <2> QED
    BY <1>1, <2>3, <2>4, <2>6, <2>7
<1> QED
  BY <1>6, <1>7, <1>8 DEF MeetInv

LEMMA ShakeStep == ShakeInv /\ [Next]_vars => ShakeInv'
<1> SUFFICES ASSUME ShakeInv, [Next]_vars
             PROVE  ShakeInv'
  OBVIOUS
<1>1. AnswerInv'
  BY AnswerStep DEF ShakeInv, ChannelInv
<1>2. ASSUME SenderStep
      PROVE  ShakeInv'
  BY <1>1, <1>2, ShakeAddMessage, ShakePopStatus, ShakeAddMessageTimeout, ShakeCreate,
     ShakeSignal, ShakeSignalReceived, ShakeSignalTimeout, ShakePushSaved
     DEF SenderStep
<1>3. ASSUME NEW s \in Status, Arrive(s) \/ StatusStep(s)
      PROVE  ShakeInv'
  BY <1>1, <1>3, ShakeQuiet, ShakeAddStatus, ShakeStatusReceived, ShakePopSaved,
     ShakeAddStatusTimeout DEF StatusStep
<1>4. CASE KeysExpire
  BY <1>1, <1>4, ShakeKeysExpire
<1>5. CASE UNCHANGED vars
  <2> USE <1>5 DEF vars, config, memory, redis, bounds
  <2>1. ChannelInv'
    BY <1>1 DEF ShakeInv, ChannelInv, ShakeTypes, CallsInOrder, HoldsChannel, ArrivalIsKnown,
                EntryIsNeeded, Announces, Stored
  <2>2. MeetInv'
    BY DEF ShakeInv, MeetInv, OnOneChannel, FailedAlone, OwedToSomebody, NobodyAfterwards,
           NobodyGaveUp, Owing, Announces, Stored, Pending
  <2> QED
    BY <2>1, <2>2 DEF ShakeInv
<1> QED
  BY <1>2, <1>3, <1>4, <1>5 DEF Next

\* As long as every timeout that fired was due, MessageSaved and RollbackMessage
\* find the channel they signal on; and when all the calls have returned, the
\* map entry is gone.
THEOREM ChannelIsThere == Spec => []ChannelWhileNeeded
<1>1. ASSUME ShakeInv
      PROVE  ChannelWhileNeeded
  <2> USE <1>1 DEF ShakeInv, ChannelInv
  <2>1. slow = 0 => signal # "panicked"
    BY DEF MeetInv
  <2>2. signal = "sending" => add = "returned" /\ Announces
    BY DEF CallsInOrder
  <2>3. AllReturned => channel = None
    BY <2>2 DEF EntryIsNeeded, AllReturned
  <2> QED
    BY <2>1, <2>3 DEF ChannelWhileNeeded
<1> QED
  BY <1>1, ShakeInit, ShakeStep, PTL DEF Spec

\* As long as every timeout that fired was due, and the sender announces what
\* it stores, no status of a stored message is lost: what a callback was
\* answered for is what the queries find.
THEOREM StatusesAreKept == Spec => []NoStatusLost
<1>1. ASSUME ShakeInv
      PROVE  NoStatusLost
  <2> DEFINE answered == {s \in Status : stage[s] \in {"linked", "dropped"}}
  <2> SUFFICES ASSUME slow = 0, caller # "campaign", Stored
               PROVE  GetStatuses = answered
    BY DEF NoStatusLost, GetWamID, CountStatuses
  <2>1. \A s \in Status : stage[s] # "dropped"
    BY <1>1 DEF ShakeInv, MeetInv, NobodyGaveUp
  <2> QED
    BY <2>1 DEF GetStatuses
<1> QED
  BY <1>1, ShakeInit, ShakeStep, PTL DEF Spec
=============================================================================

---------------------------- MODULE CampaignSend ----------------------------
(***************************************************************************)
(* One run of a WhatsApp campaign: SendWhatsAppCampaign counts the         *)
(* messages that have no message_id yet, starts one goroutine for each,    *)
(* and every goroutine picks "the unsent row at position *offset" in       *)
(* primary-key order.  The cursor moves right when a row is taken and left *)
(* again when a row leaves the unsent set, both under offsetMu.            *)
(*                                                                         *)
(* While a run is in progress other requests may still insert and delete   *)
(* campaign messages (POST and DELETE /campaign/message check no status).  *)
(*                                                                         *)
(* Primary keys are random UUIDs: here naturals, of which only the order   *)
(* is used.                                                                *)
(***************************************************************************)
EXTENDS Integers, FiniteSets, Sequences

CONSTANTS
    Message,        \* keys of campaign_messages rows, inserted sooner or later
    NoSenderData,   \* the rows whose sender_data is NULL
    None            \* "no row"

ASSUME MessageAssumption ==
    /\ Message \subseteq Nat
    /\ IsFiniteSet(Message)
    /\ NoSenderData \subseteq Message
    /\ None \notin Message

Goroutine == 1..Cardinality(Message)

\* What a goroutine reports: the message was sent, something failed, or there
\* was "no messages to send".
SendResult == {"ok", "error", "empty"}

Progress == {"idle", "spawned", "checked", "holding", "sent", "done"}

VARIABLES
    unsent,      \* rows with message_id IS NULL
    future,      \* rows not inserted yet
    deleted,     \* rows deleted while the run was active
    phase,       \* where SendWhatsAppCampaign is
    outcome,     \* what it returned
    isSending,   \* the channel's "sending" flag
    cancelled,   \* the run's context has been cancelled
    batch,       \* the rows counted when the run started
    offset,      \* the shared cursor, guarded by offsetMu
    pc,          \* goroutine -> where it is
    row,         \* goroutine -> the row it took, if any
    errCh,       \* results posted and not consumed yet
    results,     \* the counters shown to the clients
    accepted,    \* row -> how many times WhatsApp accepted it in this run
    sendErrors,  \* rows with a campaign_message_send_errors record
    unrecorded   \* history: rows whose error could not be written

db    == <<unsent, future, deleted>>
run   == <<phase, outcome, isSending, batch>>
log   == <<sendErrors, unrecorded>>
vars  == <<db, run, cancelled, offset, pc, row, errCh, results, accepted, log>>

-----------------------------------------------------------------------------
\* The place of row m in the rows rs, in primary-key order.
Rank(m, rs) == Cardinality({x \in rs : x < m})

Active == phase \in {"preparing", "sending"}

\* Mutant: the channel holds a single result.
FinishShort(g, err) ==
    /\ Len(errCh) < 1
    /\ pc' = [pc EXCEPT ![g] = "done"]
    /\ errCh' = Append(errCh, err)

\* err of goroutine g reaches the buffered channel as the goroutine ends.  The
\* channel has room for one result per goroutine, whether or not the caller
\* still reads it.
Finish(g, err) ==
    /\ Len(errCh) < Cardinality(batch)
    /\ pc' = [pc EXCEPT ![g] = "done"]
    /\ errCh' = Append(errCh, err)

\* The deferred AddSendError: its own error is dropped.
RecordSendError(m) ==
    \/ sendErrors' = sendErrors \cup {m} /\ UNCHANGED unrecorded
    \/ unrecorded' = unrecorded \cup {m} /\ UNCHANGED sendErrors

(***************************************************************************)
(* What the queries of campaign messages show at any moment.               *)
(***************************************************************************)
GetMessages == Message \ (future \cup deleted)
GetUnsentMessages == unsent
GetSentMessages == GetMessages \ GetUnsentMessages
GetErrors == sendErrors \ deleted
CountMessages == Cardinality(GetMessages)
CountUnsentMessages == Cardinality(GetUnsentMessages)
CountSentMessages == Cardinality(GetSentMessages)

-----------------------------------------------------------------------------
Init ==
    /\ unsent \in SUBSET Message
    /\ future = Message \ unsent
    /\ deleted = {}
    /\ phase = "idle" /\ outcome = "none"
    /\ isSending = FALSE /\ cancelled = FALSE
    /\ batch = {}
    /\ offset = 0
    /\ pc = [g \in Goroutine |-> "idle"]
    /\ row = [g \in Goroutine |-> None]
    /\ errCh = <<>>
    /\ results = [successes |-> 0, errors |-> 0]
    /\ accepted = [m \in Message |-> 0]
    /\ sendErrors = {} /\ unrecorded = {}

(***************************************************************************)
(* SendWhatsAppCampaign, the caller's side.                                *)
(***************************************************************************)
Start ==
    /\ phase = "idle" /\ ~isSending
    /\ phase' = "preparing" /\ isSending' = TRUE
    /\ UNCHANGED <<db, outcome, batch, cancelled, offset, pc, row, errCh,
                   results, accepted, log>>

Return(result) ==
    /\ phase' = "returned" /\ outcome' = result /\ isSending' = FALSE

\* The campaign, its phone configuration or the count cannot be read, or
\* nothing is left to send.
GiveUp ==
    /\ phase = "preparing"
    /\ Return("failed")
    /\ UNCHANGED <<db, batch, cancelled, offset, pc, row, errCh, results,
                   accepted, log>>

Spawn ==
    /\ phase = "preparing" /\ unsent # {}
    /\ phase' = "sending" /\ batch' = unsent
    /\ pc' = [g \in Goroutine |->
                IF g <= Cardinality(unsent) THEN "spawned" ELSE "idle"]
    /\ UNCHANGED <<db, outcome, isSending, cancelled, offset, row, errCh,
                   results, accepted, log>>

\* One result is counted; "no messages to send" ends the whole run at once.
Consume ==
    /\ phase = "sending" /\ errCh # <<>>
    /\ errCh' = Tail(errCh)
    /\ results' = IF Head(errCh) = "ok"
                  THEN [results EXCEPT !.successes = @ + 1]
                  ELSE [results EXCEPT !.errors = @ + 1]
    /\ IF Head(errCh) = "empty"
       THEN Return("failed") /\ cancelled' = TRUE
       ELSE UNCHANGED <<phase, outcome, isSending, cancelled>>
    /\ UNCHANGED <<db, batch, offset, pc, row, accepted, log>>

\* Mutant: errCh is closed without waiting for the goroutines.
CompleteEarly ==
    /\ phase = "sending" /\ errCh = <<>>
    /\ Return("completed")
    /\ UNCHANGED <<db, batch, cancelled, offset, pc, row, errCh, results,
                   accepted, log>>

\* wg.Wait() closed errCh and it has been drained: the run returns no error,
\* whether or not it was cancelled.
Complete ==
    /\ phase = "sending" /\ errCh = <<>>
    /\ \A g \in Goroutine : pc[g] \in {"idle", "done"}
    /\ Return("completed")
    /\ UNCHANGED <<db, batch, cancelled, offset, pc, row, errCh, results,
                   accepted, log>>

\* A client's "cancel" message reaches the run's context.
Cancel ==
    /\ Active /\ ~cancelled
    /\ cancelled' = TRUE
    /\ UNCHANGED <<db, run, offset, pc, row, errCh, results, accepted,
                   log>>

(***************************************************************************)
(* The goroutines.                                                         *)
(***************************************************************************)
\* The context is looked at once, before anything else.
CheckContext(g) ==
    /\ pc[g] = "spawned"
    /\ pc' = [pc EXCEPT ![g] = IF cancelled THEN "done" ELSE "checked"]
    /\ UNCHANGED <<db, run, cancelled, offset, row, errCh, results, accepted,
                   log>>

\* Mutant: the cursor stays where it is.
TakeInPlace(g) ==
    /\ pc[g] = "checked"
    /\ \E m \in unsent :
         /\ Rank(m, unsent) = offset
         /\ row' = [row EXCEPT ![g] = m]
    /\ pc' = [pc EXCEPT ![g] = "holding"]
    /\ UNCHANGED <<db, run, cancelled, offset, errCh, results, accepted,
                   log>>

\* Under offsetMu: read the row at the cursor and move the cursor past it.
Take(g) ==
    /\ pc[g] = "checked"
    /\ \E m \in unsent :
         /\ Rank(m, unsent) = offset
         /\ row' = [row EXCEPT ![g] = m]
    /\ pc' = [pc EXCEPT ![g] = "holding"]
    /\ offset' = offset + 1
    /\ UNCHANGED <<db, run, cancelled, errCh, results, accepted, log>>

\* No row at the cursor: "no messages to send".
TakeNothing(g) ==
    /\ pc[g] = "checked" /\ offset >= Cardinality(unsent)
    /\ offset' = offset + 1
    /\ Finish(g, "empty")
    /\ UNCHANGED <<db, run, cancelled, row, results, accepted, log>>

\* The query itself fails: the cursor moves although no row was taken.
TakeFails(g) ==
    /\ pc[g] = "checked"
    /\ offset' = offset + 1
    /\ Finish(g, "error")
    /\ UNCHANGED <<db, run, cancelled, row, results, accepted, log>>

\* A row without sender data: an error for the caller, none for the row (the
\* deferred AddSendError sees err = nil).
RejectRow(g) ==
    /\ pc[g] = "holding" /\ row[g] \in NoSenderData
    /\ Finish(g, "error")
    /\ UNCHANGED <<db, run, cancelled, offset, row, results, accepted,
                   log>>

\* The contact cannot be resolved, or WhatsApp refuses the message.
SendFails(g) ==
    /\ pc[g] = "holding" /\ row[g] \notin NoSenderData
    /\ RecordSendError(row[g])
    /\ Finish(g, "error")
    /\ UNCHANGED <<db, run, cancelled, offset, row, results, accepted>>

\* WhatsApp accepts the message, and it is stored.
SendAccepted(g) ==
    /\ pc[g] = "holding" /\ row[g] \notin NoSenderData
    /\ accepted' = [accepted EXCEPT ![row[g]] = @ + 1]
    /\ pc' = [pc EXCEPT ![g] = "sent"]
    /\ UNCHANGED <<db, run, cancelled, offset, row, errCh, results,
                   log>>

\* WhatsApp accepts the message, but it cannot be stored.
StoreFails(g) ==
    /\ pc[g] = "holding" /\ row[g] \notin NoSenderData
    /\ accepted' = [accepted EXCEPT ![row[g]] = @ + 1]
    /\ RecordSendError(row[g])
    /\ Finish(g, "error")
    /\ UNCHANGED <<db, run, cancelled, offset, row, results>>

\* Mutant: the cursor does not follow the row out of the unsent set.
LinkKeepsCursor(g) ==
    /\ pc[g] = "sent"
    /\ unsent' = unsent \ {row[g]}
    /\ Finish(g, "ok")
    /\ UNCHANGED <<future, deleted, run, cancelled, offset, row, results,
                   accepted, log>>

\* Under offsetMu: set message_id, so that the row leaves the unsent set, and
\* move the cursor back.  Updating a row that is gone reports no error.
Link(g) ==
    /\ pc[g] = "sent"
    /\ unsent' = unsent \ {row[g]}
    /\ offset' = offset - 1
    /\ Finish(g, "ok")
    /\ UNCHANGED <<future, deleted, run, cancelled, row, results, accepted,
                   log>>

\* Mutant: the cursor moves back although the row stays unsent.
LinkFailsMovesBack(g) ==
    /\ pc[g] = "sent"
    /\ RecordSendError(row[g])
    /\ offset' = offset - 1
    /\ Finish(g, "error")
    /\ UNCHANGED <<db, run, cancelled, row, results, accepted>>

\* The update fails: the row stays unsent, behind the cursor.
LinkFails(g) ==
    /\ pc[g] = "sent"
    /\ RecordSendError(row[g])
    /\ Finish(g, "error")
    /\ UNCHANGED <<db, run, cancelled, offset, row, results, accepted>>

GoroutineStep(g) ==
    \/ CheckContext(g)
    \/ Take(g) \/ TakeNothing(g) \/ TakeFails(g)
    \/ RejectRow(g) \/ SendFails(g) \/ SendAccepted(g) \/ StoreFails(g)
    \/ Link(g) \/ LinkFails(g)

(***************************************************************************)
(* Requests of other clients while the campaign is being sent.             *)
(***************************************************************************)
InsertMessage(m) ==
    /\ m \in future
    /\ future' = future \ {m} /\ unsent' = unsent \cup {m}
    /\ UNCHANGED <<deleted, run, cancelled, offset, pc, row, errCh, results,
                   accepted, log>>

DeleteMessage(m) ==
    /\ m \in unsent
    /\ unsent' = unsent \ {m} /\ deleted' = deleted \cup {m}
    /\ UNCHANGED <<future, run, cancelled, offset, pc, row, errCh, results,
                   accepted, log>>

-----------------------------------------------------------------------------
RunStep ==
    \/ Start \/ GiveUp \/ Spawn \/ Consume \/ Complete \/ Cancel
    \/ \E g \in Goroutine : GoroutineStep(g)

\* The rows some goroutine has taken and that are still unsent.
TakenUnsent == {row[g] : g \in Goroutine} \cap unsent

\* Edits that do not disturb the cursor: new rows sort after every taken row,
\* and no row is deleted while a goroutine is busy with it.
OrderlyEdit(m) ==
    \/ InsertMessage(m) /\ \A t \in TakenUnsent : t < m
    \/ DeleteMessage(m) /\ \A g \in Goroutine :
                              pc[g] \in {"holding", "sent"} => row[g] # m

Next == RunStep \/ \E m \in Message : InsertMessage(m) \/ DeleteMessage(m)

OrderlyNext == RunStep \/ \E m \in Message : OrderlyEdit(m)

\* What the code allows, and the same under orderly edits only.
Spec == Init /\ [][Next]_vars
OrderlySpec == Init /\ [][OrderlyNext]_vars

\* The Go scheduler runs every goroutine that can run; the calls a goroutine
\* makes (database, Graph API) return, with a result or with an error.
Fairness ==
    /\ WF_vars(GiveUp \/ Spawn)
    /\ WF_vars(Consume) /\ WF_vars(Complete)
    /\ \A g \in Goroutine : WF_vars(GoroutineStep(g))

FairSpec == OrderlySpec /\ Fairness

-----------------------------------------------------------------------------
TypeOK ==
    /\ unsent \subseteq Message /\ future \subseteq Message
    /\ deleted \subseteq Message
    /\ phase \in {"idle", "preparing", "sending", "returned"}
    /\ outcome \in {"none", "completed", "failed"}
    /\ isSending \in BOOLEAN /\ cancelled \in BOOLEAN
    /\ batch \subseteq Message
    /\ offset \in Int
    /\ pc \in [Goroutine -> Progress]
    /\ row \in [Goroutine -> Message \cup {None}]
    /\ errCh \in Seq(SendResult)
    /\ results \in [successes : Nat, errors : Nat]
    /\ accepted \in [Message -> Nat]
    /\ sendErrors \subseteq Message /\ unrecorded \subseteq Message

\* No row is handed to WhatsApp twice in one run, however the goroutines
\* interleave and whichever of their calls fail.
AtMostOneSend == \A m \in Message : accepted[m] <= 1

\* As long as no row is deleted under a run, a goroutine that is about to
\* take a row finds one: the "no messages to send" exit, which abandons the
\* run, is never taken.
NeverRunsDry ==
    deleted = {} =>
      \A g \in Goroutine : pc[g] = "checked" => offset < Cardinality(unsent)

\* As long as no row is deleted under a run, no goroutine is still sending
\* when the flag that keeps a second run away is cleared.
QuietWhenNotSending ==
    (deleted = {} /\ ~isSending) =>
      \A g \in Goroutine : pc[g] \in {"idle", "done"}

\* A run that ends normally, was not cancelled and met no query error has
\* attempted as many different rows as it counted.  Each of them is found among
\* the sent messages or the errors, or could not be sent at all, or its error
\* could not be written: then it is still unsent, where the next run finds it.
\* The counters shown to the clients miss none of them, and agree with the
\* counts of the database.
RunIsAccounted ==
    LET taken == {row[g] : g \in 1..Cardinality(batch)}
    IN  (/\ outcome = "completed" /\ ~cancelled /\ deleted = {}
         /\ None \notin taken)
        => /\ Cardinality(taken) = Cardinality(batch)
           /\ taken \subseteq GetSentMessages \cup GetErrors \cup NoSenderData
                               \cup (unrecorded \cap GetUnsentMessages)
           /\ results.successes + results.errors = Cardinality(batch)
           /\ results.successes = CountSentMessages
           /\ results.successes = CountMessages - CountUnsentMessages

\* A run that started returns, so that the flag does not stay set for ever, and
\* none of its goroutines stays behind for ever, whether or not the caller
\* still reads their results.
RunReturns ==
    (phase = "preparing") ~>
        (phase = "returned" /\ \A g \in Goroutine : pc[g] \in {"idle", "done"})
=============================================================================

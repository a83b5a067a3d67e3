---------------------------- MODULE Subscription ----------------------------
(***************************************************************************)
(* The purchase of one plan: a checkout session at the payment provider,   *)
(* the rows of "subscriptions" that stand for it, the events the provider  *)
(* posts to /billing/webhook/stripe, and the users who cancel, reactivate  *)
(* or synchronise the subscription meanwhile.                              *)
(*                                                                         *)
(* Every handler reads a row in one statement, may ask the provider, and   *)
(* writes all columns of what it read in another; nothing orders two       *)
(* handlers.  The provider posts an event until it is answered with 200,   *)
(* in no particular order, and sometimes again afterwards.                 *)
(*                                                                         *)
(* Time is counted in periods of the plan (duration_days).  CancelledAt is *)
(* set wherever Status becomes "cancelled" and nowhere else.               *)
(***************************************************************************)
EXTENDS Integers, FiniteSets

CONSTANTS
    Worker,         \* requests that are handled at the same time
    Row,            \* primary keys of subscriptions; only their order is used
    NoRow,
    MaxPeriods,     \* bound on time
    MaxRequests,    \* bound on requests to synchronise or cancel
    MaxFaults       \* bound on failures, on events posted again although they
                    \* were answered, and on cancellations taken back

ASSUME SubscriptionAssumption ==
    /\ Row \subseteq Int /\ NoRow \notin Row
    /\ MaxPeriods \in Nat /\ MaxRequests \in Nat
    /\ MaxFaults \in Nat

VARIABLES
    mode,        \* payment mode of the checkout: payment or subscription
    now,
    row,         \* key -> subscription
    stripe,      \* the provider's session and subscription
    outbox,      \* events that have not been answered with 200
    job,         \* worker -> the request it handles
    requests,
    faults

vars == <<mode, now, row, stripe, outbox, job, requests, faults>>

RowStatus == {"none", "pending", "active", "cancelled"}

Subscription ==
    [status : RowStatus, starts : Nat, expires : Nat,
     ending : BOOLEAN,   \* cancel_at_period_end
     linked : BOOLEAN]   \* stripe_subscription_id is set

Absent == [status |-> "none", starts |-> 0, expires |-> 0,
           ending |-> FALSE, linked |-> FALSE]

\* "ending" and "resumed" are customer.subscription.updated with
\* cancel_at_period_end true and false.
EventType == {"none", "completed", "paid", "deleted", "ending", "resumed"}
Event(type, until) == [type |-> type, until |-> until]
NoEvent == Event("none", 0)

Step == {"idle", "insert", "findActive", "findPending", "activate", "create",
         "find", "renew", "findEnded", "markCancelled", "flagRows", "ask", "save",
         "askCancel", "askReactivate", "flagOn", "flagOff"}

\* What the provider answers: the session, and the subscription it started.
Answer == [session : {"none", "open", "paid", "expired"},
           status : {"none", "active", "past_due", "canceled"},
           ending : BOOLEAN, until : Nat]

Silence == [session |-> "none", status |-> "none", ending |-> FALSE, until |-> 0]

NoJob == [step |-> "idle", event |-> NoEvent, key |-> NoRow, copy |-> Absent,
          told |-> Silence]

Init ==
    /\ mode \in {"payment", "subscription"}
    /\ now = 0
    /\ row = [r \in Row |-> Absent]
    /\ stripe = Silence
    /\ outbox = {}
    /\ job = [w \in Worker |-> NoJob]
    /\ requests = 0 /\ faults = 0

-----------------------------------------------------------------------------
(***************************************************************************)
(* Steps of a request.                                                     *)
(***************************************************************************)
Begin(w, step) ==
    /\ job[w].step = "idle"
    /\ job' = [job EXCEPT ![w].step = step]

Goto(w, from, to) ==
    /\ job[w].step = from
    /\ job' = [job EXCEPT ![w].step = to]

\* Row r is chosen, and read into memory with all of its columns.
Choose(w, r, from, to) ==
    /\ job[w].step = from
    /\ job' = [job EXCEPT ![w].step = to, ![w].key = r]

Read(w, r, from, to) ==
    /\ job[w].step = from
    /\ job' = [job EXCEPT ![w].step = to, ![w].key = r, ![w].copy = row[r]]

Finish(w) == job' = [job EXCEPT ![w] = NoJob]

\* DB.Save: the columns of what was read and changed overwrite the row.
Save(w, sub) == row' = [row EXCEPT ![job[w].key] = sub]

\* A 200 for the provider, which may nevertheless post the event again.
Acknowledge(w) ==
    \/ outbox' = outbox \ {job[w].event} /\ UNCHANGED faults
    \/ /\ faults < MaxFaults /\ faults' = faults + 1
       /\ UNCHANGED outbox

\* The row with the lowest key of those that satisfy a query.
First(r, rows) == r \in rows /\ \A s \in rows : r <= s

IsActive(r)     == row[r].status = "active"
IsPending(r)    == row[r].status = "pending"
IsLinked(r)     == row[r].linked
IsRenewable(r)  == row[r].linked /\ row[r].status # "cancelled"

Unused(r) == row[r].status = "none"

\* Stripe started a subscription with the session, or took one payment.
Links == mode = "subscription"

Activated(sub) ==
    [sub EXCEPT !.status = "active", !.starts = now, !.expires = now + 1,
                !.linked = IF Links THEN TRUE ELSE @]

Cancelled(sub) == [sub EXCEPT !.status = "cancelled"]

-----------------------------------------------------------------------------
(***************************************************************************)
(* POST /billing/subscription/checkout: the session, then a pending row.   *)
(* Without the row the event of the payment creates one.                   *)
(***************************************************************************)
Checkout(w) ==
    /\ stripe.session = "none"
    /\ Begin(w, "insert")
    /\ stripe' = [stripe EXCEPT !.session = "open"]
    /\ UNCHANGED <<mode, now, row, outbox, requests, faults>>

CreatePending(w, r) ==
    /\ job[w].step = "insert" /\ Unused(r)
    /\ row' = [row EXCEPT ![r] = [Absent EXCEPT !.status = "pending",
                                     !.starts = now, !.expires = now + 1]]
    /\ Finish(w)
    /\ UNCHANGED <<mode, now, stripe, outbox, requests, faults>>

(***************************************************************************)
(* checkout.session.completed: ActivateSubscription looks for an active    *)
(* row of the session, then for a pending one, and else creates one.       *)
(***************************************************************************)
Deliver(w, e) ==
    /\ e \in outbox /\ job[w].step = "idle"
    /\ job' = [job EXCEPT ![w].event = e,
                 ![w].step = CASE e.type = "completed" -> "findActive"
                               [] e.type = "paid"      -> "find"
                               [] e.type = "deleted"   -> "findEnded"
                               [] OTHER                -> "flagRows"]
    /\ UNCHANGED <<mode, now, row, stripe, outbox, requests, faults>>

\* Mutant: the query has lost its condition on the status.
FoundAny(w) ==
    /\ job[w].step = "findActive" /\ \E r \in Row : ~Unused(r)
    /\ Acknowledge(w) /\ Finish(w)
    /\ UNCHANGED <<mode, now, row, stripe, requests>>

FoundActive(w) ==
    /\ job[w].step = "findActive" /\ \E r \in Row : IsActive(r)
    /\ Acknowledge(w) /\ Finish(w)
    /\ UNCHANGED <<mode, now, row, stripe, requests>>

FoundNoActive(w) ==
    /\ ~\E r \in Row : IsActive(r)
    /\ Goto(w, "findActive", "findPending")
    /\ UNCHANGED <<mode, now, row, stripe, outbox, requests, faults>>

FindPending(w) ==
    /\ \/ \E r \in Row : /\ First(r, {s \in Row : IsPending(s)})
                         /\ Read(w, r, "findPending", "activate")
       \/ (~\E r \in Row : IsPending(r)) /\ Goto(w, "findPending", "create")
    /\ UNCHANGED <<mode, now, row, stripe, outbox, requests, faults>>

Activate(w) ==
    /\ job[w].step = "activate"
    /\ Save(w, Activated(job[w].copy))
    /\ Acknowledge(w) /\ Finish(w)
    /\ UNCHANGED <<mode, now, stripe, requests>>

CreateActive(w, r) ==
    /\ job[w].step = "create" /\ Unused(r)
    /\ row' = [row EXCEPT ![r] = Activated(Absent)]
    /\ Acknowledge(w) /\ Finish(w)
    /\ UNCHANGED <<mode, now, stripe, requests>>

(***************************************************************************)
(* invoice.paid, customer.subscription.deleted and .updated.               *)
(***************************************************************************)
FindRenewable(w) ==
    /\ \E r \in Row : /\ First(r, {s \in Row : IsRenewable(s)})
                      /\ Read(w, r, "find", "renew")
    /\ UNCHANGED <<mode, now, row, stripe, outbox, requests, faults>>

\* No row has this subscription yet, or it is cancelled: a warning is logged.
SkipRenewal(w) ==
    /\ job[w].step = "find" /\ ~\E r \in Row : IsRenewable(r)
    /\ Acknowledge(w) /\ Finish(w)
    /\ UNCHANGED <<mode, now, row, stripe, requests>>

\* Mutant: one more period instead of the end of the paid one.
RenewByOne(w) ==
    /\ job[w].step = "renew"
    /\ Save(w, [job[w].copy EXCEPT !.expires = @ + 1])
    /\ Acknowledge(w) /\ Finish(w)
    /\ UNCHANGED <<mode, now, stripe, requests>>

Renew(w) ==
    /\ job[w].step = "renew"
    /\ Save(w, [job[w].copy EXCEPT !.expires = job[w].event.until])
    /\ Acknowledge(w) /\ Finish(w)
    /\ UNCHANGED <<mode, now, stripe, requests>>

\* When there is no row the answer is 500 and the event comes again.
FindEnded(w) ==
    /\ \E r \in Row : /\ First(r, {s \in Row : IsLinked(s)})
                      /\ row[r].status # "cancelled"
                      /\ Read(w, r, "findEnded", "markCancelled")
    /\ UNCHANGED <<mode, now, row, stripe, outbox, requests, faults>>

AlreadyCancelled(w) ==
    /\ job[w].step = "findEnded"
    /\ \E r \in Row : First(r, {s \in Row : IsLinked(s)}) /\ row[r].status = "cancelled"
    /\ Acknowledge(w) /\ Finish(w)
    /\ UNCHANGED <<mode, now, row, stripe, requests>>

NothingEnded(w) ==
    /\ job[w].step = "findEnded" /\ ~\E r \in Row : IsLinked(r)
    /\ Finish(w)
    /\ UNCHANGED <<mode, now, row, stripe, outbox, requests, faults>>

MarkCancelled(w) ==
    /\ job[w].step = "markCancelled"
    /\ Save(w, Cancelled(job[w].copy))
    /\ Acknowledge(w) /\ Finish(w)
    /\ UNCHANGED <<mode, now, stripe, requests>>

\* One UPDATE of one column; finding no row is only logged.
FlagRows(w) ==
    /\ job[w].step = "flagRows"
    /\ row' = [r \in Row |-> IF IsLinked(r)
                  THEN [row[r] EXCEPT !.ending = (job[w].event.type = "ending")]
                  ELSE row[r]]
    /\ Acknowledge(w) /\ Finish(w)
    /\ UNCHANGED <<mode, now, stripe, requests>>

(***************************************************************************)
(* POST /billing/subscription/sync.                                        *)
(***************************************************************************)
Requested ==
    /\ requests < MaxRequests /\ requests' = requests + 1
    /\ UNCHANGED <<mode, now, row, stripe, outbox, faults>>

SyncRead(w, r) ==
    /\ IsPending(r) \/ (Links /\ IsLinked(r))
    /\ Read(w, r, "idle", "ask")
    /\ Requested

SyncAsk(w) ==
    /\ job[w].step = "ask"
    /\ job' = [job EXCEPT ![w].step = "save",
                 ![w].told = IF job[w].copy.status = "pending"
                             THEN [Silence EXCEPT !.session = stripe.session]
                             ELSE [stripe EXCEPT !.session = "none"]]
    /\ UNCHANGED <<mode, now, row, stripe, outbox, requests, faults>>

\* Mutant: whatever is not expired counts as paid.
SyncPendingUnpaid(w) ==
    /\ job[w].step = "save" /\ job[w].copy.status = "pending"
    /\ IF job[w].told.session = "expired" THEN Save(w, Cancelled(job[w].copy))
                                          ELSE Save(w, Activated(job[w].copy))
    /\ Finish(w)
    /\ UNCHANGED <<mode, now, stripe, outbox, requests, faults>>

\* Mutant: an open session is saved as well.
SyncPendingSaves(w) ==
    /\ job[w].step = "save" /\ job[w].copy.status = "pending"
    /\ \/ job[w].told.session = "paid" /\ Save(w, Activated(job[w].copy))
       \/ job[w].told.session = "expired" /\ Save(w, Cancelled(job[w].copy))
       \/ job[w].told.session = "open" /\ Save(w, job[w].copy)
    /\ Finish(w)
    /\ UNCHANGED <<mode, now, stripe, outbox, requests, faults>>

\* What the session of a pending row says.
SyncPending(w) ==
    /\ job[w].step = "save" /\ job[w].copy.status = "pending"
    /\ \/ job[w].told.session = "paid" /\ Save(w, Activated(job[w].copy))
       \/ job[w].told.session = "expired" /\ Save(w, Cancelled(job[w].copy))
       \/ job[w].told.session = "open" /\ UNCHANGED row
    /\ Finish(w)
    /\ UNCHANGED <<mode, now, stripe, outbox, requests, faults>>

\* A subscription that is not being paid for has no access from now on.
Synced(sub, told) ==
    [sub EXCEPT
        !.expires = IF told.status = "active" THEN told.until
                    ELSE IF @ > now THEN now ELSE @,
        !.ending = told.ending,
        !.status = IF told.status = "canceled" THEN "cancelled" ELSE @]

SyncActive(w) ==
    /\ job[w].step = "save" /\ job[w].copy.status # "pending"
    /\ Save(w, Synced(job[w].copy, job[w].told))
    /\ Finish(w)
    /\ UNCHANGED <<mode, now, stripe, outbox, requests, faults>>

(***************************************************************************)
(* DELETE /billing/subscription and POST /billing/subscription/reactivate: *)
(* the provider is told first, if it knows the row, then one column is     *)
(* written.                                                                *)
(***************************************************************************)
CancelRead(w, r) ==
    /\ row[r].status \in {"pending", "active"} /\ mode = "subscription"
    /\ Choose(w, r, "idle", IF IsLinked(r) THEN "askCancel" ELSE "flagOn")
    /\ Requested

ReactivateRead(w, r) ==
    /\ row[r].status \in {"pending", "active"} /\ mode = "subscription"
    /\ row[r].ending
    /\ Choose(w, r, "idle", IF IsLinked(r) THEN "askReactivate" ELSE "flagOff")
    /\ faults < MaxFaults /\ faults' = faults + 1
    /\ UNCHANGED <<mode, now, row, stripe, outbox, requests>>

\* A subscription that has ended cannot be updated; a change is announced.
AskProvider(w) ==
    /\ stripe.status # "canceled"
    /\ \E on \in BOOLEAN :
        /\ IF on THEN Goto(w, "askCancel", "flagOn")
                 ELSE Goto(w, "askReactivate", "flagOff")
        /\ stripe' = [stripe EXCEPT !.ending = on]
        /\ outbox' = IF stripe.ending = on THEN outbox
                     ELSE outbox \cup {Event(IF on THEN "ending" ELSE "resumed", 0)}
    /\ UNCHANGED <<mode, now, row, requests, faults>>

FlagRow(w) ==
    /\ job[w].step \in {"flagOn", "flagOff"}
    /\ row' = [row EXCEPT ![job[w].key].ending = (job[w].step = "flagOn")]
    /\ Finish(w)
    /\ UNCHANGED <<mode, now, stripe, outbox, requests, faults>>

(***************************************************************************)
(* A statement or a call fails, or the process dies: what was done stays.  *)
(* A failed renewal or flag is only logged; other events come again.       *)
(***************************************************************************)
Fail(w) ==
    /\ job[w].step # "idle"
    /\ faults < MaxFaults /\ faults' = faults + 1
    /\ \/ job[w].event.type \in {"paid", "ending", "resumed"}
          /\ outbox' = outbox \ {job[w].event}
       \/ UNCHANGED outbox
    /\ Finish(w)
    /\ UNCHANGED <<mode, now, row, stripe, requests>>

\* ActivateSubscription takes every error of a query for: no such row.
Misread(w) ==
    /\ faults < MaxFaults /\ faults' = faults + 1
    /\ \/ Goto(w, "findActive", "findPending") \/ Goto(w, "findPending", "create")
    /\ UNCHANGED <<mode, now, row, stripe, outbox, requests>>

\* The provider refuses to update a subscription that has ended.
Refused(w) ==
    /\ job[w].step \in {"askCancel", "askReactivate"} /\ stripe.status = "canceled"
    /\ Finish(w)
    /\ UNCHANGED <<mode, now, row, stripe, outbox, requests, faults>>

-----------------------------------------------------------------------------
(***************************************************************************)
(* The payment provider.                                                   *)
(***************************************************************************)
Quiet == UNCHANGED <<mode, row, job, requests, faults>>

\* The user has the URL only when Checkout has returned.
Pay ==
    /\ stripe.session = "open" /\ \A w \in Worker : job[w].step # "insert"
    /\ stripe' = [stripe EXCEPT !.session = "paid",
                     !.status = IF Links THEN "active" ELSE "none",
                     !.until = IF Links THEN now + 1 ELSE 0]
    /\ outbox' = outbox \cup {Event("completed", 0)}
                        \cup (IF Links THEN {Event("paid", now + 1)} ELSE {})
    /\ UNCHANGED now /\ Quiet

SessionExpires ==
    /\ stripe.session = "open"
    /\ stripe' = [stripe EXCEPT !.session = "expired"]
    /\ UNCHANGED <<now, outbox>> /\ Quiet

PeriodOver == stripe.until <= now

\* The next period is paid, or an overdue one.
Invoice ==
    /\ stripe.status \in {"active", "past_due"} /\ PeriodOver /\ ~stripe.ending
    /\ stripe' = [stripe EXCEPT !.status = "active", !.until = now + 1]
    /\ outbox' = outbox \cup {Event("paid", now + 1)}
    /\ UNCHANGED now /\ Quiet

PaymentFails ==
    /\ stripe.status = "active" /\ PeriodOver /\ ~stripe.ending
    /\ stripe' = [stripe EXCEPT !.status = "past_due"]
    /\ UNCHANGED <<now, outbox>> /\ Quiet

SubscriptionEnds ==
    /\ PeriodOver
    /\ stripe.status = "past_due" \/ (stripe.status = "active" /\ stripe.ending)
    /\ stripe' = [stripe EXCEPT !.status = "canceled"]
    /\ outbox' = outbox \cup {Event("deleted", 0)}
    /\ UNCHANGED now /\ Quiet

\* The provider renews, or gives up, when a period is over.
Tick ==
    /\ now < MaxPeriods
    /\ stripe.status = "active" => ~PeriodOver
    /\ now' = now + 1
    /\ UNCHANGED <<stripe, outbox>> /\ Quiet

-----------------------------------------------------------------------------
UserRequest(w) ==
    \/ Checkout(w)
    \/ \E r \in Row : SyncRead(w, r) \/ CancelRead(w, r) \/ ReactivateRead(w, r)

HandlerStep(w) ==
    \/ FoundActive(w) \/ FoundNoActive(w) \/ FindPending(w) \/ Activate(w)
    \/ FindRenewable(w) \/ SkipRenewal(w) \/ Renew(w)
    \/ FindEnded(w) \/ AlreadyCancelled(w) \/ NothingEnded(w) \/ MarkCancelled(w)
    \/ FlagRows(w) \/ SyncAsk(w) \/ SyncPending(w) \/ SyncActive(w)
    \/ AskProvider(w) \/ Refused(w) \/ FlagRow(w)
    \/ \E r \in Row : CreatePending(w, r) \/ CreateActive(w, r)

ProviderStep ==
    \/ Pay \/ SessionExpires \/ Invoice \/ PaymentFails \/ SubscriptionEnds
    \/ Tick

Next ==
    \/ ProviderStep
    \/ \E w \in Worker : \/ UserRequest(w) \/ HandlerStep(w)
                         \/ Fail(w) \/ Misread(w)
                         \/ \E e \in outbox : Deliver(w, e)

Spec == Init /\ [][Next]_vars

\* Requests that were taken up go on, and the provider posts the event of a
\* payment until it is answered.  Users need not do anything.
Fairness ==
    /\ \A w \in Worker : WF_vars(HandlerStep(w))
    /\ SF_vars(\E w \in Worker : Deliver(w, Event("completed", 0)))

FairSpec == Spec /\ Fairness

(***************************************************************************)
(* Properties.                                                             *)
(***************************************************************************)
TypeOK ==
    /\ mode \in {"payment", "subscription"} /\ now \in Nat
    /\ row \in [Row -> Subscription] /\ stripe \in Answer
    /\ outbox \subseteq [type : EventType, until : Nat]
    /\ job \in [Worker -> [step : Step, event : [type : EventType, until : Nat],
                           key : Row \cup {NoRow}, copy : Subscription,
                           told : Answer]]
    /\ requests \in 0..MaxRequests /\ faults \in 0..MaxFaults

\* Nobody gets a subscription that was not paid for: an active row exists only
\* after the session was paid, whatever was read before.
ActiveIsPaid ==
    \A r \in Row : row[r].status = "active" => stripe.session = "paid"

\* A row never gives access beyond one period from its activation, or the last
\* period that the provider was paid for, although renewals, synchronisations
\* and activations write rows they read long ago.
NoFreePeriod ==
    \A r \in Row :
        \/ row[r].expires <= row[r].starts + 1
        \/ row[r].expires <= stripe.until

\* A row that was activated or cancelled is never pending again: no slow
\* request writes back what it read before the payment.
PendingIsLeftForGood ==
    [][\A r \in Row : row[r].status \in {"active", "cancelled"} =>
         row'[r].status \in {"active", "cancelled"}]_vars

\* A payment leads to a subscription, although the pending row may be missing,
\* statements fail, and events are posted late, twice or in any order.
PaymentIsHonoured ==
    (stripe.session = "paid") ~>
        (\E r \in Row : row[r].status \in {"active", "cancelled"})

\* "Idempotency: if already active for this externalID, return it": one payment
\* gives one active row.
OneActivePerPayment ==
    \A r, s \in Row : IsActive(r) /\ IsActive(s) => r = s
=============================================================================

---------------------------- MODULE BillingProofs ----------------------------
(***************************************************************************)
(* What holds of billing for any number of requests, rows, plans, prices,  *)
(* customers and failures: of the rows of a subscription that is paid for, *)
(* of the budgets that requests are charged against, and of the catalogue  *)
(* that plans are sold from.                                               *)
(*                                                                         *)
(* The three modules have no name in common but those of PlanNames.  Sums  *)
(* over sets come between the first and the second.                        *)
(***************************************************************************)
EXTENDS Subscription, Throughput, Catalog, FiniteSetTheorems, WellFoundedInduction, TLAPS

(* Subscriptions: an active row was paid for.                              *)

\* The parts of the state that the arguments need the types of.
Typed ==
    /\ now \in Nat
    /\ row \in [Row -> Subscription]
    /\ stripe \in Answer
    /\ outbox \subseteq [type : EventType, until : Nat]
    /\ job \in [Worker -> [step : Step, event : [type : EventType, until : Nat],
                           key : Row \cup {NoRow}, copy : Subscription,
                           told : Answer]]

\* A step that writes a row has a key to write to.
Keyed ==
    \A w \in Worker :
        job[w].step \in {"activate", "renew", "markCancelled", "ask", "save",
                         "flagOn", "flagOff", "askCancel", "askReactivate"}
            => job[w].key \in Row

TypeInv == Typed /\ Keyed

LEMMA SubscriptionOperators ==
  ASSUME NEW sub \in Subscription, NEW told \in Answer, now \in Nat
  PROVE  /\ Absent \in Subscription
         /\ Activated(sub) \in Subscription
         /\ Cancelled(sub) \in Subscription
         /\ Synced(sub, told) \in Subscription
<1>1. Absent \in Subscription
  BY DEF Subscription, RowStatus, Absent
<1>2. Activated(sub) \in Subscription
  <2>1. ASSUME NEW m \in Nat
        PROVE  [sub EXCEPT !.status = "active", !.starts = now, !.expires = m,
                           !.linked = IF Links THEN TRUE ELSE @] \in Subscription
    BY DEF Subscription, RowStatus
  <2>2. now + 1 \in Nat
    OBVIOUS
  <2> QED
    BY <2>1, <2>2 DEF Activated
<1>3. Cancelled(sub) \in Subscription
  BY DEF Subscription, RowStatus, Cancelled
<1>4. Synced(sub, told) \in Subscription
  <2>1. /\ told.until \in Nat /\ told.ending \in BOOLEAN
        /\ sub.expires \in Nat /\ sub.status \in RowStatus
    BY DEF Subscription, Answer
  <2>2. (IF told.status = "active" THEN told.until
          ELSE IF sub.expires > now THEN now ELSE sub.expires) \in Nat
    BY <2>1
  <2>3. (IF told.status = "canceled" THEN "cancelled" ELSE sub.status) \in RowStatus
    BY <2>1 DEF RowStatus
  <2> QED
    BY <2>1, <2>2, <2>3 DEF Subscription, Synced
<1> QED
  BY <1>1, <1>2, <1>3, <1>4

LEMMA NoJobType ==
  /\ NoEvent \in [type : EventType, until : Nat]
  /\ NoJob \in [step : Step, event : [type : EventType, until : Nat],
                key : Row \cup {NoRow}, copy : Subscription, told : Answer]
  /\ NoJob.step = "idle"
BY DEF NoEvent, Event, EventType, NoJob, Step, Subscription, RowStatus, Absent, Answer, Silence

LEMMA TypeInit == Init => TypeInv
<1> SUFFICES ASSUME Init PROVE TypeInv
  OBVIOUS
<1>1. Absent \in Subscription /\ Silence \in Answer
  BY DEF Absent, Silence, Subscription, RowStatus, Answer
<1> QED
  BY <1>1, NoJobType DEF Init, TypeInv, Typed, Keyed

Job == [step : Step, event : [type : EventType, until : Nat],
        key : Row \cup {NoRow}, copy : Subscription, told : Answer]

\* A request that only moves on, or reads a row.
LEMMA GotoType ==
  ASSUME TypeInv, NEW w \in Worker, NEW from, NEW to \in Step \ {"activate",
         "renew", "markCancelled", "ask", "save", "flagOn", "flagOff",
         "askCancel", "askReactivate"}, Goto(w, from, to)
  PROVE  job' \in [Worker -> Job] /\ Keyed'
<1>1. job[w] \in Job /\ job \in [Worker -> Job]
  BY DEF TypeInv, Typed, Job
<1> QED
  BY <1>1 DEF Goto, TypeInv, Keyed, Job

LEMMA ReadType ==
  ASSUME TypeInv, NEW w \in Worker, NEW from, NEW to \in Step, NEW r \in Row,
         Read(w, r, from, to)
  PROVE  job' \in [Worker -> Job] /\ Keyed'
<1>1. job[w] \in Job /\ job \in [Worker -> Job] /\ row[r] \in Subscription
  BY DEF TypeInv, Typed, Job
<1> QED
  BY <1>1 DEF Read, TypeInv, Keyed, Job

LEMMA ChooseType ==
  ASSUME TypeInv, NEW w \in Worker, NEW from, NEW to \in Step, NEW r \in Row,
         Choose(w, r, from, to)
  PROVE  job' \in [Worker -> Job] /\ Keyed'
<1>1. job[w] \in Job /\ job \in [Worker -> Job]
  BY DEF TypeInv, Typed, Job
<1> QED
  BY <1>1 DEF Choose, TypeInv, Keyed, Job

LEMMA FinishType ==
  ASSUME TypeInv, NEW w \in Worker, Finish(w)
  PROVE  job' \in [Worker -> Job] /\ Keyed'
<1>1. job[w] \in Job /\ job \in [Worker -> Job]
  BY DEF TypeInv, Typed, Job
<1> QED
  BY <1>1, NoJobType DEF Finish, TypeInv, Keyed, Job

\* A request that ends by writing a row.
LEMMA SaveType ==
  ASSUME TypeInv, NEW sub \in Subscription, NEW w \in Worker, Save(w, sub)
  PROVE  row' \in [Row -> Subscription]
BY DEF Save, TypeInv, Typed

LEMMA AcknowledgeType ==
  ASSUME TypeInv, NEW w \in Worker, Acknowledge(w)
  PROVE  outbox' \subseteq outbox
BY DEF Acknowledge

LEMMA HandlerType ==
  ASSUME TypeInv, NEW w \in Worker, HandlerStep(w)
  PROVE  TypeInv'
<1> USE DEF TypeInv, Typed
<1>0. /\ job[w] \in Job /\ job[w].copy \in Subscription
      /\ job[w].told \in Answer /\ job[w].event.until \in Nat
  BY DEF Job
<1> HIDE DEF TypeInv, Typed
<1>1. CASE FoundActive(w)
  BY <1>1, AcknowledgeType, FinishType DEF FoundActive, TypeInv, Typed, Job
<1>2. CASE FoundNoActive(w)
  BY <1>2, GotoType DEF FoundNoActive, Step, TypeInv, Typed, Job
<1>3. CASE FindPending(w)
  <2>1. CASE \E r \in Row : Read(w, r, "findPending", "activate")
    BY <1>3, <2>1, ReadType DEF FindPending, Step, TypeInv, Typed, Job
  <2>2. CASE Goto(w, "findPending", "create")
    BY <1>3, <2>2, GotoType DEF FindPending, Step, TypeInv, Typed, Job
  <2> QED
    BY <1>3, <2>1, <2>2 DEF FindPending
<1>4. CASE Activate(w)
  <2>1. Activated(job[w].copy) \in Subscription
    BY <1>0, SubscriptionOperators DEF TypeInv, Typed
  <2> QED
    BY <1>4, <2>1, SaveType, AcknowledgeType, FinishType DEF Activate, TypeInv, Typed, Job
<1>5. CASE MarkCancelled(w)
  <2>1. Cancelled(job[w].copy) \in Subscription
    BY <1>0, SubscriptionOperators DEF TypeInv, Typed
  <2> QED
    BY <1>5, <2>1, SaveType, AcknowledgeType, FinishType DEF MarkCancelled, TypeInv, Typed, Job
<1>6. CASE Renew(w)
  <2>1. [job[w].copy EXCEPT !.expires = job[w].event.until] \in Subscription
    BY <1>0, SubscriptionOperators DEF Subscription, TypeInv, Typed
  <2> QED
    BY <1>6, <2>1, SaveType, AcknowledgeType, FinishType DEF Renew, TypeInv, Typed, Job
<1>7. CASE FindRenewable(w)
  BY <1>7, ReadType DEF FindRenewable, Step, TypeInv, Typed, Job
<1>8. CASE SkipRenewal(w)
  BY <1>8, AcknowledgeType, FinishType DEF SkipRenewal, TypeInv, Typed, Job
<1>9. CASE FindEnded(w)
  BY <1>9, ReadType DEF FindEnded, Step, TypeInv, Typed, Job
<1>10. CASE AlreadyCancelled(w)
  BY <1>10, AcknowledgeType, FinishType DEF AlreadyCancelled, TypeInv, Typed, Job
<1>11. CASE NothingEnded(w)
  BY <1>11, AcknowledgeType, FinishType DEF NothingEnded, TypeInv, Typed, Job
<1>12. CASE FlagRows(w)
  <2>1. row' \in [Row -> Subscription]
    <3>1. (job[w].event.type = "ending") \in BOOLEAN /\ row \in [Row -> Subscription]
      BY DEF TypeInv, Typed
    <3>2. \A r \in Row, b \in BOOLEAN : [row[r] EXCEPT !.ending = b] \in Subscription
      BY <3>1 DEF Subscription
    <3> QED
      BY <1>12, <3>1, <3>2 DEF FlagRows
  <2> QED
    BY <1>12, <2>1, AcknowledgeType, FinishType DEF FlagRows, TypeInv, Typed, Job
<1>13. CASE SyncAsk(w)
  <2>1. /\ [Silence EXCEPT !.session = stripe.session] \in Answer
        /\ [stripe EXCEPT !.session = "none"] \in Answer
    BY <1>13 DEF Silence, Answer, TypeInv, Typed
  <2>2. PICK told \in Answer :
          job' = [job EXCEPT ![w].step = "save", ![w].told = told]
    BY <1>13, <2>1 DEF SyncAsk
  <2>3. job[w] \in Job /\ job[w].key \in Row
    BY <1>0, <1>13 DEF SyncAsk, TypeInv, Typed, Keyed, Job
  <2>4. job' \in [Worker -> Job]
    BY <2>2, <2>3 DEF TypeInv, Typed, Job, Step
  <2>5. Keyed'
    BY <2>2, <2>3 DEF TypeInv, Typed, Keyed, Job
  <2> QED
    BY <1>13, <2>4, <2>5 DEF SyncAsk, TypeInv, Typed, Job
<1>14. CASE SyncPending(w)
  <2>1. Activated(job[w].copy) \in Subscription /\ Cancelled(job[w].copy) \in Subscription
    BY <1>0, SubscriptionOperators DEF TypeInv, Typed
  <2>2. row' \in [Row -> Subscription]
    BY <1>14, <2>1, SaveType DEF SyncPending, TypeInv, Typed
  <2> QED
    BY <1>14, <2>2, FinishType DEF SyncPending, TypeInv, Typed, Job
<1>15. CASE SyncActive(w)
  <2>1. Synced(job[w].copy, job[w].told) \in Subscription
    BY <1>0, SubscriptionOperators DEF TypeInv, Typed
  <2> QED
    BY <1>15, <2>1, SaveType, AcknowledgeType, FinishType DEF SyncActive, TypeInv, Typed, Job
<1>16. CASE AskProvider(w)
  <2>1. PICK on \in BOOLEAN :
          /\ IF on THEN Goto(w, "askCancel", "flagOn")
                   ELSE Goto(w, "askReactivate", "flagOff")
          /\ stripe' = [stripe EXCEPT !.ending = on]
          /\ outbox' = IF stripe.ending = on THEN outbox
                       ELSE outbox \cup {Event(IF on THEN "ending" ELSE "resumed", 0)}
    BY <1>16 DEF AskProvider
  <2>2. stripe' \in Answer
    BY <2>1 DEF TypeInv, Typed, Answer
  <2>3. outbox' \subseteq [type : EventType, until : Nat]
    BY <2>1 DEF TypeInv, Typed, Event, EventType
  <2>4. job' \in [Worker -> Job] /\ Keyed'
    BY <1>0, <2>1 DEF Goto, TypeInv, Typed, Keyed, Job, Step
  <2> QED
    BY <1>16, <2>2, <2>3, <2>4 DEF AskProvider, TypeInv, Typed, Job
<1>17. CASE Refused(w)
  BY <1>17, AcknowledgeType, FinishType DEF Refused, TypeInv, Typed, Job
<1>18. CASE FlagRow(w)
  <2> DEFINE on == job[w].step = "flagOn"
             flagged(r) == [row[r] EXCEPT !.ending = on]
  <2>1. ASSUME NEW r \in Row  PROVE flagged(r) \in Subscription
    <3>1. row[r] \in Subscription /\ on \in BOOLEAN
      BY DEF TypeInv, Typed
    <3> QED
      BY <3>1 DEF Subscription
  <2>2. row' = [r \in Row |-> IF r = job[w].key THEN flagged(r) ELSE row[r]]
    BY <1>18 DEF FlagRow, TypeInv, Typed
  <2>3. row' \in [Row -> Subscription]
    BY <2>1, <2>2 DEF TypeInv, Typed
  <2> QED
    BY <1>18, <2>3, FinishType DEF FlagRow, TypeInv, Typed, Job
<1>19. CASE \E r \in Row : CreatePending(w, r)
  <2>1. [Absent EXCEPT !.status = "pending", !.starts = now, !.expires = now + 1]
          \in Subscription
    <3>1. ASSUME NEW m \in Nat, NEW n \in Nat
          PROVE  [Absent EXCEPT !.status = "pending", !.starts = n, !.expires = m]
                   \in Subscription
      BY DEF Absent, Subscription, RowStatus
    <3>2. now \in Nat /\ now + 1 \in Nat
      BY DEF TypeInv, Typed
    <3> QED
      BY <3>1, <3>2
  <2> QED
    BY <1>19, <2>1, FinishType DEF CreatePending, TypeInv, Typed, Job
<1>20. CASE \E r \in Row : CreateActive(w, r)
  <2>1. Activated(Absent) \in Subscription
    BY <1>0, SubscriptionOperators DEF TypeInv, Typed
  <2> QED
    BY <1>20, <2>1, FinishType, AcknowledgeType DEF CreateActive, TypeInv, Typed, Job
<1> QED
  BY <1>1, <1>2, <1>3, <1>4, <1>5, <1>6, <1>7, <1>8, <1>9, <1>10, <1>11,
      <1>12, <1>13, <1>14, <1>15, <1>16, <1>17, <1>18, <1>19, <1>20 DEF HandlerStep

LEMMA OtherType ==
  ASSUME TypeInv,
         \/ ProviderStep
         \/ \E w \in Worker : \/ UserRequest(w) \/ Fail(w) \/ Misread(w)
                             \/ \E e \in outbox : Deliver(w, e)
  PROVE  TypeInv'
<1>1. CASE ProviderStep
  <2>1. now \in Nat /\ now + 1 \in Nat /\ stripe \in Answer
    BY DEF TypeInv, Typed
  <2>2. stripe' \in Answer
    <3>1. ASSUME NEW m \in Nat
          PROVE  /\ [stripe EXCEPT !.session = "paid",
                       !.status = IF Links THEN "active" ELSE "none",
                       !.until = IF Links THEN m ELSE 0] \in Answer
                 /\ [stripe EXCEPT !.status = "active", !.until = m] \in Answer
      BY <2>1 DEF Answer
    <3>2. Pay \/ Invoice => stripe' \in Answer
      BY <2>1, <3>1 DEF Pay, Invoice
    <3>3. SessionExpires \/ PaymentFails \/ SubscriptionEnds \/ Tick => stripe' \in Answer
      BY <2>1 DEF SessionExpires, PaymentFails, SubscriptionEnds, Tick, Answer
    <3> QED
      BY <1>1, <3>2, <3>3 DEF ProviderStep
  <2>3. now' \in Nat
    BY <1>1, <2>1 DEF ProviderStep, Pay, SessionExpires, Invoice, PaymentFails,
          SubscriptionEnds, Tick
  <2>4. outbox' \subseteq [type : EventType, until : Nat]
    BY <1>1, <2>1 DEF ProviderStep, Pay, SessionExpires, Invoice, PaymentFails,
          SubscriptionEnds, Tick, TypeInv, Typed, Event, EventType
  <2> QED
    BY <1>1, <2>2, <2>3, <2>4 DEF ProviderStep, Pay, SessionExpires, Invoice, PaymentFails,
          SubscriptionEnds, Tick, Quiet, TypeInv, Typed, Keyed
<1>2. ASSUME NEW w \in Worker, UserRequest(w) PROVE TypeInv'
  <2>1. CASE Checkout(w)
    <3>1. job[w] \in Job
      BY DEF TypeInv, Typed, Job
    <3>2. stripe' \in Answer
      BY <2>1 DEF Checkout, TypeInv, Typed, Answer
    <3>3. job' \in [Worker -> Job] /\ Keyed'
      BY <2>1, <3>1 DEF Checkout, Begin, TypeInv, Typed, Keyed, Job, Step
    <3> QED
      BY <2>1, <3>2, <3>3 DEF Checkout, TypeInv, Typed, Job
  <2>2. ASSUME NEW r \in Row, SyncRead(w, r) PROVE TypeInv'
    BY <2>2, ReadType DEF SyncRead, Requested, TypeInv, Typed, Job, Step
  <2>3. ASSUME NEW r \in Row, CancelRead(w, r) \/ ReactivateRead(w, r) PROVE TypeInv'
    <3>1. /\ job' \in [Worker -> Job] /\ Keyed'
          /\ UNCHANGED <<mode, now, row, stripe, outbox>>
      BY <2>3, ChooseType DEF CancelRead, ReactivateRead, Requested, Step
    <3> QED
      BY <3>1 DEF TypeInv, Typed, Job
  <2> QED
    BY <1>2, <2>1, <2>2, <2>3 DEF UserRequest
<1>3. ASSUME NEW w \in Worker, Fail(w) PROVE TypeInv'
  <2>1. outbox' \subseteq outbox
    BY <1>3 DEF Fail
  <2> QED
    BY <1>3, <2>1, FinishType DEF Fail, TypeInv, Typed, Job
<1>4. ASSUME NEW w \in Worker, NEW e \in outbox, Deliver(w, e) PROVE TypeInv'
  <2>1. job[w] \in Job /\ e \in [type : EventType, until : Nat]
    BY DEF TypeInv, Typed, Job
  <2>2. PICK to \in {"findActive", "find", "findEnded", "flagRows"} :
          job' = [job EXCEPT ![w].event = e, ![w].step = to]
    BY <1>4 DEF Deliver
  <2>3. job' \in [Worker -> Job] /\ Keyed'
    BY <2>1, <2>2 DEF TypeInv, Typed, Keyed, Job, Step
  <2> QED
    BY <1>4, <2>3 DEF Deliver, TypeInv, Typed, Job
<1>5. ASSUME NEW w \in Worker, Misread(w) PROVE TypeInv'
  BY <1>5, GotoType DEF Misread, TypeInv, Typed, Job, Step
<1> QED
  BY <1>1, <1>2, <1>3, <1>4, <1>5

LEMMA TypeStep == TypeInv /\ [Next]_vars => TypeInv'
<1>1. CASE UNCHANGED vars
  BY <1>1 DEF vars, TypeInv, Typed, Keyed
<1> QED
  BY <1>1, HandlerType, OtherType DEF Next

-----------------------------------------------------------------------------
(***************************************************************************)
(* What is known of a row, of what a request read of it, and of the        *)
(* provider.  Grows orders the states of the provider: a payment is never  *)
(* taken back.                                                             *)
(***************************************************************************)
Grows(s, t) ==
    /\ s.session = "paid" => t.session = "paid"
    /\ s.until <= t.until

Sound(sub, s) ==
    /\ sub.status = "active" => s.session = "paid"
    /\ sub.expires <= sub.starts + 1 \/ sub.expires <= s.until
    /\ sub.linked => sub.status \in {"active", "cancelled"}

Paying == {"findActive", "findPending", "activate", "create"}

SoundEvent(e, s) ==
    /\ e.type = "completed" => s.session = "paid"
    /\ e.type = "paid" => e.until <= s.until

SoundJob(j, s) ==
    /\ Sound(j.copy, s) /\ Grows(j.told, s) /\ SoundEvent(j.event, s)
    /\ j.step \in Paying => s.session = "paid"
    /\ j.step \in {"find", "renew"} => j.event.type = "paid"
    /\ j.step = "renew" => j.copy.status = "active"
    /\ j.step \in {"ask", "save"} => j.copy.status # "none"

SoundState ==
    /\ stripe.session # "paid" => stripe.status = "none" /\ stripe.until = 0
    /\ \A r \in Row : Sound(row[r], stripe)
    /\ \A w \in Worker : SoundJob(job[w], stripe)
    /\ \A e \in outbox : SoundEvent(e, stripe)

PurchaseInv == TypeInv /\ SoundState

LEMMA SoundGrows ==
  ASSUME NEW s \in Answer, NEW t \in Answer, Grows(s, t), NEW sub \in Subscription
  PROVE  Sound(sub, s) => Sound(sub, t)
BY DEF Sound, Grows, Answer, Subscription

LEMMA SoundJobGrows ==
  ASSUME NEW s \in Answer, NEW t \in Answer, Grows(s, t), NEW j \in Job
  PROVE  SoundJob(j, s) => SoundJob(j, t)
<1>1. Sound(j.copy, s) => Sound(j.copy, t)
  BY SoundGrows DEF Job
<1>2. SoundEvent(j.event, s) => SoundEvent(j.event, t)
  BY DEF SoundEvent, Grows, Answer, Job
<1>3. Grows(j.told, s) => Grows(j.told, t)
  BY DEF Grows, Answer, Job
<1> QED
  BY <1>1, <1>2, <1>3 DEF SoundJob, Grows

LEMMA SoundOperators ==
  ASSUME NEW s \in Answer, NEW sub \in Subscription, now \in Nat
  PROVE  /\ Sound(Absent, s)
         /\ s.session = "paid" => Sound(Activated(sub), s)
         /\ Sound(sub, s) => Sound(Cancelled(sub), s)
         /\ \A n \in Nat : Sound(sub, s) /\ sub.status = "active" /\ n <= s.until
              => Sound([sub EXCEPT !.expires = n], s)
         /\ \A b \in BOOLEAN : Sound(sub, s) => Sound([sub EXCEPT !.ending = b], s)
         /\ \A told \in Answer :
              Sound(sub, s) /\ Grows(told, s) /\ sub.status \in {"active", "cancelled"}
                => Sound(Synced(sub, told), s)
<1>1. Sound(Absent, s)
  BY DEF Sound, Absent
<1>2. s.session = "paid" => Sound(Activated(sub), s)
  BY DEF Sound, Activated, Subscription
<1>3. Sound(sub, s) => Sound(Cancelled(sub), s)
  BY DEF Sound, Cancelled, Subscription
<1>4. ASSUME NEW n \in Nat, Sound(sub, s), n <= s.until
      PROVE  Sound([sub EXCEPT !.expires = n], s)
  BY <1>4 DEF Sound, Subscription
<1>5. ASSUME NEW b \in BOOLEAN, Sound(sub, s) PROVE Sound([sub EXCEPT !.ending = b], s)
  BY <1>5 DEF Sound, Subscription
<1>6. ASSUME NEW told \in Answer, Sound(sub, s), Grows(told, s),
             sub.status \in {"active", "cancelled"}
      PROVE  Sound(Synced(sub, told), s)
  BY <1>6 DEF Sound, Synced, Grows, Subscription, Answer
<1> QED
  BY <1>1, <1>2, <1>3, <1>4, <1>5, <1>6

LEMMA SoundInit == Init => SoundState
<1> SUFFICES ASSUME Init PROVE SoundState
  OBVIOUS
<1>1. Sound(Absent, Silence) /\ SoundEvent(NoEvent, Silence)
  BY DEF Sound, SoundEvent, Absent, Silence, NoEvent, Event
<1>2. SoundJob(NoJob, Silence)
  BY <1>1 DEF SoundJob, NoJob, Grows, Silence, Paying
<1>3. stripe.status = "none" /\ stripe.until = 0
  BY DEF Init, Silence
<1>4. /\ \A r \in Row : Sound(row[r], stripe)
      /\ \A w \in Worker : SoundJob(job[w], stripe)
      /\ \A e \in outbox : SoundEvent(e, stripe)
  BY <1>1, <1>2 DEF Init
<1> QED
  BY <1>3, <1>4 DEF SoundState

(***************************************************************************)
(* The ways in which an action changes the requests.                       *)
(***************************************************************************)
LEMMA FinishSound ==
  ASSUME PurchaseInv, NEW w \in Worker, Finish(w)
  PROVE  \A v \in Worker : SoundJob(job'[v], stripe)
<1>1. SoundJob(NoJob, stripe)
  <2>1. Sound(Absent, stripe)
    BY SoundOperators DEF PurchaseInv, TypeInv, Typed, Subscription, RowStatus, Sound, Absent
  <2> QED
    BY <2>1 DEF SoundJob, NoJob, NoEvent, Event, SoundEvent, Grows, Silence, Paying,
       PurchaseInv, TypeInv, Typed, Answer
<1> QED
  BY <1>1 DEF Finish, PurchaseInv, TypeInv, Typed, SoundState

LEMMA ReadSound ==
  ASSUME PurchaseInv, NEW w \in Worker, NEW r \in Row, NEW from, NEW to,
         Read(w, r, from, to),
         to \in Paying => stripe.session = "paid",
         to = "renew" => from = "find" /\ row[r].status = "active",
         to \notin {"find", "save"},
         to = "ask" => row[r].status # "none"
  PROVE  \A v \in Worker : SoundJob(job'[v], stripe)
<1>1. /\ job[w] \in Job /\ job \in [Worker -> Job]
      /\ SoundJob(job[w], stripe) /\ Sound(row[r], stripe)
  BY DEF PurchaseInv, TypeInv, Typed, Job, SoundState
<1>2. job' = [job EXCEPT ![w].step = to, ![w].key = r, ![w].copy = row[r]]
      /\ job[w].step = from
  BY DEF Read
<1>3. SoundJob(job'[w], stripe)
  BY <1>1, <1>2 DEF SoundJob, Job
<1> QED
  BY <1>1, <1>2, <1>3 DEF PurchaseInv, SoundState

LEMMA GotoSound ==
  ASSUME PurchaseInv, NEW w \in Worker, NEW from, NEW to, Goto(w, from, to),
         to \in Paying => stripe.session = "paid",
         to \notin {"find", "renew", "ask", "save"}
  PROVE  \A v \in Worker : SoundJob(job'[v], stripe)
<1>1. /\ job[w] \in Job /\ job \in [Worker -> Job] /\ SoundJob(job[w], stripe)
  BY DEF PurchaseInv, TypeInv, Typed, Job, SoundState
<1>2. SoundJob(job'[w], stripe)
  BY <1>1 DEF SoundJob, Job, Goto
<1> QED
  BY <1>1, <1>2 DEF PurchaseInv, SoundState, Goto

\* A row is written with something sound, and the request ends.
LEMMA SaveSound ==
  ASSUME PurchaseInv, NEW w \in Worker, NEW sub, Save(w, sub), Sound(sub, stripe)
  PROVE  \A r \in Row : Sound(row'[r], stripe)
BY DEF Save, PurchaseInv, TypeInv, Typed, SoundState

LEMMA HandlerSound ==
  ASSUME PurchaseInv, NEW w \in Worker, HandlerStep(w)
  PROVE  SoundState'
<1>0. /\ now \in Nat /\ stripe \in Answer /\ outbox \subseteq [type : EventType, until : Nat]
      /\ row \in [Row -> Subscription] /\ job \in [Worker -> Job]
      /\ job[w] \in Job /\ job[w].copy \in Subscription /\ job[w].told \in Answer
      /\ job[w].event \in [type : EventType, until : Nat]
      /\ SoundJob(job[w], stripe) /\ Sound(job[w].copy, stripe)
      /\ Grows(job[w].told, stripe) /\ SoundEvent(job[w].event, stripe)
  BY DEF PurchaseInv, TypeInv, Typed, SoundState, SoundJob, Job
<1>1. CASE FoundActive(w)
  BY <1>1, FinishSound DEF FoundActive, Acknowledge, PurchaseInv, SoundState
<1>2. CASE FoundNoActive(w)
  BY <1>0, <1>2, GotoSound DEF FoundNoActive, Goto, PurchaseInv, SoundState, SoundJob, Paying
<1>3. CASE FindPending(w)
  <2>1. stripe.session = "paid"
    BY <1>0, <1>3 DEF FindPending, Read, Goto, SoundJob, Paying
  <2>2. CASE \E r \in Row : Read(w, r, "findPending", "activate")
    BY <1>3, <2>1, <2>2, ReadSound DEF FindPending, PurchaseInv, SoundState
  <2>3. CASE Goto(w, "findPending", "create")
    BY <1>3, <2>1, <2>3, GotoSound DEF FindPending, PurchaseInv, SoundState
  <2> QED
    BY <1>3, <2>2, <2>3 DEF FindPending
<1>4. CASE Activate(w)
  <2>1. Sound(Activated(job[w].copy), stripe)
    <3>1. stripe.session = "paid"
      BY <1>0, <1>4 DEF Activate, SoundJob, Paying
    <3> QED
      BY <1>0, <3>1, SoundOperators
  <2> QED
    BY <1>4, <2>1, SaveSound, FinishSound DEF Activate, Acknowledge, PurchaseInv, SoundState
<1>5. CASE MarkCancelled(w)
  <2>1. Sound(Cancelled(job[w].copy), stripe)
    BY <1>0, SoundOperators
  <2> QED
    BY <1>5, <2>1, SaveSound, FinishSound DEF MarkCancelled, Acknowledge, PurchaseInv, SoundState
<1>6. CASE Renew(w)
  <2>1. Sound([job[w].copy EXCEPT !.expires = job[w].event.until], stripe)
    <3>1. job[w].copy.status = "active" /\ job[w].event.until <= stripe.until
      BY <1>0, <1>6 DEF Renew, SoundJob, SoundEvent
    <3> QED
      BY <1>0, <3>1, SoundOperators
  <2> QED
    BY <1>6, <2>1, SaveSound, FinishSound DEF Renew, Acknowledge, PurchaseInv, SoundState
<1>7. CASE FindRenewable(w)
  <2>1. PICK r \in Row : IsRenewable(r) /\ Read(w, r, "find", "renew")
    BY <1>7 DEF FindRenewable, First
  <2>2. row[r].status = "active"
    BY <2>1 DEF IsRenewable, PurchaseInv, SoundState, Sound
  <2> QED
    BY <1>7, <2>1, <2>2, ReadSound DEF FindRenewable, PurchaseInv, SoundState, Paying
<1>8. CASE SkipRenewal(w)
  BY <1>8, FinishSound DEF SkipRenewal, Acknowledge, PurchaseInv, SoundState
<1>9. CASE FindEnded(w)
  BY <1>9, ReadSound DEF FindEnded, PurchaseInv, SoundState, Paying
<1>10. CASE AlreadyCancelled(w)
  BY <1>10, FinishSound DEF AlreadyCancelled, Acknowledge, PurchaseInv, SoundState
<1>11. CASE NothingEnded(w)
  BY <1>11, FinishSound DEF NothingEnded, Acknowledge, PurchaseInv, SoundState
<1>12. CASE FlagRows(w)
  <2>1. ASSUME NEW r \in Row PROVE Sound(row'[r], stripe)
    BY <1>0, <1>12, SoundOperators DEF FlagRows, PurchaseInv, SoundState
  <2> QED
    BY <1>12, <2>1, FinishSound DEF FlagRows, Acknowledge, PurchaseInv, SoundState
<1>13. CASE SyncAsk(w)
  <2>1. SoundJob(job'[w], stripe)
    BY <1>0, <1>13 DEF SyncAsk, SoundJob, Job, Grows, Answer, Paying
  <2> QED
    BY <1>0, <1>13, <2>1 DEF SyncAsk, PurchaseInv, SoundState
<1>14. CASE SyncPending(w)
  <2>1. CASE job[w].told.session = "paid" /\ Save(w, Activated(job[w].copy))
    <3>1. Sound(Activated(job[w].copy), stripe)
      BY <1>0, <2>1, SoundOperators DEF Grows
    <3> QED
      BY <1>14, <2>1, <3>1, SaveSound, FinishSound DEF SyncPending, PurchaseInv, SoundState
  <2>2. CASE Save(w, Cancelled(job[w].copy))
    <3>1. Sound(Cancelled(job[w].copy), stripe)
      BY <1>0, SoundOperators
    <3> QED
      BY <1>14, <2>2, <3>1, SaveSound, FinishSound DEF SyncPending, PurchaseInv, SoundState
  <2>3. CASE UNCHANGED row
    BY <1>14, <2>3, FinishSound DEF SyncPending, PurchaseInv, SoundState
  <2> QED
    BY <1>14, <2>1, <2>2, <2>3 DEF SyncPending
<1>15. CASE SyncActive(w)
  <2>1. Sound(Synced(job[w].copy, job[w].told), stripe)
    <3>1. job[w].copy.status \in {"active", "cancelled"}
      BY <1>0, <1>15 DEF SyncActive, SoundJob, Subscription, RowStatus
    <3> QED
      BY <1>0, <3>1, SoundOperators
  <2> QED
    BY <1>15, <2>1, SaveSound, FinishSound DEF SyncActive, Acknowledge, PurchaseInv, SoundState
<1>16. CASE AskProvider(w)
  <2>1. PICK on \in BOOLEAN :
          /\ IF on THEN Goto(w, "askCancel", "flagOn")
                   ELSE Goto(w, "askReactivate", "flagOff")
          /\ stripe' = [stripe EXCEPT !.ending = on]
          /\ outbox' = IF stripe.ending = on THEN outbox
                       ELSE outbox \cup {Event(IF on THEN "ending" ELSE "resumed", 0)}
    BY <1>16 DEF AskProvider
  <2>2. Grows(stripe, stripe') /\ stripe' \in Answer
    BY <1>0, <2>1 DEF Grows, Answer
  <2>3. \A r \in Row : Sound(row'[r], stripe')
    BY <1>0, <1>16, <2>2, SoundGrows DEF AskProvider, PurchaseInv, SoundState
  <2>4. \A v \in Worker : SoundJob(job'[v], stripe)
    BY <2>1, GotoSound DEF Paying
  <2>5. \A v \in Worker : job'[v] \in Job
    BY HandlerType DEF PurchaseInv, TypeInv, Typed, Job
  <2>6. \A v \in Worker : SoundJob(job'[v], stripe')
    BY <1>0, <2>2, <2>4, <2>5, SoundJobGrows
  <2>7. \A e \in outbox' : SoundEvent(e, stripe')
    <3>1. SoundEvent(Event(IF on THEN "ending" ELSE "resumed", 0), stripe')
      BY DEF SoundEvent, Event
    <3>2. \A e \in outbox : SoundEvent(e, stripe')
      BY <1>0, <2>2 DEF SoundEvent, Grows, Answer, PurchaseInv, SoundState
    <3> QED
      BY <2>1, <3>1, <3>2
  <2>8. stripe'.session # "paid" => stripe'.status = "none" /\ stripe'.until = 0
    BY <1>0, <2>1 DEF Answer, PurchaseInv, SoundState
  <2> QED
    BY <2>3, <2>6, <2>7, <2>8 DEF SoundState
<1>17. CASE Refused(w)
  BY <1>17, FinishSound DEF Refused, Acknowledge, PurchaseInv, SoundState
<1>18. CASE FlagRow(w)
  <2>1. ASSUME NEW r \in Row PROVE Sound(row'[r], stripe)
    BY <1>0, <1>18, SoundOperators DEF FlagRow, PurchaseInv, SoundState
  <2> QED
    BY <1>18, <2>1, FinishSound DEF FlagRow, PurchaseInv, SoundState
<1>19. CASE \E r \in Row : CreatePending(w, r)
  <2>1. Sound([Absent EXCEPT !.status = "pending", !.starts = now, !.expires = now + 1], stripe)
    BY <1>0 DEF Sound, Absent
  <2> QED
    BY <1>0, <1>19, <2>1, FinishSound DEF CreatePending, PurchaseInv, SoundState
<1>20. CASE \E r \in Row : CreateActive(w, r)
  <2>1. Sound(Activated(Absent), stripe)
    BY <1>0, <1>20, SoundOperators DEF CreateActive, SoundJob, Paying, Subscription, RowStatus, Absent
  <2> QED
    BY <1>0, <1>20, <2>1, FinishSound DEF CreateActive, Acknowledge, PurchaseInv, SoundState
<1> QED
  BY <1>1, <1>2, <1>3, <1>4, <1>5, <1>6, <1>7, <1>8, <1>9, <1>10, <1>11,
      <1>12, <1>13, <1>14, <1>15, <1>16, <1>17, <1>18, <1>19, <1>20 DEF HandlerStep

LEMMA OtherSound ==
  ASSUME PurchaseInv,
         \/ ProviderStep
         \/ \E w \in Worker : \/ UserRequest(w) \/ Fail(w) \/ Misread(w)
                             \/ \E e \in outbox : Deliver(w, e)
  PROVE  SoundState'
<1>0. /\ now \in Nat /\ stripe \in Answer /\ row \in [Row -> Subscription]
      /\ job \in [Worker -> Job] /\ outbox \subseteq [type : EventType, until : Nat]
  BY DEF PurchaseInv, TypeInv, Typed, Job
<1>1. CASE ProviderStep
  <2>1. Grows(stripe, stripe')
    <3>1. CASE Pay
      <4>1. stripe.until = 0
        BY <3>1 DEF Pay, PurchaseInv, SoundState
      <4>2. ASSUME NEW t \in Answer, t.session = "paid" PROVE Grows(stripe, t)
        BY <4>1, <4>2 DEF Grows, Answer
      <4>3. stripe' \in Answer
        BY <1>1, OtherType DEF PurchaseInv, TypeInv, Typed
      <4>4. stripe'.session = "paid"
        BY <1>0, <3>1 DEF Pay, Answer
      <4> QED
        BY <4>2, <4>3, <4>4
    <3>2. CASE Invoice
      <4>1. ASSUME NEW m \in Nat, stripe.until <= m
            PROVE  Grows(stripe, [stripe EXCEPT !.status = "active", !.until = m])
        BY <1>0, <4>1 DEF Grows, Answer
      <4>2. now + 1 \in Nat /\ stripe.until <= now + 1
        BY <1>0, <3>2 DEF Invoice, PeriodOver, Answer
      <4> QED
        BY <3>2, <4>1, <4>2 DEF Invoice
    <3>3. CASE SessionExpires \/ PaymentFails \/ SubscriptionEnds \/ Tick
      BY <1>0, <3>3 DEF SessionExpires, PaymentFails, SubscriptionEnds, Tick, Grows, Answer
    <3> QED
      BY <1>1, <3>1, <3>2, <3>3 DEF ProviderStep
  <2>2. stripe' \in Answer
    BY <1>1, OtherType DEF PurchaseInv, TypeInv, Typed
  <2>3. row' = row /\ job' = job
    BY <1>1 DEF ProviderStep, Pay, SessionExpires, Invoice, PaymentFails,
       SubscriptionEnds, Tick, Quiet
  <2>4. \A r \in Row : Sound(row'[r], stripe')
    BY <1>0, <2>1, <2>2, <2>3, SoundGrows DEF PurchaseInv, SoundState
  <2>5. \A w \in Worker : SoundJob(job'[w], stripe')
    BY <1>0, <2>1, <2>2, <2>3, SoundJobGrows DEF PurchaseInv, SoundState
  <2>6. \A e \in outbox : SoundEvent(e, stripe')
    BY <1>0, <2>1, <2>2 DEF SoundEvent, Grows, Answer, PurchaseInv, SoundState
  <2>7. \A e \in outbox' \ outbox : SoundEvent(e, stripe')
    <3>1. Pay => SoundEvent(Event("completed", 0), stripe')
                 /\ (Links => SoundEvent(Event("paid", now + 1), stripe'))
      BY <1>0 DEF Pay, SoundEvent, Event, Answer
    <3>2. Invoice => SoundEvent(Event("paid", now + 1), stripe')
      BY <1>0 DEF Invoice, SoundEvent, Event, Answer
    <3>3. SoundEvent(Event("deleted", 0), stripe')
      BY DEF SoundEvent, Event
    <3> QED
      BY <1>1, <3>1, <3>2, <3>3 DEF ProviderStep, Pay, SessionExpires, Invoice,
         PaymentFails, SubscriptionEnds, Tick
  <2>8. stripe'.session # "paid" => stripe'.status = "none" /\ stripe'.until = 0
    BY <1>0, <1>1 DEF ProviderStep, Pay, SessionExpires, Invoice, PaymentFails,
       SubscriptionEnds, Tick, Answer, PurchaseInv, SoundState
  <2> QED
    BY <2>4, <2>5, <2>6, <2>7, <2>8 DEF SoundState
<1>2. ASSUME NEW w \in Worker, UserRequest(w) PROVE SoundState'
  <2>0. job[w] \in Job /\ SoundJob(job[w], stripe)
    BY <1>0 DEF PurchaseInv, SoundState
  <2>1. CASE Checkout(w)
    <3>1. Grows(stripe, stripe') /\ stripe' \in Answer
      BY <1>0, <2>1 DEF Checkout, Grows, Answer
    <3>2. \A r \in Row : Sound(row'[r], stripe')
      BY <1>0, <2>1, <3>1, SoundGrows DEF Checkout, PurchaseInv, SoundState
    <3>3. \A v \in Worker : SoundJob(job[v], stripe')
      BY <1>0, <3>1, SoundJobGrows DEF PurchaseInv, SoundState
    <3>4. \A v \in Worker : SoundJob(job'[v], stripe')
      BY <1>0, <2>0, <2>1, <3>3 DEF Checkout, Begin, SoundJob, Paying, Job
    <3>5. \A e \in outbox : SoundEvent(e, stripe')
      BY <1>0, <3>1 DEF SoundEvent, Grows, Answer, PurchaseInv, SoundState
    <3>6. stripe'.status = "none" /\ stripe'.until = 0
      BY <1>0, <2>1 DEF Checkout, Answer, PurchaseInv, SoundState
    <3> QED
      BY <2>1, <3>2, <3>4, <3>5, <3>6 DEF Checkout, SoundState
  <2>2. ASSUME NEW r \in Row, SyncRead(w, r) PROVE SoundState'
    <3>1. row[r].status # "none"
      BY <2>2 DEF SyncRead, IsPending, IsLinked, PurchaseInv, SoundState, Sound
    <3> QED
      BY <2>2, <3>1, ReadSound DEF SyncRead, Requested, PurchaseInv, SoundState, Paying
  <2>3. ASSUME NEW r \in Row, NEW to,
               to \in {"askCancel", "askReactivate", "flagOn", "flagOff"},
               Choose(w, r, "idle", to), UNCHANGED <<row, stripe, outbox>>
        PROVE  SoundState'
    <3>1. SoundJob(job'[w], stripe)
      BY <1>0, <2>0, <2>3 DEF Choose, SoundJob, Paying, Job
    <3>2. \A v \in Worker : SoundJob(job'[v], stripe)
      BY <1>0, <2>3, <3>1 DEF Choose, PurchaseInv, SoundState
    <3> QED
      BY <2>3, <3>2 DEF PurchaseInv, SoundState
  <2> QED
    BY <1>2, <2>1, <2>2, <2>3 DEF UserRequest, CancelRead, ReactivateRead, Requested
<1>3. ASSUME NEW w \in Worker, Fail(w) PROVE SoundState'
  BY <1>3, FinishSound DEF Fail, PurchaseInv, SoundState
<1>4. ASSUME NEW w \in Worker, NEW e \in outbox, Deliver(w, e) PROVE SoundState'
  <2>1. /\ job[w] \in Job /\ SoundJob(job[w], stripe) /\ SoundEvent(e, stripe)
        /\ e \in [type : EventType, until : Nat]
    BY <1>0 DEF PurchaseInv, SoundState
  <2>2. PICK to :
          /\ job' = [job EXCEPT ![w].event = e, ![w].step = to]
          /\ \/ to = "findActive" /\ e.type = "completed"
             \/ to = "find" /\ e.type = "paid"
             \/ to \in {"findEnded", "flagRows"}
    <3>1. CASE e.type = "completed"
      BY <1>4, <3>1 DEF Deliver
    <3>2. CASE e.type = "paid"
      BY <1>4, <3>2 DEF Deliver
    <3>3. CASE e.type = "deleted"
      BY <1>4, <3>3 DEF Deliver
    <3>4. CASE e.type \notin {"completed", "paid", "deleted"}
      BY <1>4, <3>4 DEF Deliver
    <3> QED
      BY <3>1, <3>2, <3>3, <3>4
  <2>3. SoundJob(job'[w], stripe)
    BY <1>0, <2>1, <2>2 DEF SoundJob, SoundEvent, Paying, Job
  <2>4. \A v \in Worker : SoundJob(job'[v], stripe)
    BY <1>0, <2>2, <2>3 DEF PurchaseInv, SoundState
  <2> QED
    BY <1>4, <2>4 DEF Deliver, PurchaseInv, SoundState
<1>5. ASSUME NEW w \in Worker, Misread(w) PROVE SoundState'
  <2>1. stripe.session = "paid"
    BY <1>5 DEF Misread, Goto, PurchaseInv, SoundState, SoundJob, Paying
  <2>2. \A v \in Worker : SoundJob(job'[v], stripe)
    BY <1>5, <2>1, GotoSound DEF Misread
  <2> QED
    BY <1>5, <2>2 DEF Misread, PurchaseInv, SoundState
<1> QED
  BY <1>1, <1>2, <1>3, <1>4, <1>5

LEMMA PurchaseStep == PurchaseInv /\ [Next]_vars => PurchaseInv'
<1>1. CASE UNCHANGED vars
  BY <1>1, TypeStep DEF vars, PurchaseInv, SoundState
<1> QED
  BY <1>1, TypeStep, HandlerSound, OtherSound DEF Next, PurchaseInv

LEMMA PurchaseAlways == Spec => []PurchaseInv
<1>1. Init => PurchaseInv
  BY TypeInit, SoundInit DEF PurchaseInv
<1> QED
  BY <1>1, PurchaseStep, PTL DEF Spec

-----------------------------------------------------------------------------
\* However many requests overlap, and whatever is posted twice, late or not at
\* all: an active row was paid for.
THEOREM NobodyGetsItUnpaid == Spec => []ActiveIsPaid
<1>1. PurchaseInv => ActiveIsPaid
  BY DEF PurchaseInv, SoundState, Sound, ActiveIsPaid
<1> QED
  BY <1>1, PurchaseAlways, PTL

\* No sequence of renewals, synchronisations and activations extends a row
\* beyond what was paid, or one period from its activation.
THEOREM NoPeriodIsFree == Spec => []NoFreePeriod
<1>1. PurchaseInv => NoFreePeriod
  BY DEF PurchaseInv, SoundState, Sound, NoFreePeriod
<1> QED
  BY <1>1, PurchaseAlways, PTL

\* No slow request makes a row pending again.
THEOREM PendingStaysLeft == Spec => PendingIsLeftForGood
<1>1. PurchaseInv /\ [Next]_vars =>
        [\A r \in Row : row[r].status \in {"active", "cancelled"} =>
            row'[r].status \in {"active", "cancelled"}]_vars
  <2> SUFFICES ASSUME PurchaseInv, Next, NEW r \in Row,
                      row[r].status \in {"active", "cancelled"}
               PROVE  row'[r].status \in {"active", "cancelled"}
    OBVIOUS
  <2>1. /\ row \in [Row -> Subscription] /\ now \in Nat
        /\ \A w \in Worker : /\ job[w] \in Job /\ SoundJob(job[w], stripe)
                             /\ job[w].copy \in Subscription
    BY DEF PurchaseInv, TypeInv, Typed, SoundState, Job
  <2>2. ASSUME NEW w \in Worker, HandlerStep(w)
        PROVE  row'[r].status \in {"active", "cancelled"}
    <3>1. CASE UNCHANGED row
      BY <3>1
    <3>2. CASE FlagRows(w) \/ FlagRow(w)
      BY <2>1, <3>2 DEF FlagRows, FlagRow, Subscription
    <3>3. CASE \E s \in Row : CreatePending(w, s) \/ CreateActive(w, s)
      BY <2>1, <3>3 DEF CreatePending, CreateActive, Unused
    <3>4. ASSUME NEW sub, Save(w, sub), sub.status \in {"active", "cancelled"}
          PROVE  row'[r].status \in {"active", "cancelled"}
      BY <2>1, <3>4 DEF Save
    <3>5. CASE Activate(w) \/ MarkCancelled(w) \/ SyncPending(w)
      <4>1. /\ Activated(job[w].copy).status = "active"
            /\ Cancelled(job[w].copy).status = "cancelled"
        BY <2>1 DEF Activated, Cancelled, Subscription
      <4> QED
        BY <3>1, <3>4, <3>5, <4>1 DEF Activate, MarkCancelled, SyncPending
    <3>6. CASE Renew(w)
      <4>1. [job[w].copy EXCEPT !.expires = job[w].event.until].status = "active"
        BY <2>1, <3>6 DEF Renew, SoundJob, Subscription
      <4> QED
        BY <3>4, <3>6, <4>1 DEF Renew
    <3>7. CASE SyncActive(w)
      <4>1. job[w].copy.status \in {"active", "cancelled"}
        BY <2>1, <3>7 DEF SyncActive, SoundJob, Subscription, RowStatus
      <4>2. Synced(job[w].copy, job[w].told).status \in {"active", "cancelled"}
        BY <2>1, <4>1 DEF Synced, Subscription
      <4> QED
        BY <3>4, <3>7, <4>2 DEF SyncActive
    <3> QED
      BY <2>2, <3>1, <3>2, <3>3, <3>5, <3>6, <3>7
      DEF HandlerStep, FoundActive, FoundNoActive, FindPending, FindRenewable,
          SkipRenewal, FindEnded, AlreadyCancelled, NothingEnded, SyncAsk,
          AskProvider, Refused
  <2>3. CASE ProviderStep
    BY <2>3 DEF ProviderStep, Pay, SessionExpires, Invoice, PaymentFails,
       SubscriptionEnds, Tick, Quiet
  <2>4. ASSUME NEW w \in Worker,
               \/ UserRequest(w) \/ Fail(w) \/ Misread(w)
               \/ \E e \in outbox : Deliver(w, e)
        PROVE  UNCHANGED row
    BY <2>4 DEF UserRequest, Checkout, SyncRead, CancelRead, ReactivateRead,
       Requested, Fail, Misread, Deliver
  <2> QED
    BY <2>2, <2>3, <2>4 DEF Next
<1> QED
  BY <1>1, PurchaseAlways, PTL DEF Spec, PendingIsLeftForGood

-----------------------------------------------------------------------------
(* Sums over sets.                                                         *)

\* A set of numbers has a first one.
LEMMA LeastIsThere ==
  ASSUME NEW S, S \subseteq Nat, S # {}
  PROVE  \E n \in S : \A m \in S : n <= m
<1>1. PICK n \in S : \A m \in S : <<m, n>> \notin OpToRel(<, Nat)
  BY NatLessThanWellFounded, WFMin
<1>2. \A m \in S : ~(m < n) /\ m \in Nat /\ n \in Nat
  BY <1>1 DEF OpToRel
<1>3. \A m \in S : n <= m
  BY <1>2
<1> QED
  BY <1>3

Some(S) == CHOOSE x \in S : TRUE

\* The equation that a sum over the subsets of S obeys.
Sums(S, c, g) ==
    g = [s \in SUBSET S |-> IF s = {} THEN 0 ELSE c[Some(s)] + g[s \ {Some(s)}]]

\* A set without some element is smaller.
LEMMA WithoutOne ==
  ASSUME NEW S, IsFiniteSet(S), NEW s \in SUBSET S
  PROVE  /\ IsFiniteSet(s) /\ Cardinality(s) \in Nat /\ Cardinality(s) <= Cardinality(S)
         /\ s # {} => /\ Some(s) \in s /\ s \ {Some(s)} \in SUBSET S
                      /\ Cardinality(s \ {Some(s)}) = Cardinality(s) - 1 /\ Cardinality(s) # 0
<1>1. /\ IsFiniteSet(s) /\ Cardinality(s) \in Nat /\ Cardinality(s) <= Cardinality(S)
  BY FS_Subset, FS_CardinalityType
<1>2. ASSUME s # {} PROVE Some(s) \in s
  BY <1>2 DEF Some
<1> QED
  BY <1>1, <1>2, FS_RemoveElement, FS_EmptySet

\* A sum over a finite set is there: the equation has a solution, set by set in the
\* order of their sizes.
LEMMA SumIsThere ==
  ASSUME NEW S, IsFiniteSet(S), NEW c
  PROVE  \E g : Sums(S, c, g)
<1> DEFINE Small(n) == {s \in SUBSET S : Cardinality(s) <= n}
           Body(g, s) == IF s = {} THEN 0 ELSE c[Some(s)] + g[s \ {Some(s)}]
           Good(n) == \E g : g = [s \in Small(n) |-> Body(g, s)]
           Bad == {n \in Nat : ~Good(n)}
<1>1. Good(0)
  <2>1. Small(0) = {{}}
    <3>1. Cardinality({}) = 0
      BY FS_EmptySet
    <3>2. ASSUME NEW s \in SUBSET S, s # {} PROVE ~(Cardinality(s) <= 0)
      <4>1. Cardinality(s) \in Nat /\ Cardinality(s) # 0
        BY <3>2, WithoutOne
      <4> QED
        BY <4>1
    <3>3. 0 <= 0
      OBVIOUS
    <3> QED
      BY <3>1, <3>2, <3>3
  <2> DEFINE g == [s \in {{}} |-> 0]
  <2>2. g = [s \in Small(0) |-> Body(g, s)]
    BY <2>1
  <2> QED
    BY <2>2
<1>2. ASSUME NEW n \in Nat, Good(n)
      PROVE  Good(n + 1)
  <2> HIDE DEF Small
  <2>1. PICK g : g = [s \in Small(n) |-> Body(g, s)]
    BY <1>2
  <2> DEFINE h == [s \in Small(n + 1) |-> IF s \in Small(n) THEN g[s] ELSE Body(g, s)]
  <2>2. ASSUME NEW s \in Small(n + 1)
        PROVE  h[s] = Body(h, s)
    <3>1. CASE s = {}
      <4>1. s \in Small(n)
        BY <3>1, FS_EmptySet DEF Small
      <4> QED
        BY <2>1, <3>1, <4>1
    <3>2. CASE s # {}
      <4> DEFINE t == s \ {Some(s)}
      <4>1. t \in Small(n) /\ t \in Small(n + 1)
        BY <3>2, WithoutOne DEF Small
      <4>2. h[t] = g[t]
        BY <4>1
      <4>3. h[s] = Body(g, s)
        <5>1. s \in Small(n) => g[s] = Body(g, s)
          BY <2>1
        <5> HIDE DEF Body
        <5> QED
          BY <5>1
      <4>4. Body(g, s) = c[Some(s)] + g[t] /\ Body(h, s) = c[Some(s)] + h[t]
        <5> HIDE DEF h
        <5> QED
          BY <3>2
      <4> HIDE DEF h, Body, t
      <4> QED
        BY <4>2, <4>3, <4>4
    <3> QED
      BY <3>1, <3>2
  <2>3. h = [s \in Small(n + 1) |-> h[s]]
    OBVIOUS
  <2>4. h = [s \in Small(n + 1) |-> Body(h, s)]
    <3> HIDE DEF h, Body
    <3> QED
      BY <2>2, <2>3
  <2> HIDE DEF h
  <2> QED
    BY <2>4
<1>3. Bad = {}
  <2> SUFFICES ASSUME Bad # {}
               PROVE  FALSE
    OBVIOUS
  <2> HIDE DEF Good
  <2>1. PICK n \in Bad : \A m \in Bad : n <= m
    <3>1. Bad \subseteq Nat
      OBVIOUS
    <3> HIDE DEF Bad
    <3> QED
      BY <3>1, LeastIsThere
  <2>2. n \in Nat /\ ~Good(n) /\ n # 0 /\ n - 1 \in Nat
    BY <1>1, <2>1
  <2>3. Good(n - 1)
    <3>1. n - 1 \notin Bad
      <4> HIDE DEF Bad
      <4> QED
        BY <2>1, <2>2
    <3> QED
      BY <2>2, <3>1
  <2>4. (n - 1) + 1 = n
    BY <2>2
  <2>5. Good((n - 1) + 1)
    BY <1>2, <2>2, <2>3
  <2> QED
    BY <2>2, <2>4, <2>5
<1>4. Good(Cardinality(S)) /\ Small(Cardinality(S)) = SUBSET S
  <2>1. Cardinality(S) \in Nat
    BY FS_CardinalityType
  <2>2. Small(Cardinality(S)) = SUBSET S
    BY WithoutOne
  <2> HIDE DEF Good, Small
  <2> QED
    BY <1>3, <2>1, <2>2
<1> QED
  BY <1>4 DEF Sums

\* Integers add up to an integer.
LEMMA SumIsInteger ==
  ASSUME NEW S, IsFiniteSet(S), NEW c, \A x \in S : c[x] \in Int, NEW g, Sums(S, c, g)
  PROVE  g[S] \in Int
<1> DEFINE Bad == {n \in Nat : \E s \in SUBSET S : Cardinality(s) = n /\ g[s] \notin Int}
<1>1. Bad = {}
  <2> SUFFICES ASSUME Bad # {}
               PROVE  FALSE
    OBVIOUS
  <2>1. PICK n \in Bad : \A m \in Bad : n <= m
    <3>1. Bad \subseteq Nat
      OBVIOUS
    <3> HIDE DEF Bad
    <3> QED
      BY <3>1, LeastIsThere
  <2>2. PICK s \in SUBSET S : Cardinality(s) = n /\ g[s] \notin Int
    OBVIOUS
  <2> DEFINE t == s \ {Some(s)}
  <2>3. s # {}
    BY <2>2 DEF Sums
  <2>4. /\ t \in SUBSET S /\ Some(s) \in S
        /\ Cardinality(t) = n - 1 /\ Cardinality(t) \in Nat /\ n \in Nat
    <3>1. Some(s) \in s /\ t \in SUBSET S /\ Cardinality(t) = Cardinality(s) - 1
      BY <2>3, WithoutOne
    <3>2. Cardinality(t) \in Nat
      BY <3>1, WithoutOne
    <3> HIDE DEF t
    <3> QED
      BY <2>2, <3>1, <3>2
  <2>5. g[s] = c[Some(s)] + g[t]
    BY <2>3 DEF Sums
  <2>6. g[t] \notin Int
    <3> HIDE DEF t
    <3> QED
      BY <2>2, <2>4, <2>5
  <2>7. n - 1 \in Bad
    <3> HIDE DEF t
    <3> QED
      BY <2>4, <2>6
  <2> HIDE DEF Bad
  <2> QED
    BY <2>1, <2>4, <2>7
<1>2. Cardinality(S) \in Nat /\ S \in SUBSET S
  BY FS_CardinalityType
<1> QED
  BY <1>1, <1>2

-----------------------------------------------------------------------------
(* Throughput: who fills an entry of a cache.                              *)

\* What the cache holds of a key, and what a request does.
Granted == {i \in Throughputs : i.unlimited \/ \E j \in Info : i.window = j.window}
Entry(k) == IF k = "weights" THEN Weight \cup {1} ELSE Granted

Req == [step : Steps, kind : Kinds \cup {"api"}, key : Key, weight : Weight \cup {1},
        answer : Weight \cup {1, None} \cup Granted, locked : BOOLEAN]

ReqOK(j) ==
    /\ j \in Req
    /\ j.step = "store" => j.answer \in Entry(j.key)
    /\ j.step = "charge" => j.key \in Scope /\ j.answer \in Granted /\ ~j.answer.unlimited
    /\ j.step = "fallback" => j.kind = "upgrade"

StoreTypes ==
    /\ plan \in [Plan -> Info \cup {None}] /\ sold \in [Scope -> SUBSET Plan]
    /\ weight \in Weight \cup {None}
    /\ DOMAIN cache = Key /\ \A k \in Key : cache[k] = None \/ cache[k] \in Entry(k)
    /\ lock \in [Key -> Request \cup {None}]
    /\ outages \in Nat

ReqTypes == DOMAIN req = Request /\ \A r \in Request : ReqOK(req[r])

MeterTypes ==
    /\ clock \in Time
    /\ count \in [Meter \X Time -> Nat] /\ deadline \in [Meter \X Time -> Nat]
    /\ admitted \in [Meter \X Time -> Nat] /\ granted \in [Meter \X Time -> Nat]
    /\ upgrades \in [Time -> Nat]

MeterTyped == StoreTypes /\ ReqTypes /\ MeterTypes

-----------------------------------------------------------------------------
\* What the database answers.
LEMMA DefaultFits ==
  ASSUME StoreTypes
  PROVE  DefaultFreeInfo \in Granted /\ ~DefaultFreeInfo.unlimited
<1> DEFINE i == IF plan[Default] = None THEN EnvDefault ELSE plan[Default]
<1>1. i \in Info /\ i \in [limit : Int, window : Nat \ {0}]
  BY ThroughputAssumption DEF StoreTypes
<1> HIDE DEF i
<1>2. DefaultFreeInfo = Limited(i)
  BY DEF DefaultFreeInfo, i
<1>3. Limited(i) \in Throughputs /\ Limited(i).window = i.window /\ ~Limited(i).unlimited
  BY <1>1 DEF Limited, Throughputs
<1> QED
  BY <1>1, <1>2, <1>3 DEF Granted

\* The limits of finitely many plans add up to a number.
LEMMA LimitsAddUp ==
  ASSUME NEW S \in SUBSET Plan, \A p \in S : plan[p] \in Info
  PROVE  MapThenSumSet(LAMBDA p : plan[p].limit, S) \in Int
<1> DEFINE c == [p \in S |-> plan[p].limit]
           sum == CHOOSE g : g = [s \in SUBSET S |-> IF s = {} THEN 0
                                   ELSE plan[Some(s)].limit + g[s \ {Some(s)}]]
<1>1. IsFiniteSet(S) /\ \A p \in S : c[p] \in Int
  BY ThroughputAssumption, FS_Subset
<1>2. \A s \in SUBSET S : s # {} => Some(s) \in S
  BY DEF Some
<1>3. ASSUME NEW g
      PROVE  Sums(S, c, g) <=> g = [s \in SUBSET S |-> IF s = {} THEN 0
                                   ELSE plan[Some(s)].limit + g[s \ {Some(s)}]]
  <2>1. \A s \in SUBSET S : (IF s = {} THEN 0 ELSE c[Some(s)] + g[s \ {Some(s)}])
           = (IF s = {} THEN 0 ELSE plan[Some(s)].limit + g[s \ {Some(s)}])
    BY <1>2
  <2> HIDE DEF c
  <2>2. [s \in SUBSET S |-> IF s = {} THEN 0 ELSE c[Some(s)] + g[s \ {Some(s)}]]
         = [s \in SUBSET S |-> IF s = {} THEN 0 ELSE plan[Some(s)].limit + g[s \ {Some(s)}]]
    BY <2>1
  <2> QED
    BY <2>2, Zenon DEF Sums
<1> HIDE DEF c
<1>4. PICK g : Sums(S, c, g)
  BY <1>1, SumIsThere
<1>5. Sums(S, c, sum)
  BY <1>3, <1>4
<1>6. MapThenSumSet(LAMBDA p : plan[p].limit, S) = sum[S]
  BY DEF MapThenSumSet, MapThenFoldSet, Some
<1> HIDE DEF sum
<1> QED
  BY <1>1, <1>5, <1>6, SumIsInteger

\* What the database says of a scope is one of the answers.
LEMMA QueryFits ==
  ASSUME StoreTypes, NEW s \in Scope
  PROVE  queryThroughput(s) \in Granted
<1> DEFINE plans == {p \in sold[s] : plan[p] # None}
           W == {plan[p].window : p \in plans}
<1>1. plans \in SUBSET Plan /\ \A p \in plans : plan[p] \in Info
  BY DEF StoreTypes
<1>2. Info \subseteq [limit : Int, window : Nat \ {0}]
  BY ThroughputAssumption
<1>3. CASE plans = {}
  BY <1>3, DefaultFits DEF queryThroughput
<1>4. CASE plans # {} /\ \E p \in plans : plan[p].limit <= 0
  <2>1. queryThroughput(s) = Unlimited
    BY <1>4 DEF queryThroughput
  <2> QED
    BY <2>1 DEF Unlimited, Granted, Throughputs
<1>5. CASE plans # {} /\ ~\E p \in plans : plan[p].limit <= 0
  <2>1. queryThroughput(s) = [limit |-> MapThenSumSet(LAMBDA p : plan[p].limit, plans),
                              window |-> Min(W), unlimited |-> FALSE]
    BY <1>5 DEF queryThroughput
  <2>2. MapThenSumSet(LAMBDA p : plan[p].limit, plans) \in Int
    BY <1>1, LimitsAddUp
  <2>3. Min(W) \in W
    <3>1. W \subseteq Nat /\ W # {}
      BY <1>1, <1>2, <1>5
    <3>2. PICK n \in W : \A m \in W : n <= m
      BY <3>1, LeastIsThere
    <3> HIDE DEF W
    <3> QED
      BY <3>2 DEF Min
  <2>4. \A n \in W : n \in Nat \ {0} /\ \E j \in Info : n = j.window
    BY <1>1, <1>2
  <2> DEFINE sum == MapThenSumSet(LAMBDA p : plan[p].limit, plans)
             n == Min(W)
  <2>5. sum \in Int /\ n \in Nat \ {0} /\ \E j \in Info : n = j.window
    BY <2>2, <2>3, <2>4
  <2>6. queryThroughput(s) = [limit |-> sum, window |-> n, unlimited |-> FALSE]
    BY <2>1
  <2> HIDE DEF sum, n
  <2> QED
    BY <2>5, <2>6 DEF Granted, Throughputs
<1> QED
  BY <1>3, <1>4, <1>5

\* So is what is loaded for a key, whether the query fails or not.
LEMMA LoadFits ==
  ASSUME StoreTypes, NEW k \in Key
  PROVE  loadFromDB(k) \in Entry(k) /\ loadFailed(k) \in Entry(k)
  BY DefaultFits, QueryFits DEF loadFromDB, loadFailed, Entry, Key, GetEndpointWeight, StoreTypes

\* A request that has its answer goes on as a request may.
LEMMA ResolvedFits ==
  ASSUME NEW r \in Request, ReqOK(req[r]), NEW value \in Entry(req[r].key)
  PROVE  /\ ReqOK(Resolved(r, value))
         /\ Resolved(r, value).step \in {"look", "charge", "idle"}
<1>0. ReqOK(NoReq)
  BY DEF ReqOK, NoReq, Req, Steps, Key
<1>1. CASE req[r].key = "weights"
  BY <1>1 DEF Resolved, ReqOK, Req, Entry, Key, Scope, Steps, FirstScope
<1>2. CASE req[r].key # "weights"
  <2>1. value \in Granted /\ req[r].key \in Scope /\ value.unlimited \in BOOLEAN
    BY <1>2 DEF Entry, ReqOK, Req, Key, Granted, Throughputs
  <2>2. CASE value.unlimited
    BY <1>0, <1>2, <2>2 DEF Resolved, NoReq
  <2>3. CASE ~value.unlimited
    BY <1>2, <2>1, <2>3 DEF Resolved, ReqOK, Req, Steps
  <2> QED
    BY <2>1, <2>2, <2>3
<1> QED
  BY <1>1, <1>2

\* A request goes on, and the others stay where they are.
LEMMA ReqMoves ==
  ASSUME ReqTypes, NEW r \in Request, NEW j, ReqOK(j), req' = [req EXCEPT ![r] = j]
  PROVE  /\ ReqTypes' /\ req'[r] = j
         /\ \A q \in Request \ {r} : req'[q] = req[q]
<1>1. req'[r] = j /\ (\A q \in Request \ {r} : req'[q] = req[q]) /\ DOMAIN req' = Request
  BY DEF ReqTypes
<1> QED
  BY <1>1 DEF ReqTypes

\* Each step of a request: the job it has then.
LEMMA ReqsFit ==
  ASSUME StoreTypes, NEW r \in Request, ReqOK(req[r])
  PROVE  /\ ReqOK(NoReq)
         /\ ReqOK([req[r] EXCEPT !.step = "wait"])
         /\ ReqOK(SecondLook(r))
         /\ ReqOK([req[r] EXCEPT !.step = "store", !.answer = loadFromDB(req[r].key)])
         /\ ReqOK([req[r] EXCEPT !.step = "store", !.answer = loadFailed(req[r].key)])
         /\ req[r].step = "store" => ReqOK(Resolved(r, req[r].answer))
         /\ cache[req[r].key] # None => ReqOK(Resolved(r, cache[req[r].key]))
         /\ req[r].step = "charge" => ReqOK(Exceeded(r))
<1>0. req[r] \in Req /\ req[r].key \in Key
  BY DEF ReqOK, Req
<1>1. ReqOK(NoReq)
  BY DEF ReqOK, NoReq, Req, Steps, Key
<1>2. ReqOK([req[r] EXCEPT !.step = "wait"])
  BY <1>0 DEF ReqOK, Req, Steps
<1>3. cache[req[r].key] # None => cache[req[r].key] \in Entry(req[r].key)
  BY <1>0 DEF StoreTypes
<1>4. ReqOK(SecondLook(r))
  <2>1. ReqOK([req[r] EXCEPT !.step = "query", !.locked = TRUE])
    BY <1>0 DEF ReqOK, Req, Steps
  <2> QED
    BY <1>3, <2>1, ResolvedFits DEF SecondLook
<1>5. ASSUME NEW a \in Entry(req[r].key)
      PROVE  ReqOK([req[r] EXCEPT !.step = "store", !.answer = a])
  <2>1. a \in Weight \cup {1, None} \cup Granted
    BY <1>5 DEF Entry
  <2> QED
    BY <1>0, <1>5, <2>1 DEF ReqOK, Req, Steps
<1>6. /\ ReqOK([req[r] EXCEPT !.step = "store", !.answer = loadFromDB(req[r].key)])
      /\ ReqOK([req[r] EXCEPT !.step = "store", !.answer = loadFailed(req[r].key)])
  BY <1>0, <1>5, LoadFits
<1>7. req[r].step = "store" => ReqOK(Resolved(r, req[r].answer))
  BY ResolvedFits DEF ReqOK
<1>8. cache[req[r].key] # None => ReqOK(Resolved(r, cache[req[r].key]))
  BY <1>3, ResolvedFits
<1>9. req[r].step = "charge" => ReqOK(Exceeded(r))
  <2>1. ReqOK([req[r] EXCEPT !.step = "look", !.key = "user", !.answer = None])
    BY <1>0 DEF ReqOK, Req, Steps, Key, Scope
  <2>2. req[r].kind = "upgrade" => ReqOK([req[r] EXCEPT !.step = "fallback"])
    BY <1>0 DEF ReqOK, Req, Steps
  <2> QED
    BY <1>1, <2>1, <2>2 DEF Exceeded, isFallbackRoute
<1> QED
  BY <1>1, <1>2, <1>4, <1>6, <1>7, <1>8, <1>9

-----------------------------------------------------------------------------
\* Windows.
LEMMA BucketIsTime ==
  ASSUME clock \in Time, NEW w \in Nat \ {0}
  PROVE  bucketStart(w) \in Time /\ bucketStart(w) <= clock
<1>1. MaxTime \in Nat
  BY ThroughputAssumption
<1>2. clock \in Nat /\ clock <= MaxTime
  BY <1>1 DEF Time
<1>3. (clock \div w) * w \in Nat /\ (clock \div w) * w <= clock
  BY <1>2
<1> QED
  BY <1>1, <1>2, <1>3 DEF bucketStart, Time

\* A window begins at a time that is not later.
LEMMA WindowIsTime ==
  ASSUME NEW t \in Time
  PROVE  WindowOf(t) \in Time /\ WindowOf(t) <= t /\ t < WindowOf(t) + Window
<1>1. MaxTime \in Nat /\ Window \in Nat \ {0}
  BY ThroughputAssumption
<1>2. t \in Nat /\ t <= MaxTime
  BY <1>1 DEF Time
<1>3. (t \div Window) * Window \in Nat /\ (t \div Window) * Window <= t
      /\ t < (t \div Window) * Window + Window
  BY <1>1, <1>2
<1> QED
  BY <1>1, <1>2, <1>3 DEF WindowOf, Time

\* The larger of two numbers is at least each of them.
LEMMA LargerOfTwo ==
  ASSUME NEW a \in Nat, NEW b \in Int
  PROVE  Max({a, b}) \in Nat /\ Max({a, b}) >= a /\ Max({a, b}) >= b
<1>1. CASE a >= b
  <2>1. a \in {a, b} /\ \A y \in {a, b} : a >= y
    BY <1>1
  <2>2. \A x \in {a, b} : (\A y \in {a, b} : x >= y) => x = a
    BY <1>1
  <2> QED
    BY <1>1, <2>1, <2>2 DEF Max
<1>2. CASE ~(a >= b)
  <2>1. b \in {a, b} /\ \A y \in {a, b} : b >= y
    BY <1>2
  <2>2. \A x \in {a, b} : (\A y \in {a, b} : x >= y) => x = b
    BY <1>2
  <2> QED
    BY <1>2, <2>1, <2>2 DEF Max
<1> QED
  BY <1>1, <1>2

\* It is one of them, so a number.
LEMMA LargerIsOne ==
  ASSUME NEW b \in Int
  PROVE  Max({0, b}) \in {0, b}
<1>1. \E x \in {0, b} : \A y \in {0, b} : x >= y
  <2>1. CASE b >= 0
    BY <2>1
  <2>2. CASE ~(b >= 0)
    BY <2>2
  <2> QED
    BY <2>1, <2>2
<1> QED
  BY <1>1 DEF Max

\* Charging, number by number.
LEMMA Charging ==
  ASSUME MeterTypes, NEW m \in Meter, NEW info, info.limit \in Int, info.window \in Nat \ {0},
         NEW w \in Nat, Increment(m, info, w), Remember(m, info, w), clock' = clock
  PROVE  LET b == <<m, bucketStart(info.window)>>
             a == <<m, WindowOf(clock)>>
         IN  /\ b \in Meter \X Time /\ a \in Meter \X Time
             /\ count' = [count EXCEPT ![b] = count[b] + w] /\ count' \in [Meter \X Time -> Nat]
             /\ deadline' = deadline \/ deadline' = [deadline EXCEPT ![b] = clock + info.window]
             /\ deadline' \in [Meter \X Time -> Nat]
             /\ admitted' = [admitted EXCEPT ![a] = admitted[a] + IF Within(m, info, w) THEN w ELSE 0]
             /\ admitted' \in [Meter \X Time -> Nat]
             /\ granted' = [granted EXCEPT ![a] = Max({granted[a], info.limit})]
             /\ granted' \in [Meter \X Time -> Nat]
             /\ granted'[a] >= granted[a] /\ granted'[a] >= info.limit
<1> DEFINE b == <<m, bucketStart(info.window)>>
           a == <<m, WindowOf(clock)>>
<1>1. b \in Meter \X Time /\ a \in Meter \X Time
  BY BucketIsTime, WindowIsTime DEF MeterTypes
<1>2. clock \in Nat
  BY ThroughputAssumption DEF MeterTypes, Time
<1>3. count' = [count EXCEPT ![b] = count[b] + w] /\ count' \in [Meter \X Time -> Nat]
  <2>1. count' = [count EXCEPT ![b] = count[b] + w]
    BY DEF Increment
  <2> HIDE DEF b
  <2> QED
    BY <1>1, <2>1 DEF MeterTypes
<1>4. deadline' = deadline \/ deadline' = [deadline EXCEPT ![b] = clock + info.window]
  BY DEF Increment
<1>5. deadline' \in [Meter \X Time -> Nat]
  <2> HIDE DEF b
  <2> QED
    BY <1>1, <1>2, <1>4 DEF MeterTypes
<1>6. admitted' = [admitted EXCEPT ![a] = admitted[a] + IF Within(m, info, w) THEN w ELSE 0]
      /\ granted' = [granted EXCEPT ![a] = Max({granted[a], info.limit})]
  BY DEF Remember
<1>7. /\ admitted' \in [Meter \X Time -> Nat]
      /\ granted' \in [Meter \X Time -> Nat]
      /\ granted'[a] >= granted[a] /\ granted'[a] >= info.limit
  <2> HIDE DEF a
  <2>1. granted[a] \in Nat
    BY <1>1 DEF MeterTypes
  <2> DEFINE g == Max({granted[a], info.limit})
           let == IF Within(m, info, w) THEN w ELSE 0
  <2>2. g \in Nat /\ g >= granted[a] /\ g >= info.limit
    BY <2>1, LargerOfTwo
  <2>3. let \in Nat
    OBVIOUS
  <2>4. /\ admitted' = [admitted EXCEPT ![a] = admitted[a] + let]
        /\ granted' = [granted EXCEPT ![a] = g]
    BY <1>6
  <2> HIDE DEF g, let
  <2> QED
    BY <1>1, <2>2, <2>3, <2>4 DEF MeterTypes
<1> QED
  BY <1>1, <1>3, <1>4, <1>5, <1>6, <1>7

\* Without failures, a request that fills the cache has the lock of its key, and
\* the entry is not there.
Holds(r) == req[r].locked /\ lock[req[r].key] = r /\ cache[req[r].key] = None

FillersHold == outages = 0 => \A r \in Request : Filling(r) => Holds(r)

\* Nobody fills an entry at first.
LEMMA MeterStarts == MeterInit => MeterTyped /\ FillersHold
<1> SUFFICES ASSUME MeterInit PROVE MeterTyped /\ FillersHold
  OBVIOUS
<1>1. StoreTypes
  BY ThroughputAssumption DEF MeterInit, StoreTypes
<1>2. ReqTypes
  BY DEF MeterInit, ReqTypes, ReqOK, NoReq, Req, Steps, Key
<1>3. MeterTypes
  <2>1. Never \in Nat /\ 0 \in Time
    BY ThroughputAssumption DEF Time, Never
  <2> QED
    BY <2>1 DEF MeterInit, MeterTypes
<1>4. FillersHold
  BY DEF MeterInit, FillersHold, Filling, NoReq
<1> QED
  BY <1>1, <1>2, <1>3, <1>4 DEF MeterTyped

\* Endpoints weigh something.
LEMMA WeightsAreNumbers == Weight \cup {1} \subseteq Nat
<1>1. \A w \in Weight : w \in Nat
  BY ThroughputAssumption
<1> QED
  BY <1>1

\* A step of a request that leaves the counters alone, for each kind of step what
\* becomes of the entry and of the lock.
LEMMA ReadStep ==
  ASSUME MeterTyped, FillersHold, NEW r \in Request,
         \/ CacheHit(r) \/ CacheMiss(r) \/ QueryDB(r) \/ Store(r)
         \/ Lock(r) \/ LockFails(r) \/ ChargeFails(r) \/ Crash(r)
         \/ \E kind \in Kinds : Arrive(r, kind)
  PROVE  MeterTyped' /\ FillersHold'
<1> USE DEF data, bound, meter
<1>0. /\ ReqOK(req[r]) /\ req[r] \in Req /\ req[r].key \in Key /\ outages \in Nat
      /\ StoreTypes /\ ReqTypes
  BY DEF MeterTyped, StoreTypes, ReqTypes, ReqOK, Req
<1>1. UNCHANGED meter /\ clock' = clock
  BY DEF CacheHit, CacheMiss, QueryDB, Store, Lock, LockFails, ChargeFails, Crash, Arrive
<1>2. MeterTypes'
  BY <1>1 DEF MeterTyped, MeterTypes
<1>3. \E j : ReqOK(j) /\ req' = [req EXCEPT ![r] = j]
  <2>1. CASE CacheHit(r)
    BY <1>0, <2>1, ReqsFit DEF CacheHit
  <2>2. CASE CacheMiss(r)
    BY <1>0, <2>2, ReqsFit DEF CacheMiss
  <2>3. CASE QueryDB(r)
    <3>1. \E a \in {loadFromDB(req[r].key), loadFailed(req[r].key)} :
            req' = [req EXCEPT ![r].step = "store", ![r].answer = a]
      BY <2>3 DEF QueryDB
    <3>2. PICK a \in {loadFromDB(req[r].key), loadFailed(req[r].key)} :
            req' = [req EXCEPT ![r].step = "store", ![r].answer = a]
      BY <3>1
    <3>3. req' = [req EXCEPT ![r] = [req[r] EXCEPT !.step = "store", !.answer = a]]
      BY <1>0, <3>2 DEF ReqTypes
    <3> QED
      BY <1>0, <3>2, <3>3, ReqsFit
  <2>4. CASE Store(r)
    BY <1>0, <2>4, ReqsFit DEF Store
  <2>5. CASE Lock(r) \/ LockFails(r)
    BY <1>0, <2>5, ReqsFit DEF Lock, LockFails
  <2>6. CASE ChargeFails(r)
    BY <1>0, <2>6, ReqsFit DEF ChargeFails
  <2>7. CASE Crash(r)
    BY <1>0, <2>7, ReqsFit DEF Crash
  <2>8. ASSUME NEW kind \in Kinds, Arrive(r, kind)
        PROVE  \E j : ReqOK(j) /\ req' = [req EXCEPT ![r] = j]
    <3> DEFINE j == [NoReq EXCEPT !.step = "look", !.kind = kind,
                                  !.key = IF kind = "delivery" THEN "workspace" ELSE "weights"]
    <3>1. ReqOK(j)
      BY DEF ReqOK, NoReq, Req, Steps, Key, Scope
    <3>2. req' = [req EXCEPT ![r] = j]
      BY <2>8 DEF Arrive
    <3> QED
      BY <3>1, <3>2
  <2> QED
    BY <2>1, <2>2, <2>3, <2>4, <2>5, <2>6, <2>7, <2>8
<1>4. PICK j : ReqOK(j) /\ req' = [req EXCEPT ![r] = j]
  BY <1>3
<1>5. ReqTypes' /\ req'[r] = j /\ \A q \in Request \ {r} : req'[q] = req[q]
  BY <1>0, <1>4, ReqMoves
<1>6. StoreTypes'
  <2>1. CASE Store(r)
    <3>1. req[r].answer \in Entry(req[r].key)
      BY <1>0, <2>1 DEF Store, ReqOK
    <3> QED
      BY <1>0, <2>1, <3>1 DEF Store, StoreTypes, Outage, Unlock
  <2>2. CASE Lock(r)
    BY <1>0, <2>2 DEF Lock, StoreTypes
  <2> QED
    <3>1. outages' \in Nat
      <4>1. UNCHANGED outages \/ outages' = outages + 1
        BY DEF CacheHit, CacheMiss, QueryDB, Store, Lock, LockFails, ChargeFails, Crash, Arrive, Outage
      <4> QED
        BY <1>0, <4>1
    <3>2. Store(r) \/ Lock(r) \/ UNCHANGED <<plan, sold, weight, cache, lock>>
      BY DEF CacheHit, CacheMiss, QueryDB, LockFails, ChargeFails, Crash, Arrive
    <3> QED
      BY <1>0, <2>1, <2>2, <3>1, <3>2 DEF StoreTypes
<1>7. FillersHold'
  <2> SUFFICES ASSUME outages' = 0, NEW q \in Request, Filling(q)'
               PROVE  Holds(q)'
    BY DEF FillersHold
  <2>1. outages = 0 /\ ~Outage /\ UNCHANGED outages
    <3>1. ~Outage
      BY <1>0 DEF Outage
    <3>2. UNCHANGED outages
      BY <3>1 DEF CacheHit, CacheMiss, QueryDB, Store, Lock, LockFails, ChargeFails, Crash, Arrive
    <3> QED
      BY <3>1, <3>2
  <2>2. CASE q = r
    <3>1. CASE CacheHit(r)
      <4>1. cache[req[r].key] \in Entry(req[r].key)
        BY <1>0, <3>1 DEF CacheHit, StoreTypes
      <4>2. req'[r] = Resolved(r, cache[req[r].key])
        BY <3>1, <1>0 DEF CacheHit, ReqTypes
      <4> QED
        BY <1>0, <2>2, <4>1, <4>2, ResolvedFits DEF Filling
    <3>2. CASE Store(r)
      <4>1. req[r].answer \in Entry(req[r].key)
        BY <1>0, <3>2 DEF Store, ReqOK
      <4>2. req'[r] = Resolved(r, req[r].answer)
        BY <3>2, <1>0 DEF Store, ReqTypes
      <4> QED
        BY <1>0, <2>2, <4>1, <4>2, ResolvedFits DEF Filling
    <3>3. CASE Lock(r)
      <4>1. req'[r] = SecondLook(r)
        BY <3>3, <1>0 DEF Lock, ReqTypes
      <4>2. cache[req[r].key] = None
        <5>1. cache[req[r].key] # None => cache[req[r].key] \in Entry(req[r].key)
          BY <1>0 DEF StoreTypes
        <5> QED
          BY <1>0, <2>2, <4>1, <5>1, ResolvedFits DEF Filling, SecondLook
      <4>3. req'[r] = [req[r] EXCEPT !.step = "query", !.locked = TRUE]
        BY <4>1, <4>2 DEF SecondLook
      <4>4. req'[r].locked /\ req'[r].key = req[r].key
        BY <1>0, <4>3 DEF Req
      <4>5. lock' = [lock EXCEPT ![req[r].key] = r] /\ cache' = cache
        BY <3>3, <4>2 DEF Lock
      <4> QED
        BY <1>0, <2>2, <4>2, <4>4, <4>5 DEF Holds, StoreTypes
    <3>4. CASE QueryDB(r)
      <4>1. Filling(r)
        BY <3>4 DEF QueryDB, Filling
      <4>2. /\ req' = [req EXCEPT ![r].step = "store", ![r].answer = loadFromDB(req[r].key)]
            /\ UNCHANGED <<lock, cache>>
        BY <2>1, <3>4 DEF QueryDB
      <4>3. req'[r].locked = req[r].locked /\ req'[r].key = req[r].key
        BY <1>0, <4>2 DEF ReqTypes, Req
      <4> QED
        BY <2>1, <2>2, <4>1, <4>2, <4>3 DEF FillersHold, Holds
    <3>5. CASE CacheMiss(r) \/ \E kind \in Kinds : Arrive(r, kind)
      <4>1. req'[r].step \in {"wait", "look"}
        <5>1. CASE CacheMiss(r)
          BY <1>0, <5>1 DEF CacheMiss, ReqTypes, Req
        <5>2. ASSUME NEW kind \in Kinds, Arrive(r, kind) PROVE req'[r].step = "look"
          BY <1>0, <5>2 DEF Arrive, NoReq, ReqTypes
        <5> QED
          BY <3>5, <5>1, <5>2
      <4> QED
        BY <2>2, <4>1 DEF Filling
    <3> QED
      BY <2>1, <3>1, <3>2, <3>3, <3>4, <3>5 DEF LockFails, ChargeFails, Crash
  <2>3. CASE q # r
    <3>1. Filling(q) /\ Holds(q) /\ req'[q] = req[q] /\ req[q].key \in Key
      BY <1>5, <2>1, <2>3 DEF Filling, FillersHold, MeterTyped, ReqTypes, ReqOK, Req
    <3>2. CASE Lock(r)
      <4>1. req[q].key # req[r].key
        BY <2>3, <3>1, <3>2, ThroughputAssumption DEF Lock, Holds
      <4> QED
        BY <1>0, <3>1, <3>2, <4>1 DEF Lock, Holds, StoreTypes
    <3>3. CASE Store(r)
      <4>1. Filling(r)
        BY <3>3 DEF Store, Filling
      <4>2. Holds(r)
        BY <2>1, <4>1 DEF FillersHold
      <4>3. req[q].key # req[r].key
        BY <2>3, <3>1, <4>2 DEF Holds
      <4> QED
        BY <1>0, <3>1, <3>3, <4>3 DEF Store, Unlock, Holds, StoreTypes
    <3>4. CASE UNCHANGED <<lock, cache>>
      BY <3>1, <3>4 DEF Holds
    <3> QED
      BY <3>2, <3>3, <3>4 DEF CacheHit, CacheMiss, QueryDB, LockFails, ChargeFails, Crash, Arrive
  <2> QED
    BY <2>2, <2>3
<1> QED
  BY <1>2, <1>5, <1>6, <1>7 DEF MeterTyped

\* Charging keeps the types, and fills nothing.
LEMMA ChargeStep ==
  ASSUME MeterTyped, FillersHold, NEW r \in Request, Charge(r) \/ ChargeFallback(r)
  PROVE  MeterTyped' /\ FillersHold'
<1> USE DEF data, bound
<1>0. /\ ReqOK(req[r]) /\ req[r] \in Req /\ outages \in Nat /\ clock \in Time
      /\ StoreTypes /\ ReqTypes /\ MeterTypes
      /\ req[r].weight \in Nat
  <2>1. ReqOK(req[r]) /\ req[r] \in Req /\ req[r].weight \in Weight \cup {1}
    BY DEF MeterTyped, ReqTypes, ReqOK, Req
  <2>2. req[r].weight \in Nat
    BY <2>1, WeightsAreNumbers
  <2> QED
    BY <2>1, <2>2 DEF MeterTyped, StoreTypes, MeterTypes
<1>1. \E j : ReqOK(j) /\ ~(j.step \in {"query", "store"}) /\ req' = [req EXCEPT ![r] = j]
  <2>1. ReqOK(NoReq) /\ ~(NoReq.step \in {"query", "store"})
    BY <1>0, ReqsFit DEF NoReq
  <2>2. CASE Charge(r)
    <3>1. ReqOK(Exceeded(r)) /\ ~(Exceeded(r).step \in {"query", "store"})
      BY <1>0, <2>1, <2>2, ReqsFit DEF Charge, Exceeded, Req
    <3> QED
      BY <2>1, <2>2, <3>1 DEF Charge
  <2>3. CASE ChargeFallback(r)
    BY <2>1, <2>3 DEF ChargeFallback
  <2> QED
    BY <2>2, <2>3
<1>2. PICK j : ReqOK(j) /\ ~(j.step \in {"query", "store"}) /\ req' = [req EXCEPT ![r] = j]
  BY <1>1
<1>3. ReqTypes' /\ req'[r] = j /\ \A q \in Request \ {r} : req'[q] = req[q]
  BY <1>0, <1>2, ReqMoves
<1>4. \E m \in Meter, info \in Granted :
        /\ Increment(m, info, req[r].weight) /\ Remember(m, info, req[r].weight)
  <2>1. CASE Charge(r)
    BY <1>0, <2>1 DEF Charge, ReqOK, Meter
  <2>2. CASE ChargeFallback(r)
    BY <1>0, <2>2, DefaultFits DEF ChargeFallback, Meter
  <2> QED
    BY <2>1, <2>2
<1>5. PICK m \in Meter, info \in Granted :
        /\ Increment(m, info, req[r].weight) /\ Remember(m, info, req[r].weight)
  BY <1>4
<1>6. UNCHANGED <<data, cache, lock, clock>>
  BY DEF Charge, ChargeFallback
<1>7. outages' \in Nat /\ (outages' = 0 => outages = 0)
  BY <1>0, <1>5 DEF Increment, Outage
<1>8. StoreTypes'
  BY <1>0, <1>6, <1>7 DEF StoreTypes
<1>9. MeterTypes'
  <2>1. upgrades' \in [Time -> Nat]
    <3>1. CASE Charge(r)
      BY <1>0, <3>1 DEF Charge, MeterTypes
    <3>2. CASE ChargeFallback(r)
      <4>1. upgrades' = [upgrades EXCEPT ![WindowOf(clock)] = @ + IF isFallbackRoute(req[r].kind)
                                                                  THEN req[r].weight ELSE 0]
        BY <3>2 DEF ChargeFallback
      <4>2. WindowOf(clock) \in Time
        BY <1>0, WindowIsTime
      <4> DEFINE t == WindowOf(clock)
                 w == IF isFallbackRoute(req[r].kind) THEN req[r].weight ELSE 0
      <4>3. w \in Nat /\ upgrades' = [upgrades EXCEPT ![t] = @ + w]
        BY <1>0, <4>1
      <4> HIDE DEF t, w
      <4> QED
        BY <1>0, <4>2, <4>3 DEF MeterTypes, t
    <3> QED
      BY <3>1, <3>2
  <2>2. info.limit \in Int /\ info.window \in Nat \ {0}
    BY <1>5 DEF Granted, Throughputs
  <2> QED
    BY <1>0, <1>5, <1>6, <2>1, <2>2, Charging DEF MeterTypes
<1>10. FillersHold'
  BY <1>0, <1>2, <1>3, <1>6, <1>7 DEF FillersHold, Filling, Holds
<1> QED
  BY <1>3, <1>8, <1>9, <1>10 DEF MeterTyped

\* So does what happens around the requests: changes, invalidations, expiry, time.
LEMMA ElseStep ==
  ASSUME MeterTyped, FillersHold,
         \/ \E s \in Scope, p \in Plan \ {Default} :
               ChangeSubscription(s, p) \/ SubscriptionExpires(s, p)
         \/ \E p \in Plan : PlanDeleted(p) \/ \E info \in Info : PlanUpdated(p, info)
         \/ \E w \in Weight \cup {None} : ChangeEndpointWeight(w)
         \/ \E k \in Key : InvalidateCache(k) \/ CacheExpires(k) \/ LockExpires(k)
         \/ ClockTicks \/ UNCHANGED meterVars
  PROVE  MeterTyped' /\ FillersHold'
<1> USE DEF data, bound
<1>0. StoreTypes /\ ReqTypes /\ MeterTypes /\ outages \in Nat
  BY DEF MeterTyped, StoreTypes
<1>1. CASE ClockTicks
  <2>1. StoreTypes' /\ ReqTypes' /\ FillersHold'
    BY <1>0, <1>1 DEF ClockTicks, StoreTypes, ReqTypes, FillersHold, Filling, Holds
  <2>2. clock' \in Time /\ Never \in Nat
    BY <1>0, <1>1, ThroughputAssumption DEF ClockTicks, MeterTypes, Time, Never
  <2>3. count' \in [Meter \X Time -> Nat] /\ deadline' \in [Meter \X Time -> Nat]
    BY <1>0, <1>1, <2>2 DEF ClockTicks, MeterTypes
  <2> QED
    BY <1>0, <1>1, <2>1, <2>2, <2>3 DEF ClockTicks, MeterTypes, MeterTyped
<1>2. CASE ~ClockTicks
  <2>1. UNCHANGED <<meter, clock, req>>
    BY <1>2 DEF ChangeSubscription, SubscriptionExpires, PlanDeleted, PlanUpdated,
       ChangeEndpointWeight, InvalidateCache, CacheExpires, LockExpires, meterVars, meter
  <2>2. MeterTypes' /\ ReqTypes'
    BY <1>0, <2>1 DEF meter, MeterTypes, ReqTypes
  <2>3. StoreTypes' /\ FillersHold'
    <3>1. ASSUME NEW s \in Scope, NEW p \in Plan \ {Default},
                 ChangeSubscription(s, p) \/ SubscriptionExpires(s, p)
          PROVE  StoreTypes' /\ FillersHold'
      <4>1. sold' \in [Scope -> SUBSET Plan] /\ UNCHANGED <<plan, weight, cache, lock, req, outages>>
        BY <1>0, <3>1 DEF ChangeSubscription, SubscriptionExpires, Change, StoreTypes
      <4> QED
        BY <1>0, <4>1 DEF StoreTypes, FillersHold, Filling, Holds
    <3>2. ASSUME NEW p \in Plan, PlanDeleted(p) \/ \E info \in Info : PlanUpdated(p, info)
          PROVE  StoreTypes' /\ FillersHold'
      <4>1. plan' \in [Plan -> Info \cup {None}] /\ UNCHANGED <<sold, weight, cache, lock, req, outages>>
        BY <1>0, <3>2 DEF PlanDeleted, PlanUpdated, Change, StoreTypes
      <4> QED
        BY <1>0, <4>1 DEF StoreTypes, FillersHold, Filling, Holds
    <3>3. ASSUME NEW w \in Weight \cup {None}, ChangeEndpointWeight(w)
          PROVE  StoreTypes' /\ FillersHold'
      BY <1>0, <3>3 DEF ChangeEndpointWeight, Change, StoreTypes, FillersHold, Filling, Holds
    <3>4. ASSUME NEW k \in Key, InvalidateCache(k) \/ CacheExpires(k)
          PROVE  StoreTypes' /\ FillersHold'
      <4>1. /\ cache' = cache \/ cache' = [cache EXCEPT ![k] = None]
            /\ UNCHANGED <<plan, sold, weight, lock, req>> /\ outages' \in Nat
            /\ outages' = 0 => outages = 0
        BY <1>0, <3>4 DEF InvalidateCache, CacheExpires, Change, Outage
      <4>2. DOMAIN cache' = Key /\ \A x \in Key : cache'[x] \in {cache[x], None}
        BY <1>0, <4>1 DEF StoreTypes
      <4>3. StoreTypes'
        BY <1>0, <4>1, <4>2 DEF StoreTypes
      <4>4. \A q \in Request : req[q].key \in Key
        BY <1>0 DEF ReqTypes, ReqOK, Req
      <4> QED
        BY <1>0, <4>1, <4>2, <4>3, <4>4 DEF FillersHold, Filling, Holds
    <3>5. ASSUME NEW k \in Key, LockExpires(k)
          PROVE  StoreTypes' /\ FillersHold'
      <4>1. /\ lock' = [lock EXCEPT ![k] = None] /\ UNCHANGED <<plan, sold, weight, cache, req, outages>>
            /\ ~(req[lock[k]].locked /\ req[lock[k]].key = k)
        BY <3>5 DEF LockExpires
      <4>2. \A q \in Request : req[q].key \in Key
        BY <1>0 DEF ReqTypes, ReqOK, Req
      <4> QED
        BY <1>0, <4>1, <4>2 DEF StoreTypes, FillersHold, Filling, Holds
    <3>6. CASE UNCHANGED meterVars
      BY <1>0, <3>6 DEF meterVars, StoreTypes, FillersHold, Filling, Holds
    <3> QED
      BY <1>2, <3>1, <3>2, <3>3, <3>4, <3>5, <3>6
  <2> QED
    BY <2>2, <2>3 DEF MeterTyped
<1> QED
  BY <1>1, <1>2

\* Every step keeps the types and what holds of those who fill an entry.
LEMMA MeterStep == MeterTyped /\ FillersHold /\ [MeterNext]_meterVars => MeterTyped' /\ FillersHold'
  BY ReadStep, ChargeStep, ElseStep DEF MeterNext, RequestStep

\* They hold always.
LEMMA MeterAlways == MeterSpec => [](MeterTyped /\ FillersHold)
<1>1. MeterTyped /\ FillersHold /\ [MeterNext]_meterVars => (MeterTyped /\ FillersHold)'
  BY MeterStep
<1> QED
  BY <1>1, MeterStarts, PTL DEF MeterSpec

\* For any number of requests and of changes: while no call fails, nobody loads an
\* entry that is there, and no two load one key at a time.
THEOREM HerdStays == MeterSpec => []HerdIsHeld
<1>1. MeterTyped /\ FillersHold => HerdIsHeld
  BY DEF FillersHold, HerdIsHeld, Holds
<1> QED
  BY <1>1, MeterAlways, PTL

-----------------------------------------------------------------------------
(* Throughput: what passes in a window.                                    *)

\* The windows have one length.
OneLength == \A i \in Info : i.window = Window

\* What passed in the current window has been counted, and its counter is there
\* until the window ends; nothing has passed in windows to come.
Budget ==
    /\ \A b \in Meter \X Time : admitted[b] <= granted[b]
    /\ \A m \in Meter, t \in Time :
         /\ t = WindowOf(clock) => admitted[<<m, t>>] <= count[<<m, t>>]
         /\ t > clock => admitted[<<m, t>>] = 0
         /\ deadline[<<m, t>>] = Never \/ deadline[<<m, t>>] >= t + Window
    /\ \A t \in Time : count[<<"user-fallback", t>>] <= upgrades[t]

\* The next window begins after this one has ended.
LEMMA NextWindow ==
  ASSUME NEW n \in Time, n + 1 \in Time, WindowOf(n + 1) # WindowOf(n)
  PROVE  WindowOf(n + 1) > n
<1>1. n \in Nat /\ Window \in Nat \ {0}
  BY ThroughputAssumption DEF Time
<1> DEFINE p == n \div Window
           q == (n + 1) \div Window
<1>2. /\ p \in Int /\ q \in Int
      /\ p * Window <= n /\ n < p * Window + Window
      /\ q * Window <= n + 1 /\ n + 1 < q * Window + Window
  BY <1>1
<1>3. ASSUME q * Window <= n PROVE p = q
  <2> HIDE DEF p, q
  <2>1. CASE p < q
    <3>1. (q - p - 1) * Window >= 0
      BY <1>1, <1>2, <2>1
    <3> QED
      BY <1>1, <1>2, <1>3, <2>1, <3>1
  <2>2. CASE q < p
    <3>1. (p - q - 1) * Window >= 0
      BY <1>1, <1>2, <2>2
    <3> QED
      BY <1>1, <1>2, <1>3, <2>2, <3>1
  <2> QED
    BY <1>2, <2>1, <2>2
<1>4. ~(q * Window <= n)
  BY <1>3 DEF WindowOf
<1>5. q * Window \in Int
  <2> HIDE DEF q
  <2> QED
    BY <1>1, <1>2
<1> QED
  BY <1>1, <1>4, <1>5 DEF WindowOf

\* Nothing has passed at first.
LEMMA BudgetInit == MeterInit => Budget
<1>1. \A t \in Time : t \in Nat
  BY ThroughputAssumption DEF Time
<1>2. ASSUME MeterInit, NEW b \in Meter \X Time
      PROVE  admitted[b] = 0 /\ count[b] = 0 /\ granted[b] = 0 /\ deadline[b] = Never
  BY <1>2 DEF MeterInit
<1>3. \A t \in Time : <<"user-fallback", t>> \in Meter \X Time
  BY DEF Meter
<1> QED
  BY <1>1, <1>2, <1>3 DEF MeterInit, Budget

\* A charge is counted in the counter of its window before it passes.
LEMMA ChargeKeepsBudget ==
  ASSUME OneLength, MeterTyped, Budget, NEW m \in Meter, NEW info \in Granted, ~info.unlimited,
         NEW w \in Nat, Increment(m, info, w), Remember(m, info, w), clock' = clock,
         \/ m # "user-fallback" /\ upgrades' = upgrades
         \/ /\ m = "user-fallback"
            /\ upgrades' = [upgrades EXCEPT ![WindowOf(clock)] = @ + w]
  PROVE  Budget'
<1> DEFINE t == WindowOf(clock)
           a == <<m, t>>
           let == IF Within(m, info, w) THEN w ELSE 0
<1>1. MeterTypes /\ clock \in Time
  BY DEF MeterTyped, MeterTypes
<1>2. info.limit \in Int /\ info.window = Window /\ Window \in Nat \ {0}
  BY ThroughputAssumption DEF Granted, Throughputs, OneLength
<1>3. bucketStart(info.window) = t
  BY <1>2 DEF bucketStart, WindowOf
<1>4. t \in Time /\ t <= clock /\ clock \in Nat /\ t \in Nat
  BY <1>1, WindowIsTime, ThroughputAssumption DEF Time
<1>5. /\ a \in Meter \X Time
      /\ count' = [count EXCEPT ![a] = count[a] + w]
      /\ deadline' = deadline \/ deadline' = [deadline EXCEPT ![a] = clock + Window]
      /\ admitted' = [admitted EXCEPT ![a] = admitted[a] + let]
      /\ granted' = [granted EXCEPT ![a] = Max({granted[a], info.limit})]
      /\ admitted' \in [Meter \X Time -> Nat] /\ granted' \in [Meter \X Time -> Nat]
      /\ granted'[a] >= granted[a] /\ granted'[a] >= info.limit
  <2> DEFINE c == <<m, bucketStart(info.window)>>
  <2>1. c = a
    BY <1>3
  <2>2. info.limit \in Int /\ info.window \in Nat \ {0}
    BY <1>2
  <2>3. c \in Meter \X Time /\ count' = [count EXCEPT ![c] = count[c] + w]
    BY <1>1, <2>2, BucketIsTime DEF Increment
  <2>4. deadline' = deadline \/ deadline' = [deadline EXCEPT ![c] = clock + info.window]
    BY <1>1, <2>2, Charging
  <2>5. admitted' = [admitted EXCEPT ![a] = admitted[a] + let]
    BY <1>1, <2>2, Charging
  <2>6. /\ granted' = [granted EXCEPT ![a] = Max({granted[a], info.limit})]
        /\ admitted' \in [Meter \X Time -> Nat] /\ granted' \in [Meter \X Time -> Nat]
    BY <1>1, <2>2, Charging
  <2>7. granted'[a] >= granted[a] /\ granted'[a] >= info.limit
    BY <1>1, <2>2, Charging
  <2> HIDE DEF a, c, let
  <2> QED
    BY <1>2, <2>1, <2>3, <2>4, <2>5, <2>6, <2>7
<1>6. (let = w /\ count[a] + w <= info.limit) \/ let = 0
  BY <1>3 DEF Within, Total
<1>7. count[a] \in Nat /\ admitted[a] \in Nat /\ granted[a] \in Nat /\ granted'[a] \in Nat
      /\ admitted[a] <= count[a] /\ admitted[a] <= granted[a]
  BY <1>1, <1>4, <1>5 DEF MeterTypes, Budget
<1> HIDE DEF let
<1>8. admitted[a] + let <= granted'[a] /\ admitted[a] + let <= count[a] + w
  BY <1>2, <1>5, <1>6, <1>7
<1>9. ASSUME NEW b \in Meter \X Time
      PROVE  admitted'[b] <= granted'[b]
  <2>1. CASE b = a
    BY <1>1, <1>5, <1>8, <2>1 DEF MeterTypes
  <2>2. CASE b # a
    BY <1>1, <1>5, <2>2 DEF MeterTypes, Budget
  <2> QED
    BY <2>1, <2>2
<1>10. ASSUME NEW n \in Meter, NEW u \in Time
       PROVE  /\ u = WindowOf(clock) => admitted'[<<n, u>>] <= count'[<<n, u>>]
              /\ u > clock => admitted'[<<n, u>>] = 0
              /\ deadline'[<<n, u>>] = Never \/ deadline'[<<n, u>>] >= u + Window
  <2> DEFINE b == <<n, u>>
  <2>1. b \in Meter \X Time
    OBVIOUS
  <2>2. CASE b = a
    <3>1. n = m /\ u = t
      BY <2>2
    <3>2. admitted'[b] <= count'[b]
      BY <1>1, <1>5, <1>8, <2>2 DEF MeterTypes
    <3>3. ~(u > clock) /\ clock + Window >= u + Window
      BY <1>2, <1>4, <3>1
    <3>4. deadline'[b] = Never \/ deadline'[b] >= u + Window
      BY <1>1, <1>5, <2>2, <3>3 DEF MeterTypes, Budget
    <3> QED
      BY <3>2, <3>3, <3>4
  <2>3. CASE b # a
    <3>1. admitted'[b] = admitted[b] /\ count'[b] = count[b] /\ deadline'[b] = deadline[b]
      <4> HIDE DEF a, b
      <4> QED
        BY <1>1, <1>5, <2>1, <2>3 DEF MeterTypes
    <3> QED
      BY <3>1 DEF Budget
  <2> QED
    BY <2>2, <2>3
<1>11. ASSUME NEW u \in Time
       PROVE  count'[<<"user-fallback", u>>] <= upgrades'[u]
  <2> DEFINE b == <<"user-fallback", u>>
  <2>1. b \in Meter \X Time /\ count[b] \in Nat /\ upgrades[u] \in Nat /\ count[b] <= upgrades[u]
    BY <1>1 DEF Meter, MeterTypes, Budget
  <2>2. CASE b = a
    <3>1. m = "user-fallback" /\ u = t
      BY <2>2
    <3>2. upgrades'[u] = upgrades[u] + w
      BY <1>1, <3>1 DEF MeterTypes
    <3>3. count'[b] = count[b] + w
      BY <1>1, <1>5, <2>2 DEF MeterTypes
    <3> QED
      BY <2>1, <3>2, <3>3
  <2>3. CASE b # a
    <3>1. count'[b] = count[b]
      <4> HIDE DEF a, b
      <4> QED
        BY <1>1, <1>5, <2>1, <2>3 DEF MeterTypes
    <3>2. upgrades'[u] = upgrades[u]
      <4>1. m = "user-fallback" => u # t
        BY <2>3
      <4> QED
        BY <1>1, <4>1 DEF MeterTypes
    <3> QED
      BY <2>1, <3>1, <3>2
  <2> QED
    BY <2>2, <2>3
<1> QED
  BY <1>9, <1>10, <1>11 DEF Budget, Never, WindowOf

\* A counter that goes is one of a window that is over.
LEMMA TickKeepsBudget ==
  ASSUME MeterTyped, Budget, ClockTicks
  PROVE  Budget'
<1>1. /\ MeterTypes /\ clock \in Time /\ clock \in Nat /\ clock + 1 \in Time /\ clock' = clock + 1
      /\ UNCHANGED <<admitted, granted, upgrades>> /\ Never \in Nat /\ clock + 1 < Never
      /\ Window \in Nat \ {0}
  BY ThroughputAssumption DEF ClockTicks, MeterTyped, MeterTypes, Time, Never
<1>2. \A t \in Time : t \in Nat
  BY ThroughputAssumption DEF Time
<1>3. ASSUME NEW b \in Meter \X Time
      PROVE  /\ count'[b] = IF deadline[b] <= clock + 1 THEN 0 ELSE count[b]
             /\ deadline'[b] = IF deadline[b] <= clock + 1 THEN Never ELSE deadline[b]
             /\ count[b] \in Nat /\ admitted[b] \in Nat /\ deadline[b] \in Nat
  BY <1>1 DEF ClockTicks, MeterTypes
<1>4. ASSUME NEW m \in Meter, NEW t \in Time
      PROVE  /\ t = WindowOf(clock + 1) => admitted[<<m, t>>] <= count'[<<m, t>>]
             /\ t > clock + 1 => admitted[<<m, t>>] = 0
             /\ deadline'[<<m, t>>] = Never \/ deadline'[<<m, t>>] >= t + Window
  <2> DEFINE b == <<m, t>>
  <2>1. /\ count'[b] = IF deadline[b] <= clock + 1 THEN 0 ELSE count[b]
        /\ deadline'[b] = IF deadline[b] <= clock + 1 THEN Never ELSE deadline[b]
        /\ count[b] \in Nat /\ admitted[b] \in Nat /\ deadline[b] \in Nat
    BY <1>3
  <2>2. /\ t = WindowOf(clock) => admitted[b] <= count[b]
        /\ t > clock => admitted[b] = 0
        /\ deadline[b] = Never \/ deadline[b] >= t + Window
    BY DEF Budget
  <2>3. t = WindowOf(clock + 1) => t + Window > clock + 1 /\ (t = WindowOf(clock) \/ t > clock)
    BY <1>1, WindowIsTime, NextWindow
  <2>4. t \in Nat
    BY <1>2
  <2> HIDE DEF b
  <2>5. t = WindowOf(clock + 1) => admitted[b] <= count'[b]
    BY <1>1, <2>1, <2>2, <2>3, <2>4
  <2>6. t > clock + 1 => admitted[b] = 0
    BY <1>1, <2>2, <2>4
  <2>7. deadline'[b] = Never \/ deadline'[b] >= t + Window
    BY <2>1, <2>2
  <2> QED
    BY <2>5, <2>6, <2>7 DEF b
<1>5. ASSUME NEW t \in Time
      PROVE  count'[<<"user-fallback", t>>] <= upgrades[t]
  <2> DEFINE b == <<"user-fallback", t>>
  <2>1. b \in Meter \X Time /\ upgrades[t] \in Nat /\ count[b] <= upgrades[t]
    BY <1>1 DEF Meter, MeterTypes, Budget
  <2>2. count'[b] \in {0, count[b]} /\ count[b] \in Nat
    BY <1>3, <2>1
  <2> QED
    BY <2>1, <2>2
<1>6. WindowOf(clock)' = WindowOf(clock + 1)
  BY <1>1 DEF WindowOf
<1> QED
  BY <1>1, <1>4, <1>5, <1>6 DEF Budget, Never

\* Every step keeps the budgets.
LEMMA BudgetStep == OneLength /\ MeterTyped /\ Budget /\ [MeterNext]_meterVars => Budget'
<1> SUFFICES ASSUME OneLength, MeterTyped, Budget, [MeterNext]_meterVars PROVE Budget'
  OBVIOUS
<1>1. ASSUME NEW r \in Request, Charge(r)
      PROVE  Budget'
  <2>1. ReqOK(req[r])
    BY DEF MeterTyped, ReqTypes
  <2>2. req[r].weight \in Nat
    BY <2>1, WeightsAreNumbers DEF ReqOK, Req
  <2>3. /\ req[r].key \in Scope /\ req[r].answer \in Granted /\ ~req[r].answer.unlimited
    BY <1>1, <2>1 DEF Charge, ReqOK
  <2>4. req[r].key \in Meter /\ req[r].key # "user-fallback"
    BY <2>3 DEF Meter, Scope
  <2>5. /\ Increment(req[r].key, req[r].answer, req[r].weight)
        /\ Remember(req[r].key, req[r].answer, req[r].weight)
        /\ clock' = clock /\ upgrades' = upgrades
    BY <1>1 DEF Charge
  <2> QED
    BY <2>2, <2>3, <2>4, <2>5, ChargeKeepsBudget
<1>2. ASSUME NEW r \in Request, ChargeFallback(r)
      PROVE  Budget'
  <2>1. ReqOK(req[r])
    BY DEF MeterTyped, ReqTypes
  <2>2. req[r].weight \in Nat
    BY <2>1, WeightsAreNumbers DEF ReqOK, Req
  <2>3. isFallbackRoute(req[r].kind)
    BY <1>2, <2>1 DEF ChargeFallback, ReqOK, isFallbackRoute
  <2>4. /\ Increment("user-fallback", DefaultFreeInfo, req[r].weight)
        /\ Remember("user-fallback", DefaultFreeInfo, req[r].weight)
        /\ clock' = clock
        /\ upgrades' = [upgrades EXCEPT ![WindowOf(clock)] = @ + req[r].weight]
    BY <1>2, <2>3 DEF ChargeFallback
  <2>5. DefaultFreeInfo \in Granted /\ ~DefaultFreeInfo.unlimited
    BY DefaultFits DEF MeterTyped
  <2> QED
    BY <2>2, <2>4, <2>5, ChargeKeepsBudget DEF Meter
<1>3. CASE ClockTicks
  BY <1>3, TickKeepsBudget
<1>4. CASE UNCHANGED <<meter, clock>>
  BY <1>4 DEF meter, Budget
<1> QED
  BY <1>1, <1>2, <1>3, <1>4 DEF MeterNext, RequestStep, CacheHit, CacheMiss, QueryDB, Store, Lock,
     LockFails, ChargeFails, Crash, Arrive, ChangeSubscription, SubscriptionExpires, PlanUpdated,
     PlanDeleted, ChangeEndpointWeight, InvalidateCache, CacheExpires, LockExpires, meterVars, meter

\* What customers are told is true.
LEMMA ReportIsTrue ==
  ASSUME MeterTyped, Budget, NEW m \in Meter, NEW info \in Granted
  PROVE  Promised(Usage(m, info))
<1> SUFFICES ASSUME info.window = Window, ~info.unlimited
             PROVE  LET b == <<m, WindowOf(clock)>>
                        u == Usage(m, info)
                    IN  /\ u.remaining <= Max({0, info.limit - admitted[b]})
                        /\ u.remaining = setLimitedRateLimitHeaders(m, info).remaining
                        /\ deadline[b] # Never => deadline[b] >= throughputExceeded(info).reset
  BY DEF Promised, Usage
<1> DEFINE t == WindowOf(clock)
           b == <<m, t>>
<1>1. clock \in Time /\ t \in Time /\ b \in Meter \X Time
  BY WindowIsTime DEF MeterTyped, MeterTypes
<1>2. /\ count[b] \in Nat /\ admitted[b] \in Nat /\ admitted[b] <= count[b]
      /\ deadline[b] = Never \/ deadline[b] >= t + Window
  BY <1>1 DEF MeterTyped, MeterTypes, Budget
<1>3. Current(m, info) = count[b] /\ throughputExceeded(info).reset = t + Window
  BY DEF Current, bucketStart, WindowOf, throughputExceeded, WindowReset
<1>4. Usage(m, info).remaining = Max({0, info.limit - count[b]})
  BY <1>3 DEF Usage
<1>5. setLimitedRateLimitHeaders(m, info).remaining = Max({0, info.limit - count[b]})
  BY <1>3 DEF setLimitedRateLimitHeaders
<1>6. Max({0, info.limit - count[b]}) <= Max({0, info.limit - admitted[b]})
  <2> DEFINE x == info.limit - count[b]
             y == info.limit - admitted[b]
  <2>1. x \in Int /\ y \in Int /\ x <= y
    BY <1>2 DEF Granted, Throughputs
  <2> HIDE DEF x, y
  <2>2. Max({0, x}) \in {0, x}
    BY <2>1, LargerIsOne
  <2>3. Max({0, y}) >= 0 /\ Max({0, y}) >= y /\ Max({0, y}) \in Nat
    BY <2>1, LargerOfTwo
  <2> QED
    BY <2>1, <2>2, <2>3 DEF x, y
<1> QED
  BY <1>2, <1>3, <1>4, <1>5, <1>6

\* However many requests there are, and whatever fails or is served from an old entry:
\* what passes in a window is no more than the largest limit it was compared with, and
\* what the usage and the headers promise is true.  Plans whose windows differ share
\* counters at some instants, so the windows have one length here.
THEOREM BudgetIsKept ==
  ASSUME OneLength
  PROVE  MeterSpec => []WithinBudget
<1>1. Budget /\ MeterTyped /\ FillersHold /\ [MeterNext]_meterVars => Budget'
  BY BudgetStep
<1>2. Budget /\ MeterTyped => WithinBudget
  <2> SUFFICES ASSUME Budget, MeterTyped PROVE \A u \in GetUsage : Promised(u)
    BY DEF Budget, WithinBudget
  <2>1. \A s \in Scope : Resolve(s) \in Granted
    BY QueryFits DEF Resolve, MeterTyped, StoreTypes, Entry, Key, Scope
  <2>2. DefaultFreeInfo \in Granted
    BY DefaultFits DEF MeterTyped
  <2>3. Scope \subseteq Meter /\ "user-fallback" \in Meter
    BY DEF Meter
  <2> QED
    BY <2>1, <2>2, <2>3, ReportIsTrue DEF GetUsage, buildScopeUsage
<1> QED
  BY <1>1, <1>2, BudgetInit, MeterAlways, PTL DEF MeterSpec

-----------------------------------------------------------------------------
(* Catalog: what rows keep of the provider, and what checkouts know.       *)

EditAt == [at : {"create"}, plan : Plan, currency : Currency, cents : Cents, alone : BOOLEAN]
          \cup [at : {"update"}, plan : Plan, key : Price, alone : BOOLEAN]
CheckoutAt == [at : {"find", "product", "price", "save", "open", "failed"}, key : Price,
               plan : Plan, currency : Currency, cents : Cents, product : Nat, stripe : Nat]
NewCheckout == [at : {"new"}, plan : Plan \cup {None}]

ShopTypes ==
    /\ active \in [Plan -> BOOLEAN \cup {None}] /\ DOMAIN blame = Plan
    /\ DOMAIN price = Price /\ amounts \in [Price -> SUBSET Cents]
    /\ DOMAIN edit = Admin /\ \A a \in Admin : edit[a] \in EditAt \cup {NoEdit}
    /\ DOMAIN checkout = Customer
    /\ \A c \in Customer : checkout[c] \in CheckoutAt \cup NewCheckout
    /\ product \in Seq(Plan)
    /\ recurring \in Seq([product : Nat, currency : Currency, cents : Cents])
    /\ \A n \in DOMAIN recurring : recurring[n].product \in DOMAIN product

\* A row is of a plan that is there, and what it keeps of the provider is its own.
Listed(i) ==
    price[i] # None =>
      /\ price[i] \in PriceRows /\ active[price[i].plan] # None /\ price[i].cents \in amounts[i]
Charged(i) ==
    price[i] # None =>
      /\ price[i].stripe # 0 => /\ price[i].stripe \in DOMAIN recurring
                                /\ IsPriceOf(price[i].stripe, price[i].plan, price[i].currency, i)
      /\ price[i].product # 0 => /\ price[i].product \in DOMAIN product
                                 /\ product[price[i].product] = price[i].plan
                                 /\ price[i].stripe # 0

\* A checkout knows the price it has read, and what it has made for it.
Knows(c) ==
    LET k == checkout[c]
    IN  k.at # "new" =>
          /\ k.cents \in amounts[k.key]
          /\ price[k.key] # None => price[k.key].plan = k.plan /\ price[k.key].currency = k.currency
          /\ k.at \in {"find", "product"} => k.product = 0
          /\ k.at \in {"price", "save"} => k.product \in DOMAIN product /\ product[k.product] = k.plan
          /\ k.at \in {"save", "open"} => /\ k.stripe \in DOMAIN recurring
                                          /\ IsPriceOf(k.stripe, k.plan, k.currency, k.key)

ShopInv ==
    /\ ShopTypes
    /\ \A i \in Price : Listed(i) /\ Charged(i)
    /\ \A c \in Customer : Knows(c)

\* The rows that are there at first are sound, and nothing is at the provider.
LEMMA ShopInvInit == ShopInit => ShopInv
<1> SUFFICES ASSUME ShopInit PROVE ShopInv
  OBVIOUS
<1> USE DEF ShopInit
<1>1. ShopTypes
  <2>1. active \in [Plan -> BOOLEAN \cup {None}] /\ DOMAIN blame = Plan /\ DOMAIN price = Price
    OBVIOUS
  <2>2. amounts \in [Price -> SUBSET Cents]
    BY CatalogAssumption DEF PriceRow
  <2>3. product \in Seq(Plan) /\ recurring \in Seq([product : Nat, currency : Currency, cents : Cents])
        /\ \A n \in DOMAIN recurring : recurring[n].product \in DOMAIN product
    OBVIOUS
  <2>4. DOMAIN edit = Admin /\ (\A a \in Admin : edit[a] \in EditAt \cup {NoEdit})
        /\ DOMAIN checkout = Customer /\ (\A c \in Customer : checkout[c] \in NewCheckout)
    BY DEF NoCheckout, NewCheckout
  <2> QED
    BY <2>1, <2>2, <2>3, <2>4 DEF ShopTypes
<1>2. ASSUME NEW i \in Price, price[i] # None
      PROVE  Listed(i) /\ Charged(i)
  <2>1. i \in DOMAIN Offer /\ price[i] = Offer[i] /\ amounts[i] = {Offer[i].cents}
    BY <1>2
  <2>2. PICK p \in Plan, c \in Currency, n \in Cents, d \in BOOLEAN : Offer[i] = PriceRow(p, c, n, d)
    BY <2>1, CatalogAssumption
  <2>3. price[i] \in PriceRows /\ price[i].stripe = 0 /\ price[i].product = 0
        /\ price[i].cents \in amounts[i] /\ Offer[i].plan \in Plan
    BY <2>1, <2>2 DEF PriceRow, PriceRows
  <2>4. active[price[i].plan] = TRUE
    BY <2>1, <2>3
  <2> QED
    BY <2>3, <2>4, CatalogAssumption DEF Listed, Charged
<1>3. \A c \in Customer : Knows(c)
  BY DEF Knows, NoCheckout
<1> QED
  BY <1>1, <1>2, <1>3 DEF ShopInv, Listed, Charged

-----------------------------------------------------------------------------
\* What requests of administrators do to the rows: a row keeps what it is of, or
\* goes and its plan is scattered; a new one has a new key.
Kept(i) ==
    /\ price'[i] # None
    /\ price'[i].plan = price[i].plan /\ price'[i].currency = price[i].currency
    /\ price'[i].stripe = price[i].stripe /\ price'[i].product = price[i].product
Gone(i)  == price'[i] = None /\ price[i].plan \in scattered'
Added(i) == Fresh(i) /\ price'[i].stripe = 0 /\ price'[i].product = 0

EditStep ==
    /\ UNCHANGED <<checkout, product, recurring>> /\ scattered \subseteq scattered'
    /\ ShopTypes'
    /\ \A i \in Price :
         /\ Listed(i)' /\ amounts[i] \subseteq amounts'[i]
         /\ price[i] # None => Kept(i) \/ Gone(i)
         /\ price[i] = None /\ price'[i] # None => Added(i)

\* They leave what the rows keep of the provider, and what checkouts know, true.
LEMMA EditStepKeeps == ShopInv /\ EditStep => ShopInv'
<1> SUFFICES ASSUME ShopInv, EditStep PROVE ShopInv'
  OBVIOUS
<1>1. \A n, p, c, i : i \in Price /\ IsPriceOf(n, p, c, i) => IsPriceOf(n, p, c, i)'
  BY DEF EditStep, IsPriceOf
<1>2. ASSUME NEW i \in Price PROVE Charged(i)'
  <2>1. CASE price[i] # None
    BY <1>1, <2>1 DEF EditStep, Kept, Gone, ShopInv, Charged
  <2>2. CASE price[i] = None
    BY <2>2 DEF EditStep, Added, Charged
  <2> QED
    BY <2>1, <2>2
<1>3. ASSUME NEW c \in Customer PROVE Knows(c)'
  <2>1. CASE checkout[c].at = "new"
    BY <2>1 DEF EditStep, Knows
  <2>2. CASE checkout[c].at # "new"
    <3> DEFINE k == checkout[c]
    <3>1. k.key \in Price /\ k.cents \in amounts[k.key] /\ Knows(c) /\ checkout' = checkout
      BY <2>2 DEF ShopInv, ShopTypes, NewCheckout, CheckoutAt, Knows, EditStep
    <3>2. price'[k.key] # None => price[k.key] # None /\ Kept(k.key)
      BY <3>1 DEF EditStep, Gone, Added, Fresh
    <3> QED
      BY <1>1, <2>2, <3>1, <3>2 DEF Knows, Kept, EditStep
  <2> QED
    BY <2>1, <2>2
<1> QED
  BY <1>2, <1>3 DEF ShopInv, EditStep

\* What the requests of administrators are at.
LEMMA EditIsTyped ==
  ASSUME ShopTypes, NEW a \in Admin, edit[a].at # "idle"
  PROVE  /\ edit[a] \in EditAt /\ edit[a].plan \in Plan /\ edit[a].alone \in BOOLEAN
         /\ edit[a].at \in {"create", "update"}
         /\ edit[a].at = "update" => edit[a].key \in Price
         /\ edit[a].at = "create" => edit[a].currency \in Currency /\ edit[a].cents \in Cents
         /\ [edit[a] EXCEPT !.alone = FALSE] \in EditAt
         /\ [edit[a] EXCEPT !.alone = FALSE].at = edit[a].at
         /\ [edit[a] EXCEPT !.alone = FALSE].plan = edit[a].plan
         /\ ~[edit[a] EXCEPT !.alone = FALSE].alone
<1>1. edit[a] \in EditAt
  BY DEF ShopTypes, NoEdit
<1> QED
  BY <1>1 DEF EditAt

\* A row is added under a new key.
LEMMA InsertIsEdit ==
  ASSUME ShopInv, NEW p \in Plan, NEW c \in Currency, NEW n \in Cents, NEW d \in BOOLEAN,
         NEW i \in Price, Fresh(i),
         price' = [price EXCEPT ![i] = PriceRow(p, c, n, d)],
         amounts' = [amounts EXCEPT ![i] = {n}],
         active' \in [Plan -> BOOLEAN \cup {None}], active'[p] # None,
         \A q \in Plan : active[q] # None => active'[q] # None,
         DOMAIN blame' = Plan, DOMAIN edit' = Admin, \A a \in Admin : edit'[a] \in EditAt \cup {NoEdit},
         UNCHANGED <<checkout, product, recurring, scattered>>
  PROVE  EditStep
<1>0. ShopTypes /\ \A j \in Price : Listed(j)
  BY DEF ShopInv
<1> DEFINE new == PriceRow(p, c, n, d)
<1>1. /\ new \in PriceRows /\ new # None /\ new.plan = p /\ new.cents = n
      /\ new.stripe = 0 /\ new.product = 0
  <2>1. new \in PriceRows
    BY DEF PriceRow, PriceRows
  <2> QED
    BY <2>1, CatalogAssumption DEF PriceRow
<1> HIDE DEF new
<1>2. price' = [price EXCEPT ![i] = new]
  BY DEF new
<1>3. ShopTypes'
  BY <1>0, <1>2 DEF ShopTypes
<1>4. price'[i] = new /\ amounts'[i] = {n} /\ amounts[i] = {} /\ price[i] = None
  BY <1>0, <1>2 DEF ShopTypes, Fresh
<1>5. \A j \in Price \ {i} : price'[j] = price[j] /\ amounts'[j] = amounts[j]
  BY <1>0, <1>2 DEF ShopTypes
<1>6. ASSUME NEW j \in Price PROVE Listed(j)'
  BY <1>0, <1>1, <1>4, <1>5 DEF Listed, PriceRows
<1>7. Added(i)
  BY <1>1, <1>4 DEF Added
<1> QED
  BY <1>1, <1>3, <1>4, <1>5, <1>6, <1>7 DEF EditStep, Kept

\* The rows a plan is created with have new keys; if just one of them is a default,
\* nobody is to blame.
LEMMA CreatedRows ==
  ASSUME NEW p \in Plan, CreatePlan(p)
  PROVE  \E S \in SUBSET Price :
           /\ \A i \in S : /\ Fresh(i) /\ price'[i] \in PriceRows /\ price'[i].plan = p
                           /\ price'[i].stripe = 0 /\ price'[i].product = 0
                           /\ amounts'[i] = {price'[i].cents}
           /\ \A i \in Price \ S : price'[i] = price[i] /\ amounts'[i] = amounts[i]
           /\ DOMAIN price' = Price /\ amounts' = [i \in Price |-> amounts'[i]]
           /\ \/ blame' = [blame EXCEPT ![p] = {"created"}]
              \/ /\ blame' = [blame EXCEPT ![p] = {}]
                 /\ \E i \in S : \A j \in S : price'[j].default <=> j = i
<1>1. PICK S \in SUBSET {i \in Price : Fresh(i)} : \E new \in [S -> RowsOf(p)] : InsertPrices(p, S, new)
  BY DEF CreatePlan
<1>2. PICK new \in [S -> RowsOf(p)] : InsertPrices(p, S, new)
  BY <1>1
<1> USE DEF InsertPrices
<1>3. S \in SUBSET Price /\ \A i \in S : Fresh(i) /\ price'[i] = new[i] /\ amounts'[i] = {new[i].cents}
  BY <1>2
<1>4. \A r \in RowsOf(p) : r \in PriceRows /\ r.plan = p /\ r.stripe = 0 /\ r.product = 0
  BY DEF RowsOf, PriceRow, PriceRows
<1>5. \A i \in S : new[i] \in RowsOf(p)
  BY <1>2
<1>6. \A i \in S : price'[i] \in PriceRows /\ price'[i].plan = p /\ price'[i].stripe = 0 /\ price'[i].product = 0
  BY <1>3, <1>4, <1>5
<1>7. \A i \in Price \ S : price'[i] = price[i] /\ amounts'[i] = amounts[i]
  BY <1>2
<1>8. DOMAIN price' = Price /\ amounts' = [i \in Price |-> amounts'[i]]
  BY <1>2
<1>9. \/ blame' = [blame EXCEPT ![p] = {"created"}]
      \/ /\ blame' = [blame EXCEPT ![p] = {}]
         /\ \E i \in S : \A j \in S : price'[j].default <=> j = i
  <2>1. CASE \E i \in S : {j \in S : new[j].default} = {i}
    <3>1. PICK i \in S : {j \in S : new[j].default} = {i}
      BY <2>1
    <3>2. \A j \in S : new[j].default <=> j = i
      BY <3>1
    <3>3. \A j \in S : price'[j].default <=> j = i
      BY <1>3, <3>2
    <3> QED
      BY <1>2, <2>1, <3>3
  <2>2. CASE ~\E i \in S : {j \in S : new[j].default} = {i}
    BY <1>2, <2>2
  <2> QED
    BY <2>1, <2>2
<1> QED
  BY <1>3, <1>6, <1>7, <1>8, <1>9

\* Creating, updating and deleting plans and prices, in one statement.
LEMMA RowEdits ==
  ASSUME ShopInv,
         \/ \E p \in Plan : CreatePlan(p) \/ UpdatePlan(p) \/ DeletePlan(p)
         \/ \E p \in Plan, c \in Currency, n \in Cents : CreatePlanPrice(p, c, n)
         \/ \E i \in Price, n \in Cents, d \in BOOLEAN : UpdatePlanPrice(i, n, d)
         \/ \E i \in Price : DeletePlanPrice(i)
  PROVE  EditStep
<1> USE DEF tables, provider, history
<1>0. ShopTypes /\ \A i \in Price : Listed(i)
  BY DEF ShopInv
<1>7. None \notin PriceRows /\ None \notin BOOLEAN
  BY CatalogAssumption
<1>1. ASSUME NEW p \in Plan, CreatePlan(p)
      PROVE  EditStep
  <2>1. /\ active' = [active EXCEPT ![p] = TRUE] /\ active[p] = None
        /\ UNCHANGED <<edit, checkout, product, recurring, scattered>>
        /\ DOMAIN blame' = Plan
    <3>1. DOMAIN blame' = DOMAIN blame
      BY <1>1, CreatedRows
    <3> QED
      BY <1>0, <1>1, <3>1 DEF CreatePlan, ShopTypes
  <2>2. /\ active' \in [Plan -> BOOLEAN \cup {None}] /\ active'[p] # None
        /\ \A q \in Plan : active[q] # None => active'[q] # None
    BY <1>0, <1>7, <2>1 DEF ShopTypes
  <2>3. \E S \in SUBSET Price :
          /\ \A i \in S : /\ Fresh(i) /\ price'[i] \in PriceRows /\ price'[i].plan = p
                          /\ price'[i].stripe = 0 /\ price'[i].product = 0
                          /\ amounts'[i] = {price'[i].cents}
          /\ \A i \in Price \ S : price'[i] = price[i] /\ amounts'[i] = amounts[i]
          /\ DOMAIN price' = Price /\ amounts' = [i \in Price |-> amounts'[i]]
    BY <1>1, CreatedRows
  <2>4. PICK S \in SUBSET Price :
          /\ \A i \in S : /\ Fresh(i) /\ price'[i] \in PriceRows /\ price'[i].plan = p
                          /\ price'[i].stripe = 0 /\ price'[i].product = 0
                          /\ amounts'[i] = {price'[i].cents}
          /\ \A i \in Price \ S : price'[i] = price[i] /\ amounts'[i] = amounts[i]
          /\ DOMAIN price' = Price /\ amounts' = [i \in Price |-> amounts'[i]]
    BY <2>3
  <2>5. amounts' \in [Price -> SUBSET Cents]
    <3>1. \A i \in Price : amounts'[i] \in SUBSET Cents
      BY <1>0, <2>4 DEF ShopTypes, PriceRows
    <3> QED
      BY <2>4, <3>1
  <2>6. ShopTypes'
    BY <1>0, <2>1, <2>2, <2>4, <2>5 DEF ShopTypes
  <2>7. ASSUME NEW i \in Price PROVE Listed(i)'
    <3>1. CASE i \in S
      BY <2>2, <2>4, <3>1 DEF Listed
    <3>2. CASE i \notin S
      BY <1>0, <2>2, <2>4, <3>2 DEF Listed, PriceRows
    <3> QED
      BY <3>1, <3>2
  <2>8. ASSUME NEW i \in Price
        PROVE  /\ amounts[i] \subseteq amounts'[i]
               /\ price[i] # None => Kept(i)
               /\ price[i] = None /\ price'[i] # None => Added(i)
    BY <2>4 DEF Kept, Added, Fresh
  <2> QED
    BY <2>1, <2>6, <2>7, <2>8 DEF EditStep
<1>2. ASSUME NEW p \in Plan, UpdatePlan(p)
      PROVE  EditStep
  <2>1. /\ active' = [active EXCEPT ![p] = ~active[p]] /\ active[p] \in BOOLEAN
        /\ UNCHANGED <<price, edit, checkout, product, recurring, blame, scattered, amounts>>
    BY <1>0, <1>2 DEF UpdatePlan, ShopTypes
  <2>2. active' \in [Plan -> BOOLEAN \cup {None}] /\ \A q \in Plan : active[q] # None => active'[q] # None
    BY <1>0, <1>7, <2>1 DEF ShopTypes
  <2>3. ShopTypes'
    BY <1>0, <2>1, <2>2 DEF ShopTypes
  <2> QED
    BY <1>0, <2>1, <2>2, <2>3 DEF EditStep, Listed, Kept, PriceRows
<1>3. ASSUME NEW p \in Plan, DeletePlan(p)
      PROVE  EditStep
  <2>1. /\ active' = [active EXCEPT ![p] = None]
        /\ price' = [i \in Price |-> IF i \in PricesOf(p) THEN None ELSE price[i]]
        /\ blame' = [blame EXCEPT ![p] = {"removed"}]
        /\ scattered' = scattered \cup {p}
        /\ UNCHANGED <<edit, checkout, product, recurring, amounts>>
    BY <1>3 DEF DeletePlan
  <2>2. ShopTypes'
    BY <1>0, <2>1 DEF ShopTypes
  <2>3. \A i \in Price : price'[i] # None => price'[i] = price[i] /\ price[i].plan # p
    BY <2>1 DEF PricesOf
  <2>4. \A i \in Price : price'[i] = None /\ price[i] # None => price[i].plan = p
    BY <2>1 DEF PricesOf
  <2>5. ASSUME NEW i \in Price PROVE Listed(i)'
    BY <1>0, <2>1, <2>3 DEF Listed, ShopTypes, PriceRows
  <2> QED
    BY <2>1, <2>2, <2>3, <2>4, <2>5 DEF EditStep, Kept, Gone
<1>4. ASSUME NEW p \in Plan, NEW c \in Currency, NEW n \in Cents, CreatePlanPrice(p, c, n)
      PROVE  EditStep
  <2>1. active[p] # None /\ UNCHANGED <<active, edit, checkout, product, recurring, blame, scattered>>
    BY <1>4 DEF CreatePlanPrice, Insert, Accepts
  <2>2. PICK i \in Price : /\ Fresh(i) /\ price' = [price EXCEPT ![i] = PriceRow(p, c, n, FALSE)]
                           /\ amounts' = [amounts EXCEPT ![i] = {n}]
    BY <1>4 DEF CreatePlanPrice, Insert
  <2>3. /\ active' \in [Plan -> BOOLEAN \cup {None}] /\ DOMAIN blame' = Plan
        /\ DOMAIN edit' = Admin /\ \A a \in Admin : edit'[a] \in EditAt \cup {NoEdit}
    BY <1>0, <2>1 DEF ShopTypes
  <2> QED
    BY <2>1, <2>2, <2>3, InsertIsEdit
<1>5. ASSUME NEW i \in Price, NEW n \in Cents, NEW d \in BOOLEAN, UpdatePlanPrice(i, n, d)
      PROVE  EditStep
  <2>1. /\ price[i] # None
        /\ price' = [price EXCEPT ![i].cents = n, ![i].default = @ /\ d]
        /\ amounts' = [amounts EXCEPT ![i] = @ \cup {n}]
        /\ DOMAIN blame' = Plan
        /\ UNCHANGED <<active, edit, checkout, product, recurring, scattered>>
    BY <1>0, <1>5 DEF UpdatePlanPrice, ShopTypes
  <2>2. price[i] \in PriceRows /\ active[price[i].plan] # None
    BY <1>0, <2>1 DEF Listed
  <2> DEFINE new == [price[i] EXCEPT !.cents = n, !.default = price[i].default /\ d]
  <2>3. new \in PriceRows /\ new.plan = price[i].plan /\ new.currency = price[i].currency
        /\ new.stripe = price[i].stripe /\ new.product = price[i].product /\ new.cents = n
    BY <2>2 DEF PriceRows
  <2>4. price' = [price EXCEPT ![i] = new]
    BY <1>0, <2>1, <2>2 DEF ShopTypes, PriceRows
  <2> HIDE DEF new
  <2>5. ShopTypes'
    BY <1>0, <2>1, <2>4 DEF ShopTypes
  <2>6. price'[i] = new /\ new # None /\ amounts'[i] = amounts[i] \cup {n}
    BY <1>0, <1>7, <2>1, <2>3, <2>4 DEF ShopTypes
  <2>7. \A j \in Price \ {i} : price'[j] = price[j] /\ amounts'[j] = amounts[j]
    BY <1>0, <2>1, <2>4 DEF ShopTypes
  <2>8. ASSUME NEW j \in Price PROVE Listed(j)'
    BY <1>0, <2>1, <2>2, <2>3, <2>6, <2>7 DEF Listed
  <2> QED
    BY <2>1, <2>3, <2>5, <2>6, <2>7, <2>8 DEF EditStep, Kept
<1>6. ASSUME NEW i \in Price, DeletePlanPrice(i)
      PROVE  EditStep
  <2>1. /\ price[i] # None /\ price' = [price EXCEPT ![i] = None]
        /\ scattered' = scattered \cup {price[i].plan} /\ DOMAIN blame' = Plan
        /\ UNCHANGED <<active, edit, checkout, product, recurring, amounts>>
    BY <1>0, <1>6 DEF DeletePlanPrice, ShopTypes
  <2>2. ShopTypes'
    BY <1>0, <2>1 DEF ShopTypes
  <2>3. price'[i] = None /\ \A j \in Price \ {i} : price'[j] = price[j]
    BY <1>0, <2>1 DEF ShopTypes
  <2> QED
    BY <1>0, <2>1, <2>2, <2>3 DEF EditStep, Kept, Gone, Listed
<1> QED
  BY <1>1, <1>2, <1>3, <1>4, <1>5, <1>6

\* A promotion unsets the other defaults of the plan in its path, and disturbs
\* the promotions of that plan.
LEMMA PromoteStep ==
  ASSUME ShopInv, NEW a \in Admin, edit[a].at = "idle", NEW e \in EditAt, NEW keep, Promote(a, e, keep),
         UNCHANGED <<active, checkout, product, recurring, blame, scattered, amounts>>
  PROVE  /\ EditStep
         /\ edit'[a] \in EditAt /\ edit'[a].at = e.at /\ edit'[a].plan = e.plan
         /\ e.at = "update" => edit'[a].key = e.key
         /\ edit'[a].alone => \A b \in Admin \ {a} : ~Promotes(b, e.plan)
         /\ \A b \in Admin \ {a} : /\ edit'[b].at = edit[b].at
                                   /\ edit[b].at # "idle" =>
                                        /\ edit'[b].plan = edit[b].plan
                                        /\ edit[b].at = "update" => edit'[b].key = edit[b].key
                                        /\ edit'[b].alone => edit[b].alone /\ edit[b].plan # e.plan
         /\ DefaultsOf(e.plan)' \subseteq keep
         /\ \A q \in Plan \ {e.plan} : DefaultsOf(q)' = DefaultsOf(q)
<1>0. ShopTypes /\ (\A i \in Price : Listed(i)) /\ e.plan \in Plan
  BY DEF ShopInv, EditAt
<1>7. None \notin PriceRows
  BY CatalogAssumption
<1> DEFINE others == {b \in Admin \ {a} : Promotes(b, e.plan)}
           mine   == [e EXCEPT !.alone = (others = {})]
           unset  == DefaultsOf(e.plan) \ keep
<1>1. /\ edit' = [b \in Admin |-> IF b = a THEN mine
                                  ELSE IF b \in others THEN [edit[b] EXCEPT !.alone = FALSE] ELSE edit[b]]
      /\ price' = [i \in Price |-> IF i \in unset THEN [price[i] EXCEPT !.default = FALSE] ELSE price[i]]
  BY DEF Promote
<1>2. /\ mine \in EditAt /\ mine.at = e.at /\ mine.plan = e.plan /\ mine.alone = (others = {})
      /\ e.at = "update" => mine.key = e.key
  <2> DEFINE x == (others = {})
  <2>1. x \in BOOLEAN
    OBVIOUS
  <2> HIDE DEF x
  <2>2. [e EXCEPT !.alone = x] \in EditAt /\ [e EXCEPT !.alone = x].at = e.at
        /\ [e EXCEPT !.alone = x].plan = e.plan /\ [e EXCEPT !.alone = x].alone = x
        /\ (e.at = "update" => [e EXCEPT !.alone = x].key = e.key)
    BY <2>1 DEF EditAt
  <2> QED
    BY <2>2 DEF x
<1>3. ASSUME NEW b \in Admin \ {a}
      PROVE  /\ edit'[b] \in EditAt \cup {NoEdit} /\ edit'[b].at = edit[b].at
             /\ edit[b].at # "idle" =>
                  /\ edit'[b].plan = edit[b].plan
                  /\ edit[b].at = "update" => edit'[b].key = edit[b].key
                  /\ edit'[b].alone => edit[b].alone /\ edit[b].plan # e.plan
  <2>1. CASE b \in others
    <3>1. edit[b].at # "idle" /\ edit'[b] = [edit[b] EXCEPT !.alone = FALSE]
      BY <1>1, <2>1 DEF Promotes
    <3>2. edit[b].at = "update" => [edit[b] EXCEPT !.alone = FALSE].key = edit[b].key
      BY <1>0, <3>1, EditIsTyped DEF EditAt
    <3> QED
      BY <1>0, <3>1, <3>2, EditIsTyped
  <2>2. CASE b \notin others
    BY <1>0, <1>1, <2>2 DEF Promotes, ShopTypes
  <2> QED
    BY <2>1, <2>2
<1>4. edit'[a] = mine /\ DOMAIN edit' = Admin
  BY <1>1
<1>5. others = {} => \A b \in Admin \ {a} : ~Promotes(b, e.plan)
  OBVIOUS
<1> HIDE DEF others, mine
<1>6. ASSUME NEW i \in Price
      PROVE  /\ price[i] = None => price'[i] = None
             /\ price[i] # None =>
                  /\ price'[i] \in PriceRows /\ price'[i] # None
                  /\ price'[i].plan = price[i].plan /\ price'[i].currency = price[i].currency
                  /\ price'[i].stripe = price[i].stripe /\ price'[i].product = price[i].product
                  /\ price'[i].cents = price[i].cents
                  /\ price'[i].default <=> price[i].default /\ i \notin unset
  <2>1. CASE i \in unset
    <3>1. price[i] # None /\ price[i] \in PriceRows /\ price'[i] = [price[i] EXCEPT !.default = FALSE]
      BY <1>0, <1>1, <2>1 DEF DefaultsOf, PricesOf, Listed
    <3> QED
      BY <1>7, <2>1, <3>1 DEF PriceRows
  <2>2. CASE i \notin unset
    BY <1>0, <1>1, <2>2 DEF Listed
  <2> QED
    BY <2>1, <2>2
<1>8. EditStep
  <2>1. ShopTypes'
    BY <1>0, <1>1, <1>2, <1>3, <1>4 DEF ShopTypes
  <2>2. ASSUME NEW i \in Price PROVE Listed(i)'
    BY <1>0, <1>6, <2>1 DEF Listed
  <2> QED
    BY <1>6, <2>1, <2>2 DEF EditStep, Kept
<1>9. DefaultsOf(e.plan)' \subseteq keep
  BY <1>6 DEF DefaultsOf, PricesOf
<1>10. ASSUME NEW q \in Plan \ {e.plan} PROVE DefaultsOf(q)' = DefaultsOf(q)
  <2>1. \A i \in Price : i \in DefaultsOf(q)' <=> i \in DefaultsOf(q)
    BY <1>6 DEF DefaultsOf, PricesOf
  <2> QED
    BY <2>1 DEF DefaultsOf, PricesOf
<1> QED
  BY <1>2, <1>3, <1>4, <1>5, <1>8, <1>9, <1>10

\* The write of a promotion, and the ways it ends without one.
LEMMA SettleIsEdit ==
  ASSUME ShopInv, NEW a \in Admin,
         CreateDefaultPrice(a) \/ UpdateToDefault(a) \/ PromotionRefused(a) \/ EditFails(a)
  PROVE  /\ EditStep
         /\ edit[a].at # "idle" /\ edit'[a] = NoEdit
         /\ \A b \in Admin \ {a} : /\ edit'[b].at = edit[b].at
                                   /\ edit[b].at # "idle" =>
                                        /\ edit'[b].plan = edit[b].plan
                                        /\ edit[b].at = "update" => edit'[b].key = edit[b].key
                                        /\ edit'[b].alone => edit[b].alone
<1>0. ShopTypes /\ (\A i \in Price : Listed(i)) /\ None \notin PriceRows
  BY CatalogAssumption DEF ShopInv
<1>1. edit[a].at # "idle" /\ edit[a] \in EditAt /\ edit[a].plan \in Plan
  <2>1. edit[a].at # "idle"
    BY DEF CreateDefaultPrice, UpdateToDefault, PromotionRefused, EditFails
  <2> QED
    BY <1>0, <2>1, EditIsTyped
<1>2. /\ DOMAIN edit' = Admin /\ edit'[a] = NoEdit /\ DOMAIN blame' = Plan
      /\ \A b \in Admin \ {a} : edit'[b] \in {edit[b], [edit[b] EXCEPT !.alone = FALSE]}
                                /\ (edit[b].at = "idle" => edit'[b] = edit[b])
  BY <1>0, <1>1 DEF CreateDefaultPrice, UpdateToDefault, PromotionRefused, EditFails, Over, Settled, Promotes, ShopTypes
<1>3. \A b \in Admin \ {a} : edit[b].at # "idle" =>
         /\ edit[b] \in EditAt
         /\ [edit[b] EXCEPT !.alone = FALSE] \in EditAt
         /\ [edit[b] EXCEPT !.alone = FALSE].at = edit[b].at
         /\ [edit[b] EXCEPT !.alone = FALSE].plan = edit[b].plan
         /\ ~[edit[b] EXCEPT !.alone = FALSE].alone
         /\ edit[b].at = "update" => [edit[b] EXCEPT !.alone = FALSE].key = edit[b].key
  BY <1>0, EditIsTyped DEF EditAt
<1>4. \A b \in Admin \ {a} : /\ edit'[b].at = edit[b].at
                             /\ edit[b].at # "idle" =>
                                  /\ edit'[b].plan = edit[b].plan
                                  /\ edit[b].at = "update" => edit'[b].key = edit[b].key
                                  /\ edit'[b].alone => edit[b].alone
  BY <1>2, <1>3
<1>5. \A b \in Admin : edit'[b] \in EditAt \cup {NoEdit}
  BY <1>0, <1>2, <1>3 DEF ShopTypes
<1>6. EditStep
  <2>1. CASE CreateDefaultPrice(a)
    <3>1. PICK i \in Price :
            /\ Fresh(i) /\ amounts' = [amounts EXCEPT ![i] = {edit[a].cents}]
            /\ price' = [price EXCEPT ![i] = PriceRow(edit[a].plan, edit[a].currency, edit[a].cents, TRUE)]
      BY <2>1 DEF CreateDefaultPrice, Insert
    <3>2. /\ UNCHANGED <<active, checkout, product, recurring, scattered>> /\ active[edit[a].plan] # None
          /\ edit[a].at = "create"
      BY <2>1 DEF CreateDefaultPrice, provider, Insert, Accepts
    <3>3. edit[a].currency \in Currency /\ edit[a].cents \in Cents
      BY <1>0, <3>2, EditIsTyped
    <3>4. active' \in [Plan -> BOOLEAN \cup {None}]
      BY <1>0, <3>2 DEF ShopTypes
    <3> QED
      BY <1>1, <1>2, <1>5, <3>1, <3>2, <3>3, <3>4, InsertIsEdit
  <2>2. CASE UpdateToDefault(a)
    <3>1. /\ UNCHANGED <<active, checkout, product, recurring, scattered>>
          /\ edit[a].at = "update" /\ price[edit[a].key] # None
      BY <2>2 DEF UpdateToDefault, provider
    <3>2. PICK i \in Price : i = edit[a].key
      BY <1>0, <3>1, EditIsTyped
    <3>3. PICK n \in Cents : /\ price' = [price EXCEPT ![i].default = TRUE, ![i].cents = n]
                             /\ amounts' = [amounts EXCEPT ![i] = @ \cup {n}]
      BY <2>2, <3>2 DEF UpdateToDefault
    <3> DEFINE new == [price[i] EXCEPT !.default = TRUE, !.cents = n]
    <3>4. price[i] # None /\ price[i] \in PriceRows /\ active[price[i].plan] # None
      BY <1>0, <3>1, <3>2 DEF Listed
    <3>5. /\ new \in PriceRows /\ new # None /\ new.plan = price[i].plan /\ new.currency = price[i].currency
          /\ new.stripe = price[i].stripe /\ new.product = price[i].product /\ new.cents = n
      <4>1. new \in PriceRows
        BY <3>4 DEF PriceRows
      <4> QED
        BY <1>0, <3>4, <4>1 DEF PriceRows
    <3>6. price' = [price EXCEPT ![i] = new]
      BY <1>0, <3>3, <3>4 DEF ShopTypes, PriceRows
    <3> HIDE DEF new
    <3>7. ShopTypes'
      BY <1>0, <1>2, <1>5, <3>1, <3>3, <3>6 DEF ShopTypes
    <3>8. price'[i] = new /\ amounts'[i] = amounts[i] \cup {n}
      BY <1>0, <3>3, <3>6 DEF ShopTypes
    <3>9. \A j \in Price \ {i} : price'[j] = price[j] /\ amounts'[j] = amounts[j]
      BY <1>0, <3>3, <3>6 DEF ShopTypes
    <3>10. ASSUME NEW j \in Price PROVE Listed(j)'
      BY <1>0, <3>1, <3>4, <3>5, <3>8, <3>9 DEF Listed
    <3> QED
      BY <3>1, <3>4, <3>5, <3>7, <3>8, <3>9, <3>10 DEF EditStep, Kept
  <2>3. CASE PromotionRefused(a) \/ EditFails(a)
    <3>1. UNCHANGED <<active, price, checkout, product, recurring, scattered, amounts>>
      BY <2>3 DEF PromotionRefused, EditFails, tables, provider
    <3>2. ShopTypes'
      BY <1>0, <1>2, <1>5, <3>1 DEF ShopTypes
    <3> QED
      BY <1>0, <3>1, <3>2 DEF EditStep, Kept, Listed
  <2> QED
    BY <2>1, <2>2, <2>3
<1> QED
  BY <1>1, <1>2, <1>4, <1>6

-----------------------------------------------------------------------------
(* Catalog: defaults.                                                      *)

\* A plan nobody is to blame for has one default; a promotion that is alone has
\* left its plan none but its own.
Defaulted(p) == Unpromoted(p) /\ blame[p] = {} => \E i \in Price : DefaultsOf(p) = {i}
Alone(a) ==
    edit[a].at # "idle" /\ edit[a].alone =>
      /\ \A b \in Admin \ {a} : ~Promotes(b, edit[a].plan)
      /\ DefaultsOf(edit[a].plan) \subseteq IF edit[a].at = "create" THEN {} ELSE {edit[a].key}

DefaultInv == (\A p \in Plan : Defaulted(p)) /\ (\A a \in Admin : Alone(a))

\* Plans that start with one default are blamed for nothing.
LEMMA DefaultInit == ShopInit => DefaultInv
<1> SUFFICES ASSUME ShopInit PROVE DefaultInv
  OBVIOUS
<1>1. ASSUME NEW p \in Plan, blame[p] = {} PROVE \E i \in Price : DefaultsOf(p) = {i}
  <2>1. Cardinality(DefaultsOf(p)) = 1
    BY <1>1 DEF ShopInit
  <2>2. DefaultsOf(p) # {}
    BY <2>1, FS_EmptySet
  <2>3. ASSUME NEW i \in DefaultsOf(p), NEW j \in DefaultsOf(p) PROVE i = j
    <3>1. \A k \in DefaultsOf(p) : k \in DOMAIN Offer /\ Offer[k].plan = p /\ Offer[k].default
      BY DEF ShopInit, DefaultsOf, PricesOf
    <3> QED
      BY <3>1, CatalogAssumption
  <2> QED
    BY <2>2, <2>3 DEF DefaultsOf, PricesOf
<1> QED
  BY <1>1 DEF ShopInit, DefaultInv, Defaulted, Alone, NoEdit

\* Whom a step leaves alone: promotions go on as they were, but for one.
LEMMA DefaultsStay ==
  ASSUME DefaultInv, NEW p \in Plan,
         \A b \in Admin : edit[b].at # "idle" /\ edit[b].plan = p =>
            edit'[b].at # "idle" /\ edit'[b].plan = p,
         blame'[p] = blame[p] \/ blame'[p] # {},
         DefaultsOf(p)' = DefaultsOf(p) \/ blame'[p] # {}
  PROVE  Defaulted(p)'
<1> SUFFICES ASSUME Unpromoted(p)', blame'[p] = {} PROVE \E i \in Price : DefaultsOf(p)' = {i}
  BY DEF Defaulted
<1>1. Unpromoted(p)
  BY DEF Unpromoted, Promotes
<1> QED
  BY <1>1 DEF DefaultInv, Defaulted

\* A promotion that is alone stays so when the others of its plan are none, and its
\* plan gains no default.
LEMMA AloneStays ==
  ASSUME DefaultInv, NEW a \in Admin, NEW p \in Plan, edit[a].at # "idle", edit[a].alone,
         edit[a].plan = p, edit'[a].plan = p, edit'[a].at = edit[a].at,
         edit[a].at = "update" => edit'[a].key = edit[a].key,
         edit[a].at \in {"create", "update"},
         \A b \in Admin \ {a} : Promotes(b, p)' => Promotes(b, p),
         DefaultsOf(p)' \subseteq DefaultsOf(p)
  PROVE  Alone(a)'
<1>1. /\ \A b \in Admin \ {a} : ~Promotes(b, p)
      /\ DefaultsOf(p) \subseteq IF edit[a].at = "create" THEN {} ELSE {edit[a].key}
  BY DEF DefaultInv, Alone
<1>2. DefaultsOf(p)' \subseteq IF edit'[a].at = "create" THEN {} ELSE {edit'[a].key}
  BY <1>1
<1>3. \A b \in Admin \ {a} : ~Promotes(b, p)'
  BY <1>1
<1> QED
  BY <1>2, <1>3 DEF Alone

\* A step that leaves the promotions as they are.
LEMMA CalmStep ==
  ASSUME ShopInv, DefaultInv, UNCHANGED edit,
         \A p \in Plan : /\ blame'[p] = blame[p] \/ blame'[p] # {}
                         /\ DefaultsOf(p)' = DefaultsOf(p) \/ blame'[p] # {}
                         /\ ~Unpromoted(p) => DefaultsOf(p)' \subseteq DefaultsOf(p)
  PROVE  DefaultInv'
<1>1. ASSUME NEW p \in Plan PROVE Defaulted(p)'
  BY DefaultsStay
<1>2. ASSUME NEW a \in Admin, edit[a].at # "idle", edit[a].alone PROVE Alone(a)'
  <2>1. edit[a].plan \in Plan /\ edit[a].at \in {"create", "update"}
    BY <1>2, EditIsTyped DEF ShopInv
  <2>2. PICK p \in Plan : p = edit[a].plan
    BY <2>1
  <2>3. ~Unpromoted(p)
    BY <1>2, <2>2 DEF Unpromoted, Promotes
  <2> QED
    BY <1>2, <2>1, <2>2, <2>3, AloneStays DEF Promotes
<1>3. \A a \in Admin : Alone(a)'
  BY <1>2 DEF Alone
<1> QED
  BY <1>1, <1>3 DEF DefaultInv

\* What is one statement and promotes nothing.
LEMMA RowEditsKeepDefaults ==
  ASSUME ShopInv, DefaultInv,
         \/ \E p \in Plan : UpdatePlan(p) \/ DeletePlan(p)
         \/ \E p \in Plan, c \in Currency, n \in Cents : CreatePlanPrice(p, c, n)
         \/ \E i \in Price, n \in Cents, d \in BOOLEAN : UpdatePlanPrice(i, n, d)
         \/ \E i \in Price : DeletePlanPrice(i)
  PROVE  DefaultInv'
<1> USE DEF tables, provider, history
<1>0. ShopTypes /\ (\A i \in Price : Listed(i)) /\ None \notin PriceRows
  BY CatalogAssumption DEF ShopInv
<1>1. ASSUME NEW p \in Plan, UpdatePlan(p)
      PROVE  DefaultInv'
  <2>1. UNCHANGED <<price, edit, blame>>
    BY <1>1 DEF UpdatePlan
  <2> QED
    BY <2>1, CalmStep DEF DefaultsOf, PricesOf
<1>2. ASSUME NEW p \in Plan, DeletePlan(p)
      PROVE  DefaultInv'
  <2>1. /\ price' = [i \in Price |-> IF i \in PricesOf(p) THEN None ELSE price[i]]
        /\ blame' = [blame EXCEPT ![p] = {"removed"}] /\ UNCHANGED edit
    BY <1>2 DEF DeletePlan
  <2>2. \A q \in Plan : DefaultsOf(q)' \subseteq DefaultsOf(q) /\ (q # p => DefaultsOf(q)' = DefaultsOf(q))
    BY <2>1 DEF DefaultsOf, PricesOf
  <2>3. \A q \in Plan : blame'[q] = IF q = p THEN {"removed"} ELSE blame[q]
    BY <1>0, <2>1 DEF ShopTypes
  <2> QED
    BY <2>1, <2>2, <2>3, CalmStep
<1>3. ASSUME NEW p \in Plan, NEW c \in Currency, NEW n \in Cents, CreatePlanPrice(p, c, n)
      PROVE  DefaultInv'
  <2>1. UNCHANGED <<edit, blame>>
    BY <1>3 DEF CreatePlanPrice
  <2>2. PICK i \in Price : Fresh(i) /\ price' = [price EXCEPT ![i] = PriceRow(p, c, n, FALSE)]
    BY <1>3 DEF CreatePlanPrice, Insert
  <2>3. price'[i] = PriceRow(p, c, n, FALSE) /\ price[i] = None
        /\ \A j \in Price \ {i} : price'[j] = price[j]
    BY <1>0, <2>2 DEF ShopTypes, Fresh
  <2>4. ~price'[i].default
    BY <2>3 DEF PriceRow
  <2>5. \A q \in Plan : DefaultsOf(q)' = DefaultsOf(q)
    BY <2>3, <2>4 DEF DefaultsOf, PricesOf
  <2> QED
    BY <2>1, <2>5, CalmStep
<1>4. ASSUME NEW i \in Price, NEW n \in Cents, NEW d \in BOOLEAN, UpdatePlanPrice(i, n, d)
      PROVE  DefaultInv'
  <2>1. /\ price[i] # None /\ UNCHANGED edit
        /\ price' = [price EXCEPT ![i].cents = n, ![i].default = @ /\ d]
        /\ blame' = IF price[i].default /\ ~d
                    THEN [blame EXCEPT ![price[i].plan] = @ \cup {"removed"}] ELSE blame
    BY <1>4 DEF UpdatePlanPrice
  <2>2. price[i] \in PriceRows /\ price[i].plan \in Plan
    BY <1>0, <2>1 DEF Listed, PriceRows
  <2> DEFINE new == [price[i] EXCEPT !.cents = n, !.default = price[i].default /\ d]
  <2>3. new # None /\ new.plan = price[i].plan /\ (new.default <=> price[i].default /\ d)
    <3>1. new \in PriceRows
      BY <2>2 DEF PriceRows
    <3> QED
      BY <1>0, <2>2, <3>1 DEF PriceRows
  <2>4. price' = [price EXCEPT ![i] = new]
    BY <1>0, <2>1, <2>2 DEF ShopTypes, PriceRows
  <2> HIDE DEF new
  <2>5. price'[i] = new /\ \A j \in Price \ {i} : price'[j] = price[j]
    BY <1>0, <2>4 DEF ShopTypes
  <2>6. \A q \in Plan : DefaultsOf(q)' \subseteq DefaultsOf(q)
    BY <2>1, <2>3, <2>5 DEF DefaultsOf, PricesOf
  <2>7. \A q \in Plan : DefaultsOf(q)' = DefaultsOf(q) \/ blame'[q] # {}
    <3>1. CASE price[i].default /\ ~d
      <4>1. blame'[price[i].plan] # {}
        BY <1>0, <2>1, <2>2, <3>1 DEF ShopTypes
      <4>2. ASSUME NEW q \in Plan, q # price[i].plan
            PROVE  DefaultsOf(q)' = DefaultsOf(q)
        BY <2>1, <2>3, <2>5, <4>2 DEF DefaultsOf, PricesOf
      <4> QED
        BY <4>1, <4>2
    <3>2. CASE ~(price[i].default /\ ~d)
      BY <2>1, <2>3, <2>5, <3>2 DEF DefaultsOf, PricesOf
    <3> QED
      BY <3>1, <3>2
  <2>8. \A q \in Plan : blame'[q] = blame[q] \/ blame'[q] # {}
    BY <1>0, <2>1, <2>2 DEF ShopTypes
  <2> QED
    BY <2>1, <2>6, <2>7, <2>8, CalmStep
<1>5. ASSUME NEW i \in Price, DeletePlanPrice(i)
      PROVE  DefaultInv'
  <2>1. /\ price[i] # None /\ price' = [price EXCEPT ![i] = None] /\ UNCHANGED edit
        /\ blame' = IF price[i].default
                    THEN [blame EXCEPT ![price[i].plan] = @ \cup {"removed"}] ELSE blame
    BY <1>5 DEF DeletePlanPrice
  <2>2. price[i].plan \in Plan
    BY <1>0, <2>1 DEF Listed, PriceRows
  <2>3. price'[i] = None /\ \A j \in Price \ {i} : price'[j] = price[j]
    BY <1>0, <2>1 DEF ShopTypes
  <2>4. \A q \in Plan : DefaultsOf(q)' \subseteq DefaultsOf(q)
    BY <2>3 DEF DefaultsOf, PricesOf
  <2>5. \A q \in Plan : DefaultsOf(q)' = DefaultsOf(q) \/ blame'[q] # {}
    <3>1. CASE price[i].default
      BY <1>0, <2>1, <2>2, <2>3, <3>1 DEF DefaultsOf, PricesOf, ShopTypes
    <3>2. CASE ~price[i].default
      BY <2>1, <2>3, <3>2 DEF DefaultsOf, PricesOf
    <3> QED
      BY <3>1, <3>2
  <2>6. \A q \in Plan : blame'[q] = blame[q] \/ blame'[q] # {}
    BY <1>0, <2>1, <2>2 DEF ShopTypes
  <2> QED
    BY <2>1, <2>4, <2>5, <2>6, CalmStep
<1> QED
  BY <1>1, <1>2, <1>3, <1>4, <1>5

\* A plan that is created has no promotion under way.
LEMMA CreatePlanKeepsDefaults ==
  ASSUME ShopInv, DefaultInv, NEW p \in Plan, CreatePlan(p)
  PROVE  DefaultInv'
<1>0. ShopTypes /\ (\A i \in Price : Listed(i)) /\ None \notin PriceRows
  BY CatalogAssumption DEF ShopInv
<1>1. active[p] = None /\ Unpromoted(p) /\ UNCHANGED edit
  BY DEF CreatePlan
<1>2. PricesOf(p) = {}
  BY <1>0, <1>1 DEF PricesOf, Listed
<1>3. \E S \in SUBSET Price :
        /\ \A i \in S : Fresh(i) /\ price'[i] \in PriceRows /\ price'[i].plan = p
        /\ \A i \in Price \ S : price'[i] = price[i]
        /\ \/ blame' = [blame EXCEPT ![p] = {"created"}]
           \/ /\ blame' = [blame EXCEPT ![p] = {}]
              /\ \E i \in S : \A j \in S : price'[j].default <=> j = i
  BY CreatedRows
<1>4. PICK S \in SUBSET Price :
        /\ \A i \in S : Fresh(i) /\ price'[i] \in PriceRows /\ price'[i].plan = p
        /\ \A i \in Price \ S : price'[i] = price[i]
        /\ \/ blame' = [blame EXCEPT ![p] = {"created"}]
           \/ /\ blame' = [blame EXCEPT ![p] = {}]
              /\ \E i \in S : \A j \in S : price'[j].default <=> j = i
  BY <1>3
<1>5. \A q \in Plan \ {p} : DefaultsOf(q)' = DefaultsOf(q) /\ blame'[q] = blame[q]
  <2>1. \A q \in Plan \ {p} : blame'[q] = blame[q]
    BY <1>0, <1>4 DEF ShopTypes
  <2>2. ASSUME NEW q \in Plan \ {p}, NEW i \in Price PROVE i \in DefaultsOf(q)' <=> i \in DefaultsOf(q)
    BY <1>4 DEF DefaultsOf, PricesOf, Fresh
  <2> QED
    BY <2>1, <2>2 DEF DefaultsOf, PricesOf
<1>6. blame'[p] = {} => \E i \in Price : DefaultsOf(p)' = {i}
  <2>1. SUFFICES ASSUME blame'[p] = {} PROVE \E i \in Price : DefaultsOf(p)' = {i}
    OBVIOUS
  <2>2. PICK i \in S : \A j \in S : price'[j].default <=> j = i
    BY <1>0, <1>4, <2>1 DEF ShopTypes
  <2>3. ASSUME NEW j \in Price PROVE j \in DefaultsOf(p)' <=> j = i
    <3>1. CASE j \in S
      BY <1>0, <1>4, <2>2, <3>1 DEF DefaultsOf, PricesOf
    <3>2. CASE j \notin S
      BY <1>2, <1>4, <2>2, <3>2 DEF DefaultsOf, PricesOf
    <3> QED
      BY <3>1, <3>2
  <2> QED
    BY <2>3 DEF DefaultsOf, PricesOf
<1>7. ASSUME NEW q \in Plan PROVE Defaulted(q)'
  <2>1. CASE q = p
    BY <1>6, <2>1 DEF Defaulted
  <2>2. CASE q # p
    BY <1>1, <1>5, <2>2, DefaultsStay
  <2> QED
    BY <2>1, <2>2
<1>8. ASSUME NEW a \in Admin, edit[a].at # "idle", edit[a].alone PROVE Alone(a)'
  <2>1. edit[a].plan \in Plan \ {p} /\ edit[a].at \in {"create", "update"}
    BY <1>0, <1>1, <1>8, EditIsTyped DEF Unpromoted, Promotes
  <2> QED
    BY <1>1, <1>5, <1>8, <2>1, AloneStays DEF Promotes
<1> QED
  BY <1>1, <1>7, <1>8 DEF DefaultInv, Alone

\* A promotion that begins disturbs those of its plan and leaves it no other default.
LEMMA PromotionsKeepDefaults ==
  ASSUME ShopInv, DefaultInv, NEW a \in Admin, StartCreatePlanPrice(a) \/ StartUpdatePlanPrice(a)
  PROVE  DefaultInv' /\ EditStep
<1>0. ShopTypes
  BY DEF ShopInv
<1>1. \E e \in EditAt, keep \in SUBSET Price :
        Promote(a, e, keep) /\ keep \subseteq IF e.at = "create" THEN {} ELSE {e.key}
  <2>1. CASE StartCreatePlanPrice(a)
    <3>1. PICK p \in Plan, c \in Currency, n \in Cents :
            Promote(a, [at |-> "create", plan |-> p, currency |-> c, cents |-> n, alone |-> TRUE], {})
      BY <2>1 DEF StartCreatePlanPrice
    <3> DEFINE e == [at |-> "create", plan |-> p, currency |-> c, cents |-> n, alone |-> TRUE]
    <3>2. e \in EditAt /\ Promote(a, e, {})
      BY <3>1 DEF EditAt
    <3> QED
      BY <3>2
  <2>2. CASE StartUpdatePlanPrice(a)
    <3>1. PICK p \in Plan, i \in Price :
            Promote(a, [at |-> "update", plan |-> p, key |-> i, alone |-> TRUE], {i})
      BY <2>2 DEF StartUpdatePlanPrice
    <3> DEFINE e == [at |-> "update", plan |-> p, key |-> i, alone |-> TRUE]
    <3>2. e \in EditAt /\ Promote(a, e, {i}) /\ e.at # "create" /\ e.key = i
      BY <3>1 DEF EditAt
    <3> QED
      BY <3>2
  <2> QED
    BY <2>1, <2>2
<1>2. PICK e \in EditAt, keep \in SUBSET Price :
        Promote(a, e, keep) /\ keep \subseteq IF e.at = "create" THEN {} ELSE {e.key}
  BY <1>1
<1>3. edit[a].at = "idle" /\ UNCHANGED <<active, checkout, product, recurring, blame, scattered, amounts>>
  BY DEF StartCreatePlanPrice, StartUpdatePlanPrice, provider, history
<1>4. /\ EditStep
      /\ edit'[a] \in EditAt /\ edit'[a].at = e.at /\ edit'[a].plan = e.plan
      /\ e.at = "update" => edit'[a].key = e.key
      /\ edit'[a].alone => \A b \in Admin \ {a} : ~Promotes(b, e.plan)
      /\ \A b \in Admin \ {a} : /\ edit'[b].at = edit[b].at
                                /\ edit[b].at # "idle" =>
                                     /\ edit'[b].plan = edit[b].plan
                                     /\ edit[b].at = "update" => edit'[b].key = edit[b].key
                                     /\ edit'[b].alone => edit[b].alone /\ edit[b].plan # e.plan
      /\ DefaultsOf(e.plan)' \subseteq keep
      /\ \A q \in Plan \ {e.plan} : DefaultsOf(q)' = DefaultsOf(q)
  BY <1>2, <1>3, PromoteStep
<1>5. e.plan \in Plan /\ e.at \in {"create", "update"}
  BY DEF EditAt
<1>6. ASSUME NEW p \in Plan PROVE Defaulted(p)'
  <2>1. CASE p = e.plan
    BY <1>4, <1>5, <2>1 DEF Defaulted, Unpromoted, Promotes
  <2>2. CASE p # e.plan
    BY <1>3, <1>4, <2>2, DefaultsStay
  <2> QED
    BY <2>1, <2>2
<1>7. ASSUME NEW b \in Admin, edit'[b].at # "idle", edit'[b].alone PROVE Alone(b)'
  <2>1. CASE b = a
    <3>1. \A d \in Admin \ {a} : ~Promotes(d, e.plan)'
      BY <1>4, <1>7, <2>1 DEF Promotes
    <3>2. PICK p : p = e.plan
      OBVIOUS
    <3>3. DefaultsOf(p)' \subseteq keep /\ edit'[a].plan = p /\ \A d \in Admin \ {a} : ~Promotes(d, p)'
      BY <1>4, <3>1, <3>2
    <3> QED
      BY <1>2, <1>4, <1>5, <2>1, <3>3 DEF Alone
  <2>2. CASE b # a
    <3>1. /\ edit[b].at # "idle" /\ edit[b].alone /\ edit[b].plan # e.plan
          /\ edit'[b].at = edit[b].at /\ edit'[b].plan = edit[b].plan
          /\ edit[b].at = "update" => edit'[b].key = edit[b].key
      BY <1>4, <1>7, <2>2
    <3>2. edit[b].plan \in Plan /\ edit[b].at \in {"create", "update"}
      BY <1>0, <3>1, EditIsTyped
    <3>3. PICK r \in Plan : r = edit[b].plan
      BY <3>2
    <3>4. \A d \in Admin \ {b} : Promotes(d, r)' => Promotes(d, r)
      BY <1>4, <3>1, <3>3 DEF Promotes
    <3> QED
      BY <1>4, <3>1, <3>2, <3>3, <3>4, AloneStays
  <2> QED
    BY <2>1, <2>2
<1>8. \A b \in Admin : Alone(b)'
  BY <1>7 DEF Alone
<1> QED
  BY <1>4, <1>6, <1>8 DEF DefaultInv

\* A promotion that ends leaves one default if it was alone, or blame.
LEMMA SettlingKeepsDefaults ==
  ASSUME ShopInv, DefaultInv, NEW a \in Admin,
         CreateDefaultPrice(a) \/ UpdateToDefault(a) \/ PromotionRefused(a) \/ EditFails(a)
  PROVE  DefaultInv'
<1>0. ShopTypes /\ (\A i \in Price : Listed(i)) /\ None \notin PriceRows
  BY CatalogAssumption DEF ShopInv
<1>1. /\ edit[a].at # "idle" /\ edit'[a] = NoEdit
      /\ \A b \in Admin \ {a} : /\ edit'[b].at = edit[b].at
                                /\ edit[b].at # "idle" =>
                                     /\ edit'[b].plan = edit[b].plan
                                     /\ edit[b].at = "update" => edit'[b].key = edit[b].key
                                     /\ edit'[b].alone => edit[b].alone
  BY SettleIsEdit
<1>2. PICK p \in Plan : p = edit[a].plan
  BY <1>0, <1>1, EditIsTyped
<1>3. \A r \in Plan \ {p}, b \in Admin : edit[b].at # "idle" /\ edit[b].plan = r =>
         edit'[b].at # "idle" /\ edit'[b].plan = r
  BY <1>1, <1>2
<1>4. \A b \in Admin, r \in Plan : Promotes(b, r)' => Promotes(b, r) /\ b # a
  BY <1>1 DEF Promotes, NoEdit
<1>5. ASSUME NEW b \in Admin, edit'[b].at # "idle", edit'[b].alone
      PROVE  /\ b # a /\ edit[b].at # "idle" /\ edit[b].alone /\ edit[b].plan \in Plan \ {p}
             /\ edit[b].at \in {"create", "update"}
             /\ edit'[b].at = edit[b].at /\ edit'[b].plan = edit[b].plan
             /\ edit[b].at = "update" => edit'[b].key = edit[b].key
             /\ \A r \in Plan : edit[b].plan = r /\ DefaultsOf(r)' \subseteq DefaultsOf(r) => Alone(b)'
  <2>1. /\ b # a /\ edit[b].at # "idle" /\ edit[b].alone
        /\ edit'[b].at = edit[b].at /\ edit'[b].plan = edit[b].plan
        /\ edit[b].at = "update" => edit'[b].key = edit[b].key
    BY <1>1, <1>5 DEF NoEdit
  <2>2. edit[b].plan \in Plan /\ edit[b].at \in {"create", "update"}
    BY <1>0, <2>1, EditIsTyped
  <2>3. edit[b].plan # p
    BY <1>1, <1>2, <2>1 DEF DefaultInv, Alone, Promotes
  <2> QED
    BY <1>4, <2>1, <2>2, <2>3, AloneStays
<1>6. CASE CreateDefaultPrice(a)
  <2>1. PICK i \in Price :
          /\ Fresh(i) /\ price' = [price EXCEPT ![i] = PriceRow(p, edit[a].currency, edit[a].cents, TRUE)]
    BY <1>2, <1>6 DEF CreateDefaultPrice, Insert
  <2>2. edit[a].at = "create" /\ blame' = Settled(a, p, p)
    BY <1>2, <1>6 DEF CreateDefaultPrice
  <2>3. edit[a].currency \in Currency /\ edit[a].cents \in Cents
    BY <1>0, <2>2, EditIsTyped
  <2>4. /\ price'[i] # None /\ price'[i].plan = p /\ price'[i].default /\ price[i] = None
        /\ \A j \in Price \ {i} : price'[j] = price[j]
    <3>1. PriceRow(p, edit[a].currency, edit[a].cents, TRUE) \in PriceRows
      BY <1>2, <2>3 DEF PriceRow, PriceRows
    <3>2. price'[i] = PriceRow(p, edit[a].currency, edit[a].cents, TRUE) /\ price[i] = None
          /\ \A j \in Price \ {i} : price'[j] = price[j]
      BY <1>0, <2>1 DEF ShopTypes, Fresh
    <3>3. PriceRow(p, edit[a].currency, edit[a].cents, TRUE).plan = p
          /\ PriceRow(p, edit[a].currency, edit[a].cents, TRUE).default
      BY DEF PriceRow
    <3> QED
      BY <1>0, <3>1, <3>2, <3>3
  <2>5. \A r \in Plan \ {p} : DefaultsOf(r)' = DefaultsOf(r) /\ blame'[r] = blame[r]
    BY <2>2, <2>4 DEF DefaultsOf, PricesOf, Settled
  <2>6. DefaultsOf(p)' = DefaultsOf(p) \cup {i}
    BY <2>4 DEF DefaultsOf, PricesOf
  <2>7. blame'[p] = {} => DefaultsOf(p) = {}
    <3>1. blame'[p] = IF edit[a].alone THEN {} ELSE blame[p] \cup {"race"}
      BY <1>2, <2>2 DEF Settled
    <3> QED
      BY <1>1, <1>2, <2>2, <3>1 DEF DefaultInv, Alone
  <2>8. Defaulted(p)'
    BY <2>6, <2>7 DEF Defaulted
  <2>9. \A r \in Plan \ {p} : Defaulted(r)'
    BY <1>3, <2>5, DefaultsStay
  <2>11. \A b \in Admin : Alone(b)'
    BY <1>5, <2>5 DEF Alone
  <2> QED
    BY <2>8, <2>9, <2>11 DEF DefaultInv
<1>7. CASE UpdateToDefault(a)
  <2>1. edit[a].at = "update"
    BY <1>7 DEF UpdateToDefault
  <2>2. PICK i \in Price : i = edit[a].key
    BY <1>0, <2>1, EditIsTyped
  <2>3. PICK q \in Plan : q = price[i].plan /\ price[i] # None /\ price[i] \in PriceRows
    BY <1>0, <1>7, <2>2 DEF UpdateToDefault, Listed, PriceRows
  <2>10. /\ \E n \in Cents : price' = [price EXCEPT ![i].default = TRUE, ![i].cents = n]
         /\ blame' = Settled(a, p, q) /\ Over(a, q)
    BY <1>2, <1>7, <2>2, <2>3 DEF UpdateToDefault
  <2>4. /\ price'[i] # None /\ price'[i].plan = q /\ price'[i].default
        /\ \A j \in Price \ {i} : price'[j] = price[j]
    <3>n. PICK n \in Cents : price' = [price EXCEPT ![i].default = TRUE, ![i].cents = n]
      BY <2>10
    <3> DEFINE new == [price[i] EXCEPT !.default = TRUE, !.cents = n]
    <3>1. new \in PriceRows /\ new.plan = q /\ new.default
      BY <2>3 DEF PriceRows
    <3>2. price' = [price EXCEPT ![i] = new]
      BY <1>0, <2>3, <3>n DEF ShopTypes, PriceRows
    <3> HIDE DEF new
    <3>3. price'[i] = new /\ \A j \in Price \ {i} : price'[j] = price[j]
      BY <1>0, <2>2, <3>2 DEF ShopTypes
    <3> QED
      BY <1>0, <3>1, <3>3
  <2>5. \A r \in Plan \ {q} : DefaultsOf(r)' = DefaultsOf(r)
    BY <2>3, <2>4 DEF DefaultsOf, PricesOf
  <2>6. DefaultsOf(q)' = DefaultsOf(q) \cup {i}
    BY <2>3, <2>4 DEF DefaultsOf, PricesOf
  <2>7. \A r \in Plan \ {p, q} : blame'[r] = blame[r]
    BY <2>10 DEF Settled
  <2>8. CASE p = q
    <3>1. blame'[p] = {} => DefaultsOf(p) \subseteq {i}
      <4>1. blame'[p] = IF edit[a].alone THEN {} ELSE blame[p] \cup {"race"}
        BY <1>2, <2>8, <2>10 DEF Settled
      <4> QED
        BY <1>1, <1>2, <2>1, <2>2, <4>1 DEF DefaultInv, Alone
    <3>2. Defaulted(p)'
      <4>1. blame'[p] = {} => DefaultsOf(p)' = {i}
        BY <2>6, <2>8, <3>1
      <4> QED
        BY <2>2, <4>1 DEF Defaulted
    <3>3. \A r \in Plan \ {p} : Defaulted(r)'
      BY <1>3, <2>5, <2>7, <2>8, DefaultsStay
    <3>4. \A b \in Admin : Alone(b)'
      BY <1>5, <2>5, <2>8 DEF Alone
    <3> QED
      BY <3>2, <3>3, <3>4 DEF DefaultInv
  <2>9. CASE p # q
    <3>1. blame'[p] # {} /\ blame'[q] # {}
      BY <1>2, <2>3, <2>9, <2>10 DEF Settled
    <3>2. \A r \in Plan \ {p, q} : Defaulted(r)'
      BY <1>3, <2>5, <2>7, DefaultsStay
    <3>3. Defaulted(p)' /\ Defaulted(q)'
      BY <3>1 DEF Defaulted
    <3>4. ASSUME NEW b \in Admin, edit'[b].at # "idle", edit'[b].alone PROVE edit[b].plan # q
      <4>1. b # a /\ edit[b].at # "idle"
        BY <1>5, <3>4
      <4>2. edit[b].plan = q => edit'[b] = [edit[b] EXCEPT !.alone = FALSE]
        BY <1>2, <2>9, <2>10, <4>1 DEF Over, Promotes
      <4> QED
        BY <1>0, <3>4, <4>1, <4>2, EditIsTyped
    <3>5. \A b \in Admin : Alone(b)'
      BY <1>5, <2>5, <3>4 DEF Alone
    <3> QED
      BY <3>2, <3>3, <3>5 DEF DefaultInv
  <2> QED
    BY <2>8, <2>9
<1>8. CASE PromotionRefused(a) \/ EditFails(a)
  <2>1. /\ UNCHANGED price
        /\ \E w \in {"refused", "failed"} : blame' = [blame EXCEPT ![p] = @ \cup {w}]
    BY <1>2, <1>8 DEF PromotionRefused, EditFails, tables
  <2>2. blame'[p] # {} /\ \A r \in Plan \ {p} : blame'[r] = blame[r]
    BY <1>0, <1>2, <2>1 DEF ShopTypes
  <2>3. \A r : DefaultsOf(r)' = DefaultsOf(r)
    BY <2>1 DEF DefaultsOf, PricesOf
  <2>4. \A r \in Plan \ {p} : Defaulted(r)'
    BY <1>3, <2>2, <2>3, DefaultsStay
  <2>5. Defaulted(p)'
    BY <2>2 DEF Defaulted
  <2>6. \A b \in Admin : Alone(b)'
    BY <1>5, <2>3 DEF Alone
  <2> QED
    BY <2>4, <2>5, <2>6 DEF DefaultInv
<1> QED
  BY <1>6, <1>7, <1>8

-----------------------------------------------------------------------------
(* Catalog: checkouts.                                                     *)

\* What a step of a checkout does: nothing the provider has made goes, and a row
\* keeps what it is of.
BuyStep(c) ==
    /\ UNCHANGED <<active, edit, blame, amounts>>
    /\ DOMAIN checkout' = Customer /\ checkout'[c] \in CheckoutAt
    /\ \A d \in Customer \ {c} : checkout'[d] = checkout[d]
    /\ DOMAIN price' = Price
    /\ \A i \in Price :
         IF price[i] = None THEN price'[i] = None
         ELSE /\ price'[i] \in PriceRows /\ price'[i].plan = price[i].plan
              /\ price'[i].currency = price[i].currency /\ price'[i].cents = price[i].cents
              /\ (price'[i].default <=> price[i].default)
    /\ product' \in Seq(Plan)
    /\ \A n \in DOMAIN product : n \in DOMAIN product' /\ product'[n] = product[n]
    /\ recurring' \in Seq([product : Nat, currency : Currency, cents : Cents])
    /\ \A n \in DOMAIN recurring : n \in DOMAIN recurring' /\ recurring'[n] = recurring[n]
    /\ \A n \in DOMAIN recurring' : recurring'[n].product \in DOMAIN product'

\* The invariants stay when the one who moves knows what it has made, and what
\* the rows keep is their own.
LEMMA BuyStepKeeps ==
  ASSUME ShopInv, DefaultInv, NEW c \in Customer, BuyStep(c), Knows(c)',
         UNCHANGED price \/ \A i \in Price : Charged(i)'
  PROVE  ShopInv' /\ DefaultInv'
<1>0. ShopTypes /\ (\A i \in Price : Listed(i)) /\ None \notin PriceRows
  BY CatalogAssumption DEF ShopInv
<1>1. ASSUME NEW n \in DOMAIN recurring, NEW p, NEW q, NEW i, IsPriceOf(n, p, q, i)
      PROVE  n \in DOMAIN recurring' /\ IsPriceOf(n, p, q, i)'
  <2>1. recurring[n].product \in DOMAIN product /\ recurring'[n] = recurring[n] /\ n \in DOMAIN recurring'
    BY <1>0 DEF ShopTypes, BuyStep
  <2> QED
    BY <1>1, <2>1 DEF IsPriceOf, BuyStep
<1>2. ShopTypes'
  <2>1. \A d \in Customer : checkout'[d] \in CheckoutAt \cup NewCheckout
    BY <1>0 DEF ShopTypes, BuyStep
  <2>2. active' \in [Plan -> BOOLEAN \cup {None}] /\ DOMAIN blame' = Plan /\ DOMAIN price' = Price
        /\ amounts' \in [Price -> SUBSET Cents] /\ DOMAIN edit' = Admin
        /\ (\A a \in Admin : edit'[a] \in EditAt \cup {NoEdit}) /\ DOMAIN checkout' = Customer
    BY <1>0 DEF ShopTypes, BuyStep
  <2> QED
    BY <2>1, <2>2 DEF ShopTypes, BuyStep
<1>3. \A i \in Price : Listed(i)'
  BY <1>0 DEF Listed, BuyStep
<1>4. \A i \in Price : Charged(i)'
  <2>1. CASE UNCHANGED price
    BY <1>1, <2>1 DEF BuyStep, Charged, ShopInv
  <2> QED
    BY <2>1
<1>5. ASSUME NEW d \in Customer PROVE Knows(d)'
  <2>1. CASE d = c
    BY <2>1
  <2>2. CASE d # c
    <3>1. checkout'[d] = checkout[d] /\ Knows(d) /\ amounts' = amounts
      BY <2>2 DEF BuyStep, ShopInv
    <3>2. CASE checkout[d].at = "new"
      BY <3>1, <3>2 DEF Knows
    <3>3. CASE checkout[d].at # "new"
      <4> DEFINE k == checkout[d]
      <4>1. k.key \in Price
        BY <1>0, <3>3 DEF ShopTypes, NewCheckout, CheckoutAt
      <4>2. price'[k.key] # None => price[k.key] # None /\ price'[k.key].plan = price[k.key].plan
                                    /\ price'[k.key].currency = price[k.key].currency
        BY <4>1 DEF BuyStep
      <4>3. k.at \in {"price", "save"} => k.product \in DOMAIN product' /\ product'[k.product] = k.plan
        BY <3>1, <3>3 DEF Knows, BuyStep
      <4>4. k.at \in {"save", "open"} => k.stripe \in DOMAIN recurring'
                                         /\ IsPriceOf(k.stripe, k.plan, k.currency, k.key)'
        <5>1. PICK n, p, q, i : n = k.stripe /\ p = k.plan /\ q = k.currency /\ i = k.key
          OBVIOUS
        <5>2. k.at \in {"save", "open"} => n \in DOMAIN recurring' /\ IsPriceOf(n, p, q, i)'
          BY <1>1, <3>1, <3>3, <5>1 DEF Knows
        <5> QED
          BY <3>1, <5>1, <5>2 DEF IsPriceOf
      <4> QED
        BY <3>1, <3>3, <4>2, <4>3, <4>4 DEF Knows, IsPriceOf
    <3> QED
      BY <3>2, <3>3
  <2> QED
    BY <2>1, <2>2
<1>6. \A p \in Plan : DefaultsOf(p)' = DefaultsOf(p)
  <2>1. ASSUME NEW p \in Plan, NEW i \in Price PROVE i \in DefaultsOf(p)' <=> i \in DefaultsOf(p)
    BY <1>0 DEF BuyStep, DefaultsOf, PricesOf
  <2> QED
    BY <2>1 DEF DefaultsOf, PricesOf
<1>7. DefaultInv'
  BY <1>6, CalmStep DEF BuyStep
<1> QED
  BY <1>2, <1>3, <1>4, <1>5, <1>7 DEF ShopInv

\* The first of a set of keys is one of them.
LEMMA FirstKey == ASSUME NEW S, S \subseteq Price, S # {} PROVE Min(S) \in S
<1>1. S \subseteq Nat
  BY CatalogAssumption
<1> QED
  BY <1>1, LeastIsThere DEF Min

\* A checkout that has begun.
LEMMA CheckoutIsTyped ==
  ASSUME ShopInv, NEW c \in Customer, checkout[c].at # "new"
  PROVE  checkout[c] \in CheckoutAt /\ Knows(c) /\ checkout[c].key \in Price /\ checkout[c].plan \in Plan
<1>1. checkout[c] \in CheckoutAt
  BY DEF ShopInv, ShopTypes, NewCheckout
<1> QED
  BY <1>1 DEF CheckoutAt, ShopInv

\* A step that only moves the checkout.
LEMMA OnlyMoves ==
  ASSUME ShopInv, NEW c \in Customer, NEW k \in CheckoutAt, checkout' = [checkout EXCEPT ![c] = k],
         UNCHANGED <<active, price, edit, blame, amounts, product, recurring>>
  PROVE  BuyStep(c) /\ checkout'[c] = k
<1>1. ShopTypes /\ (\A i \in Price : Listed(i))
  BY DEF ShopInv
<1>2. DOMAIN checkout' = Customer /\ checkout'[c] = k /\ \A d \in Customer \ {c} : checkout'[d] = checkout[d]
  BY <1>1 DEF ShopTypes
<1>3. \A n \in DOMAIN recurring' : recurring'[n].product \in DOMAIN product'
  BY <1>1 DEF ShopTypes
<1> QED
  BY <1>1, <1>2, <1>3 DEF BuyStep, ShopTypes, Listed

\* A checkout reads a price; when another one is under way for the plan, the plan is
\* scattered.
LEMMA CheckoutBegins ==
  ASSUME ShopInv, DefaultInv, NEW c \in Customer, ReadPrice(c)
  PROVE  /\ ShopInv' /\ DefaultInv' /\ BuyStep(c) /\ UNCHANGED <<price, product>>
         /\ checkout'[c].at \in {"open", "find"}
         /\ checkout'[c].at = "find" =>
              /\ price[checkout'[c].key] # None /\ price[checkout'[c].key].product = 0
              /\ scattered' = IF \E d \in Customer : Reading(d, checkout'[c].plan)
                              THEN scattered \cup {checkout'[c].plan} ELSE scattered
         /\ scattered \subseteq scattered'
<1>0. ShopTypes /\ (\A i \in Price : Listed(i) /\ Charged(i))
  BY DEF ShopInv
<1>n. PICK p \in Plan : p = checkout[c].plan
  BY <1>0 DEF ReadPrice, ShopTypes, NewCheckout, CheckoutAt
<1>1. PICK want \in Currency \cup {None} :
        LET found == Offered(p, want)
            i == Min(found)
        IN  /\ found # {}
            /\ checkout' = [checkout EXCEPT ![c] =
                 [at |-> IF price[i].stripe # 0 THEN "open" ELSE "find", key |-> i,
                  plan |-> p, currency |-> price[i].currency, cents |-> price[i].cents,
                  product |-> 0, stripe |-> price[i].stripe]]
            /\ scattered' = IF \E d \in Customer : Reading(d, p) THEN scattered \cup {p} ELSE scattered
  BY <1>n DEF ReadPrice
<1> DEFINE found == Offered(p, want)
           i == Min(found)
           k == [at |-> IF price[i].stripe # 0 THEN "open" ELSE "find", key |-> i,
                 plan |-> p, currency |-> price[i].currency, cents |-> price[i].cents,
                 product |-> 0, stripe |-> price[i].stripe]
<1>2. checkout' = [checkout EXCEPT ![c] = k]
  BY <1>1
<1>3. i \in Price /\ price[i] # None /\ price[i].plan = p
  <2>1. found # {} /\ found \subseteq PricesOf(p)
    BY <1>1 DEF Offered, DefaultsOf
  <2>2. i \in found
    BY <2>1, FirstKey DEF PricesOf
  <2> QED
    BY <2>1, <2>2 DEF PricesOf
<1>4. price[i] \in PriceRows /\ price[i].cents \in amounts[i] /\ Charged(i)
  BY <1>0, <1>3 DEF Listed
<1> HIDE DEF i
<1>5. k \in CheckoutAt
  BY <1>3, <1>4 DEF CheckoutAt, PriceRows
<1>6. UNCHANGED <<active, price, edit, blame, amounts, product, recurring>>
  BY DEF ReadPrice, tables, provider
<1>7. /\ k.key = i /\ k.plan = p /\ k.currency = price[i].currency /\ k.cents = price[i].cents
      /\ k.product = 0 /\ k.stripe = price[i].stripe
      /\ k.at = IF price[i].stripe # 0 THEN "open" ELSE "find"
  OBVIOUS
<1> HIDE DEF k
<1>8. BuyStep(c) /\ checkout'[c] = k
  BY <1>2, <1>5, <1>6, OnlyMoves
<1>9. Knows(c)'
  BY <1>3, <1>4, <1>6, <1>7, <1>8 DEF Knows, Charged, IsPriceOf
<1>10. scattered' = IF \E d \in Customer : Reading(d, p) THEN scattered \cup {p} ELSE scattered
  BY <1>1
<1>11. k.at \in {"open", "find"} /\ (k.at = "find" => price[i].product = 0)
  <2>1. price[i].stripe = 0 => price[i].product = 0
    BY <1>3, <1>4 DEF Charged, PriceRows
  <2> QED
    BY <1>7, <2>1
<1> QED
  BY <1>3, <1>6, <1>7, <1>8, <1>9, <1>10, <1>11, BuyStepKeeps

\* It takes the product of another price of its plan,
LEMMA ProductFound ==
  ASSUME ShopInv, DefaultInv, NEW c \in Customer, FindProduct(c) \/ FindProductFails(c)
  PROVE  /\ ShopInv' /\ DefaultInv' /\ BuyStep(c) /\ UNCHANGED <<price, product>>
         /\ checkout[c].at = "find" /\ checkout'[c].at \in {"product", "price"}
         /\ checkout'[c].plan = checkout[c].plan /\ checkout'[c].key = checkout[c].key
         /\ \/ /\ scattered' = scattered
               /\ checkout'[c].at = "product" =>
                    \A i \in PricesOf(checkout[c].plan) \ {checkout[c].key} : price[i].product = 0
            \/ scattered' = scattered \cup {checkout[c].plan}
<1> DEFINE k == checkout[c]
           others == WithProduct(c)
<1>0. (\A i \in Price : Listed(i) /\ Charged(i)) /\ DOMAIN checkout = Customer
  BY DEF ShopInv, ShopTypes
<1>1. k.at = "find" /\ k \in CheckoutAt /\ Knows(c) /\ k.product = 0
  <2>1. k.at = "find"
    BY DEF FindProduct, FindProductFails
  <2>2. k \in CheckoutAt /\ Knows(c)
    BY <2>1, CheckoutIsTyped
  <2> QED
    BY <2>1, <2>2 DEF Knows
<1>2. \E at, made : /\ checkout' = [checkout EXCEPT ![c] = [k EXCEPT !.at = at, !.product = made]]
                    /\ \/ at = "product" /\ made = 0
                       \/ at = "price" /\ others # {} /\ made = price[Min(others)].product
                    /\ \/ scattered' = scattered /\ (at = "product" => others = {})
                       \/ scattered' = scattered \cup {k.plan}
  <2>1. CASE FindProduct(c)
    <3>1. checkout' = [checkout EXCEPT ![c] = [k EXCEPT !.at = IF others = {} THEN "product" ELSE "price",
                                                        !.product = IF others = {} THEN 0
                                                                    ELSE price[Min(others)].product]]
      BY <1>0, <1>1, <2>1 DEF FindProduct, CheckoutAt
    <3>2. scattered' = scattered
      BY <2>1 DEF FindProduct, history
    <3>3. CASE others = {}
      BY <3>1, <3>2, <3>3
    <3>4. CASE others # {}
      <4>1. PICK m : m = price[Min(others)].product
        OBVIOUS
      <4>2. checkout' = [checkout EXCEPT ![c] = [k EXCEPT !.at = "price", !.product = m]]
        BY <3>1, <3>4, <4>1
      <4> WITNESS "price", m
      <4> QED
        BY <3>2, <3>4, <4>1, <4>2
    <3> QED
      BY <3>3, <3>4
  <2>2. CASE FindProductFails(c)
    <3>1. [k EXCEPT !.at = "product"] = [k EXCEPT !.at = "product", !.product = 0]
      BY <1>1 DEF CheckoutAt
    <3>2. checkout' = [checkout EXCEPT ![c] = [k EXCEPT !.at = "product"]]
      BY <1>0, <2>2 DEF FindProductFails
    <3>3. scattered' = IF others = {} THEN scattered ELSE scattered \cup {k.plan}
      BY <2>2 DEF FindProductFails
    <3> QED
      BY <3>1, <3>2, <3>3
  <2> QED
    BY <2>1, <2>2
<1>3. UNCHANGED <<active, price, edit, blame, amounts, product, recurring>>
  BY DEF FindProduct, FindProductFails, tables, provider, history
<1>4. PICK at, made : /\ checkout' = [checkout EXCEPT ![c] = [k EXCEPT !.at = at, !.product = made]]
                      /\ \/ at = "product" /\ made = 0
                         \/ at = "price" /\ others # {} /\ made = price[Min(others)].product
                      /\ \/ scattered' = scattered /\ (at = "product" => others = {})
                         \/ scattered' = scattered \cup {k.plan}
  BY <1>2
<1>5. /\ at \in {"product", "price"} /\ made \in Nat /\ (at = "product" => made = 0)
      /\ at = "price" => made \in DOMAIN product /\ product[made] = k.plan
  <2>1. CASE at = "product"
    BY <1>4, <2>1
  <2>2. CASE at = "price"
    <3> DEFINE i == Min(others)
    <3>1. others \subseteq PricesOf(k.plan) /\ \A j \in others : price[j].product # 0
      BY DEF WithProduct
    <3>2. i \in others
      BY <1>4, <2>2, <3>1, FirstKey DEF PricesOf
    <3>3. i \in Price /\ price[i] # None /\ price[i].plan = k.plan /\ price[i].product # 0 /\ made = price[i].product
      BY <1>4, <2>2, <3>1, <3>2 DEF PricesOf
    <3> QED
      BY <1>0, <2>2, <3>3 DEF Listed, Charged, PriceRows
  <2> QED
    BY <1>4, <2>1, <2>2
<1> DEFINE new == [k EXCEPT !.at = at, !.product = made]
<1>6. /\ new \in CheckoutAt /\ new.key = k.key /\ new.plan = k.plan /\ new.currency = k.currency
      /\ new.cents = k.cents /\ new.product = made /\ new.stripe = k.stripe /\ new.at = at
  BY <1>1, <1>5 DEF CheckoutAt
<1>7. checkout' = [checkout EXCEPT ![c] = new]
  BY <1>4
<1>8. /\ \/ scattered' = scattered /\ (at = "product" => \A i \in PricesOf(k.plan) \ {k.key} : price[i].product = 0)
         \/ scattered' = scattered \cup {k.plan}
  BY <1>4 DEF WithProduct
<1> HIDE DEF new, others
<1>9. BuyStep(c) /\ checkout'[c] = new
  BY <1>3, <1>6, <1>7, OnlyMoves
<1>10. Knows(c)'
  BY <1>1, <1>3, <1>5, <1>6, <1>9 DEF Knows
<1>11. ShopInv' /\ DefaultInv'
  BY <1>3, <1>9, <1>10, BuyStepKeeps
<1> QED
  BY <1>1, <1>3, <1>5, <1>6, <1>8, <1>9, <1>11

\* or makes one for its plan,
LEMMA ProductMade ==
  ASSUME ShopInv, DefaultInv, NEW c \in Customer, NewProduct(c)
  PROVE  ShopInv' /\ DefaultInv' /\ BuyStep(c)
<1>0. ShopTypes /\ \A i \in Price : Listed(i)
  BY DEF ShopInv
<1>n. PICK n \in Nat : n = Len(product) + 1
  BY <1>0 DEF ShopTypes
<1> DEFINE k == checkout[c]
           new == [k EXCEPT !.at = "price", !.product = n]
<1>1. k.at = "product" /\ k \in CheckoutAt /\ Knows(c) /\ k.plan \in Plan
  BY CheckoutIsTyped DEF NewProduct
<1>2. /\ checkout' = [checkout EXCEPT ![c] = new] /\ product' = Append(product, k.plan)
      /\ UNCHANGED <<active, price, edit, blame, amounts, recurring>>
  BY <1>0, <1>1, <1>n DEF NewProduct, CheckoutAt, ShopTypes, tables, history
<1>3. /\ product' \in Seq(Plan) /\ product'[n] = k.plan /\ n \in DOMAIN product'
      /\ \A m \in DOMAIN product : m \in DOMAIN product' /\ product'[m] = product[m]
  BY <1>0, <1>1, <1>2, <1>n DEF ShopTypes
<1>4. /\ new \in CheckoutAt /\ new.at = "price" /\ new.product = n
      /\ new.key = k.key /\ new.plan = k.plan /\ new.currency = k.currency /\ new.cents = k.cents
  BY <1>1 DEF CheckoutAt
<1> HIDE DEF new
<1>5. DOMAIN checkout' = Customer /\ checkout'[c] = new /\ \A d \in Customer \ {c} : checkout'[d] = checkout[d]
  BY <1>0, <1>2 DEF ShopTypes
<1>6. BuyStep(c)
  BY <1>0, <1>2, <1>3, <1>4, <1>5 DEF BuyStep, ShopTypes, Listed
<1>7. Knows(c)'
  BY <1>1, <1>2, <1>3, <1>4, <1>5 DEF Knows
<1> QED
  BY <1>2, <1>6, <1>7, BuyStepKeeps

\* makes a price of that product, with what it has read,
LEMMA PriceMade ==
  ASSUME ShopInv, DefaultInv, NEW c \in Customer, NewPrice(c)
  PROVE  ShopInv' /\ DefaultInv' /\ BuyStep(c)
<1>0. ShopTypes /\ \A i \in Price : Listed(i)
  BY DEF ShopInv
<1>n. PICK n \in Nat : n = Len(recurring) + 1
  BY <1>0 DEF ShopTypes
<1> DEFINE k == checkout[c]
           new == [k EXCEPT !.at = "save", !.stripe = n]
           made == [product |-> k.product, currency |-> k.currency, cents |-> k.cents]
           Made == [product : Nat, currency : Currency, cents : Cents]
<1>1. k.at = "price" /\ k \in CheckoutAt /\ Knows(c)
  BY CheckoutIsTyped DEF NewPrice
<1>2. /\ checkout' = [checkout EXCEPT ![c] = new] /\ recurring' = Append(recurring, made)
      /\ UNCHANGED <<active, price, edit, blame, amounts, product>>
  BY <1>0, <1>1, <1>n DEF NewPrice, CheckoutAt, ShopTypes, tables, history
<1>3. /\ made \in Made /\ made.product = k.product /\ made.currency = k.currency /\ made.cents = k.cents
      /\ k.product \in DOMAIN product /\ product[k.product] = k.plan /\ k.cents \in amounts[k.key]
  BY <1>1 DEF CheckoutAt, Knows
<1> HIDE DEF made
<1>4. /\ recurring' \in Seq(Made) /\ recurring'[n] = made /\ DOMAIN recurring' = 1..n /\ n \in DOMAIN recurring'
      /\ \A m \in 1..n : m = n \/ m \in DOMAIN recurring
      /\ \A m \in DOMAIN recurring : m \in DOMAIN recurring' /\ recurring'[m] = recurring[m]
  BY <1>0, <1>2, <1>3, <1>n DEF ShopTypes
<1>5. /\ new \in CheckoutAt /\ new.at = "save" /\ new.product = k.product /\ new.stripe = n
      /\ new.key = k.key /\ new.plan = k.plan /\ new.currency = k.currency /\ new.cents = k.cents
  BY <1>1 DEF CheckoutAt
<1> HIDE DEF new
<1>6. DOMAIN checkout' = Customer /\ checkout'[c] = new /\ \A d \in Customer \ {c} : checkout'[d] = checkout[d]
  BY <1>0, <1>2 DEF ShopTypes
<1>7. ASSUME NEW m \in DOMAIN recurring' PROVE recurring'[m].product \in DOMAIN product'
  BY <1>0, <1>2, <1>3, <1>4 DEF ShopTypes
<1>8. BuyStep(c)
  <2>1. ASSUME NEW i \in Price
        PROVE  IF price[i] = None THEN price'[i] = None
               ELSE /\ price'[i] \in PriceRows /\ price'[i].plan = price[i].plan
                    /\ price'[i].currency = price[i].currency /\ price'[i].cents = price[i].cents
                    /\ (price'[i].default <=> price[i].default)
    BY <1>0, <1>2 DEF Listed
  <2>2. product' \in Seq(Plan) /\ \A m \in DOMAIN product : m \in DOMAIN product' /\ product'[m] = product[m]
    BY <1>0, <1>2 DEF ShopTypes
  <2>3. DOMAIN price' = Price
    BY <1>0, <1>2 DEF ShopTypes
  <2> QED
    <3>1. UNCHANGED <<active, edit, blame, amounts>>
      BY <1>2
    <3>2. /\ recurring' \in Seq(Made)
          /\ \A m \in DOMAIN recurring : m \in DOMAIN recurring' /\ recurring'[m] = recurring[m]
          /\ \A m \in DOMAIN recurring' : recurring'[m].product \in DOMAIN product'
      BY <1>4, <1>7
    <3> QED
      BY <1>5, <1>6, <2>1, <2>2, <2>3, <3>1, <3>2 DEF BuyStep
<1>9. Knows(c)'
  <2>1. n \in DOMAIN recurring' /\ recurring'[n] = made
    BY <1>4
  <2>2. PICK q, r, i : q = k.plan /\ r = k.currency /\ i = k.key
    OBVIOUS
  <2>3. IsPriceOf(n, q, r, i)'
    BY <1>2, <1>3, <2>1, <2>2 DEF IsPriceOf
  <2> QED
    BY <1>1, <1>2, <1>3, <1>5, <1>6, <2>1, <2>2, <2>3 DEF Knows, IsPriceOf
<1> QED
  BY <1>2, <1>8, <1>9, BuyStepKeeps

\* keeps their ids in the row,
LEMMA IdsSaved ==
  ASSUME ShopInv, DefaultInv, NEW c \in Customer, SaveIds(c)
  PROVE  ShopInv' /\ DefaultInv' /\ BuyStep(c)
<1> DEFINE k == checkout[c]
           new == [k EXCEPT !.at = "open"]
           saved == [price[k.key] EXCEPT !.stripe = k.stripe, !.product = k.product]
<1>0. ShopTypes /\ (\A i \in Price : Listed(i) /\ Charged(i)) /\ None \notin PriceRows
  BY CatalogAssumption DEF ShopInv
<1>1. k.at = "save" /\ k \in CheckoutAt /\ Knows(c) /\ k.key \in Price
  BY CheckoutIsTyped DEF SaveIds
<1>2. /\ price' = [price EXCEPT ![k.key] = IF price[k.key] = None THEN None ELSE saved]
      /\ checkout' = [checkout EXCEPT ![c] = new]
      /\ UNCHANGED <<active, edit, blame, amounts, product, recurring>>
  BY <1>0, <1>1 DEF SaveIds, CheckoutAt, ShopTypes, provider, history
<1>3. /\ new \in CheckoutAt /\ new.at = "open" /\ new.product = k.product /\ new.stripe = k.stripe
      /\ new.key = k.key /\ new.plan = k.plan /\ new.currency = k.currency /\ new.cents = k.cents
  BY <1>1 DEF CheckoutAt
<1>4. k.product \in Nat /\ k.stripe \in Nat
  BY <1>1 DEF CheckoutAt
<1>5. price[k.key] # None =>
        /\ saved \in PriceRows /\ saved.plan = price[k.key].plan /\ saved.currency = price[k.key].currency
        /\ saved.cents = price[k.key].cents /\ (saved.default <=> price[k.key].default)
        /\ saved.stripe = k.stripe /\ saved.product = k.product
  <2>1. price[k.key] # None => price[k.key] \in PriceRows
    BY <1>0, <1>1 DEF Listed
  <2> QED
    BY <1>4, <2>1 DEF PriceRows
<1> HIDE DEF new, saved
<1>6. /\ DOMAIN checkout' = Customer /\ checkout'[c] = new
      /\ \A d \in Customer \ {c} : checkout'[d] = checkout[d]
      /\ DOMAIN price' = Price /\ price'[k.key] = IF price[k.key] = None THEN None ELSE saved
      /\ \A i \in Price \ {k.key} : price'[i] = price[i]
  BY <1>0, <1>1, <1>2 DEF ShopTypes
<1>7. BuyStep(c)
  <2>1. ASSUME NEW i \in Price
        PROVE  IF price[i] = None THEN price'[i] = None
               ELSE /\ price'[i] \in PriceRows /\ price'[i].plan = price[i].plan
                    /\ price'[i].currency = price[i].currency /\ price'[i].cents = price[i].cents
                    /\ (price'[i].default <=> price[i].default)
    <3>1. CASE i = k.key
      BY <1>5, <1>6, <3>1
    <3>2. CASE i # k.key
      BY <1>0, <1>6, <3>2 DEF Listed
    <3> QED
      BY <3>1, <3>2
  <2> QED
    BY <1>0, <1>2, <1>3, <1>6, <2>1 DEF BuyStep, ShopTypes
<1>8. Knows(c)'
  <2>1. price'[k.key] # None => price[k.key] # None /\ price'[k.key].plan = price[k.key].plan
                                /\ price'[k.key].currency = price[k.key].currency
    BY <1>1, <1>7 DEF BuyStep
  <2> QED
    BY <1>1, <1>2, <1>3, <1>6, <2>1 DEF Knows, IsPriceOf
<1>9. ASSUME NEW i \in Price PROVE Charged(i)'
  <2>1. CASE i = k.key
    BY <1>0, <1>1, <1>2, <1>5, <1>6, <2>1 DEF Charged, Knows, IsPriceOf, ShopTypes
  <2>2. CASE i # k.key
    BY <1>0, <1>2, <1>6, <2>2 DEF Charged, IsPriceOf
  <2> QED
    BY <2>1, <2>2
<1> QED
  BY <1>7, <1>8, <1>9, BuyStepKeeps

\* or ends without.
LEMMA CheckoutEnds ==
  ASSUME ShopInv, DefaultInv, NEW c \in Customer, SaveIdsFails(c) \/ CheckoutFails(c)
  PROVE  ShopInv' /\ DefaultInv' /\ BuyStep(c)
<1> DEFINE k == checkout[c]
<1>0. DOMAIN checkout = Customer
  BY DEF ShopInv, ShopTypes
<1>1. k.at \in {"find", "product", "price", "save"} /\ k \in CheckoutAt /\ Knows(c)
      /\ UNCHANGED <<active, price, edit, blame, amounts, product, recurring>>
  BY CheckoutIsTyped DEF SaveIdsFails, CheckoutFails, tables, provider
<1>2. PICK at \in {"open", "failed"} : /\ checkout' = [checkout EXCEPT ![c].at = at]
                                       /\ at = "open" => k.at = "save"
  BY DEF SaveIdsFails, CheckoutFails
<1> DEFINE new == [k EXCEPT !.at = at]
<1>3. /\ new \in CheckoutAt /\ new.at = at /\ new.product = k.product /\ new.stripe = k.stripe
      /\ new.key = k.key /\ new.plan = k.plan /\ new.currency = k.currency /\ new.cents = k.cents
  BY <1>1, <1>2 DEF CheckoutAt
<1>4. checkout' = [checkout EXCEPT ![c] = new]
  BY <1>2
<1> HIDE DEF new
<1>5. BuyStep(c) /\ checkout'[c] = new
  BY <1>1, <1>3, <1>4, OnlyMoves
<1>6. Knows(c)'
  BY <1>1, <1>2, <1>3, <1>5 DEF Knows, IsPriceOf
<1> QED
  BY <1>1, <1>5, <1>6, BuyStepKeeps

-----------------------------------------------------------------------------
(* Catalog: products at the provider.                                      *)

\* Who keeps a product of a plan: a row of the plan, or the checkout that is about
\* to write it.
Keeps(k, p) ==
    \/ \E i \in Price : price[i] # None /\ price[i].plan = p /\ price[i].product = k
    \/ \E c \in Customer : Reading(c, p) /\ checkout[c].at \in {"price", "save"} /\ checkout[c].product = k

Bought(p) ==
    /\ \A c, d \in Customer : Reading(c, p) /\ Reading(d, p) => c = d
    /\ \A c \in Customer : Reading(c, p) =>
         price[checkout[c].key] # None /\ price[checkout[c].key].product = 0
    /\ \A c \in Customer : Reading(c, p) /\ checkout[c].at = "product" =>
         \A k \in DOMAIN product : product[k] # p
    /\ \A k \in DOMAIN product : product[k] = p => Keeps(k, p)
    /\ \A i, j \in DOMAIN product : (product[i] = p /\ product[j] = p) => i = j

BoughtOnce == \A p \in Plan \ scattered : Bought(p)

\* A row that goes scatters its plan; the others keep their products.
LEMMA EditKeepsBought ==
  ASSUME ShopInv, EditStep, BoughtOnce
  PROVE  BoughtOnce'
<1>1. SUFFICES ASSUME NEW p \in Plan, p \notin scattered' PROVE Bought(p)'
  BY DEF BoughtOnce
<1>2. Bought(p) /\ UNCHANGED <<checkout, product>>
  BY <1>1 DEF BoughtOnce, EditStep
<1>3. \A c \in Customer : Reading(c, p)' <=> Reading(c, p)
  BY <1>2 DEF Reading
<1>4. ASSUME NEW i \in Price, price[i] # None, price[i].plan = p
      PROVE  price'[i] # None /\ price'[i].plan = p /\ price'[i].product = price[i].product
  BY <1>1, <1>4 DEF EditStep, Kept, Gone
<1>5. ASSUME NEW c \in Customer, Reading(c, p)
      PROVE  price'[checkout[c].key] # None /\ price'[checkout[c].key].product = 0
  <2>1. checkout[c].key \in Price /\ Knows(c) /\ checkout[c].plan = p /\ checkout[c].at # "new"
    BY <1>5, CheckoutIsTyped DEF Reading
  <2>2. price[checkout[c].key] # None /\ price[checkout[c].key].product = 0
    BY <1>2, <1>5 DEF Bought
  <2>3. price[checkout[c].key].plan = p
    BY <2>1, <2>2 DEF Knows
  <2> QED
    BY <1>4, <2>1, <2>2, <2>3
<1>6. ASSUME NEW k \in DOMAIN product, product[k] = p PROVE Keeps(k, p)'
  <2>1. Keeps(k, p)
    BY <1>2, <1>6 DEF Bought
  <2>2. CASE \E i \in Price : price[i] # None /\ price[i].plan = p /\ price[i].product = k
    <3>1. PICK i \in Price : price[i] # None /\ price[i].plan = p /\ price[i].product = k
      BY <2>2
    <3> QED
      BY <1>4, <3>1 DEF Keeps
  <2>3. CASE \E c \in Customer : Reading(c, p) /\ checkout[c].at \in {"price", "save"} /\ checkout[c].product = k
    BY <1>2, <1>3, <2>3 DEF Keeps
  <2> QED
    BY <2>1, <2>2, <2>3 DEF Keeps
<1> QED
  BY <1>2, <1>3, <1>5, <1>6 DEF Bought

\* A step of checkout c leaves the other plans alone.
LEMMA OthersBought ==
  ASSUME ShopInv, BoughtOnce, NEW c \in Customer, BuyStep(c), NEW p \in Plan \ scattered,
         ~Reading(c, p), ~Reading(c, p)',
         \A k \in DOMAIN product' : product'[k] = p => k \in DOMAIN product,
         \A i \in Price : price[i] # None /\ price[i].plan = p => price'[i].product = price[i].product
  PROVE  Bought(p)'
<1>1. Bought(p)
  BY DEF BoughtOnce
<1>2. \A d \in Customer : Reading(d, p)' <=> Reading(d, p)
  BY DEF Reading, BuyStep
<1>3. ASSUME NEW d \in Customer, Reading(d, p)
      PROVE  /\ checkout'[d] = checkout[d]
             /\ price'[checkout[d].key] # None /\ price'[checkout[d].key].product = 0
  <2>1. checkout'[d] = checkout[d]
    BY <1>3 DEF BuyStep
  <2>2. checkout[d].key \in Price /\ Knows(d) /\ checkout[d].plan = p /\ checkout[d].at # "new"
    BY <1>3, CheckoutIsTyped DEF Reading
  <2>3. price[checkout[d].key] # None /\ price[checkout[d].key].product = 0
    BY <1>1, <1>3 DEF Bought
  <2>4. price[checkout[d].key].plan = p
    BY <2>2, <2>3 DEF Knows
  <2>5. price'[checkout[d].key] # None
    <3>1. None \notin PriceRows
      BY CatalogAssumption
    <3> QED
      BY <2>2, <2>3, <3>1 DEF BuyStep
  <2> QED
    BY <2>1, <2>2, <2>3, <2>4, <2>5
<1>4. ASSUME NEW k \in DOMAIN product', product'[k] = p
      PROVE  k \in DOMAIN product /\ product[k] = p /\ Keeps(k, p)'
  <2>1. k \in DOMAIN product /\ product[k] = p
    BY <1>4 DEF BuyStep
  <2>2. Keeps(k, p)
    BY <1>1, <2>1 DEF Bought
  <2>3. CASE \E i \in Price : price[i] # None /\ price[i].plan = p /\ price[i].product = k
    <3>1. PICK i \in Price : price[i] # None /\ price[i].plan = p /\ price[i].product = k
      BY <2>3
    <3>2. price'[i] # None /\ price'[i].plan = p /\ price'[i].product = k
      <4>1. None \notin PriceRows
        BY CatalogAssumption
      <4> QED
        BY <3>1, <4>1 DEF BuyStep
    <3> QED
      BY <2>1, <3>2 DEF Keeps
  <2>4. CASE \E d \in Customer : Reading(d, p) /\ checkout[d].at \in {"price", "save"} /\ checkout[d].product = k
    BY <1>2, <1>3, <2>1, <2>4 DEF Keeps
  <2> QED
    BY <2>1, <2>2, <2>3, <2>4 DEF Keeps
<1>5. \A d, e \in Customer : Reading(d, p)' /\ Reading(e, p)' => d = e
  BY <1>1, <1>2 DEF Bought
<1>6. \A d \in Customer : Reading(d, p)' =>
         price'[checkout'[d].key] # None /\ price'[checkout'[d].key].product = 0
  BY <1>2, <1>3
<1>7. \A d \in Customer : Reading(d, p)' /\ checkout'[d].at = "product" =>
         \A k \in DOMAIN product' : product'[k] # p
  BY <1>1, <1>2, <1>3, <1>4 DEF Bought
<1>8. \A i, j \in DOMAIN product' : (product'[i] = p /\ product'[j] = p) => i = j
  BY <1>1, <1>4 DEF Bought
<1> QED
  BY <1>4, <1>5, <1>6, <1>7, <1>8 DEF Bought

\* A checkout that is not alone scatters its plan.
LEMMA BeginKeepsBought ==
  ASSUME ShopInv, DefaultInv, BoughtOnce, NEW c \in Customer, ReadPrice(c)
  PROVE  BoughtOnce'
<1>1. /\ BuyStep(c) /\ UNCHANGED <<price, product>> /\ checkout'[c].at \in {"open", "find"}
      /\ checkout'[c].at = "find" =>
           /\ price[checkout'[c].key] # None /\ price[checkout'[c].key].product = 0
           /\ scattered' = IF \E d \in Customer : Reading(d, checkout'[c].plan)
                           THEN scattered \cup {checkout'[c].plan} ELSE scattered
      /\ scattered \subseteq scattered'
  BY CheckoutBegins
<1>2. checkout[c].at = "new"
  BY DEF ReadPrice
<1>3. SUFFICES ASSUME NEW p \in Plan \ scattered, p \notin scattered' PROVE Bought(p)'
  BY <1>1 DEF BoughtOnce
<1>4. ~Reading(c, p)
  BY <1>2 DEF Reading
<1>5. CASE ~Reading(c, p)'
  BY <1>1, <1>4, <1>5, OthersBought
<1>6. CASE Reading(c, p)'
  <2>1. checkout'[c].at = "find" /\ checkout'[c].plan = p
    BY <1>1, <1>6 DEF Reading
  <2>2. \A d \in Customer : ~Reading(d, p)
    BY <1>1, <1>3, <2>1
  <2>3. \A d \in Customer : Reading(d, p)' => d = c
    BY <1>1, <2>2 DEF Reading, BuyStep
  <2>4. Bought(p)
    BY DEF BoughtOnce
  <2>5. \A k \in DOMAIN product : product[k] = p => Keeps(k, p)'
    BY <1>1, <2>2, <2>4 DEF Bought, Keeps
  <2> QED
    BY <1>1, <2>1, <2>3, <2>4, <2>5 DEF Bought
<1> QED
  BY <1>5, <1>6

\* The reader of a plan is the only one, and its row has no product yet.
LEMMA OneReader ==
  ASSUME ShopInv, BoughtOnce, NEW c \in Customer, NEW p \in Plan \ scattered, Reading(c, p)
  PROVE  /\ \A d \in Customer : Reading(d, p) => d = c
         /\ checkout[c].key \in Price /\ checkout[c].plan = p /\ Knows(c)
         /\ price[checkout[c].key] # None /\ price[checkout[c].key].plan = p
         /\ price[checkout[c].key].product = 0
         /\ \A k \in DOMAIN product : k # 0 /\ (product[k] = p => Keeps(k, p))
         /\ checkout[c].at = "product" => \A k \in DOMAIN product : product[k] # p
         /\ \A i, j \in DOMAIN product : (product[i] = p /\ product[j] = p) => i = j
<1>1. Bought(p)
  BY DEF BoughtOnce
<1>2. checkout[c].key \in Price /\ checkout[c].plan = p /\ Knows(c) /\ checkout[c].at # "new"
  BY CheckoutIsTyped DEF Reading
<1>3. price[checkout[c].key] # None /\ price[checkout[c].key].product = 0
  BY <1>1 DEF Bought
<1>4. price[checkout[c].key].plan = p
  BY <1>2, <1>3 DEF Knows
<1>5. \A k \in DOMAIN product : k # 0
  BY DEF ShopInv, ShopTypes
<1> QED
  BY <1>1, <1>2, <1>3, <1>4, <1>5 DEF Bought

\* A reader that finds no product knows that there is none.
LEMMA FindKeepsBought ==
  ASSUME ShopInv, DefaultInv, BoughtOnce, NEW c \in Customer, FindProduct(c) \/ FindProductFails(c)
  PROVE  BoughtOnce'
<1>1. /\ BuyStep(c) /\ UNCHANGED <<price, product>> /\ checkout[c].at = "find"
      /\ checkout'[c].at \in {"product", "price"} /\ checkout'[c].plan = checkout[c].plan
      /\ checkout'[c].key = checkout[c].key
      /\ scattered \subseteq scattered'
      /\ \/ checkout[c].plan \in scattered'
         \/ checkout'[c].at = "product" =>
              \A i \in PricesOf(checkout[c].plan) \ {checkout[c].key} : price[i].product = 0
  BY ProductFound
<1>3. SUFFICES ASSUME NEW p \in Plan \ scattered, p \notin scattered' PROVE Bought(p)'
  BY <1>1 DEF BoughtOnce
<1>2. Reading(c, p) /\ checkout'[c].at = "product" =>
        \A i \in PricesOf(checkout[c].plan) \ {checkout[c].key} : price[i].product = 0
  BY <1>1, <1>3 DEF Reading
<1>4. \A d \in Customer : Reading(d, p)' <=> Reading(d, p)
  <2>1. Reading(c, p)' <=> Reading(c, p)
    BY <1>1 DEF Reading
  <2>2. \A d \in Customer \ {c} : Reading(d, p)' <=> Reading(d, p)
    BY <1>1 DEF Reading, BuyStep
  <2> QED
    BY <2>1, <2>2
<1>5. CASE ~Reading(c, p)
  BY <1>1, <1>4, <1>5, OthersBought
<1>6. CASE Reading(c, p)
  <2>1. /\ \A d \in Customer : Reading(d, p) => d = c
        /\ price[checkout[c].key] # None /\ price[checkout[c].key].product = 0
        /\ \A k \in DOMAIN product : k # 0 /\ (product[k] = p => Keeps(k, p))
        /\ \A i, j \in DOMAIN product : (product[i] = p /\ product[j] = p) => i = j
        /\ checkout[c].plan = p
    BY <1>6, OneReader
  <2>2. ASSUME NEW k \in DOMAIN product, product[k] = p
        PROVE  \E i \in Price : /\ price[i] # None /\ price[i].plan = p /\ price[i].product = k
                           /\ i # checkout[c].key /\ price[i].product # 0
    <3>1. \E i \in Price : price[i] # None /\ price[i].plan = p /\ price[i].product = k
      BY <1>1, <2>1, <2>2 DEF Keeps
    <3> QED
      BY <2>1, <3>1
  <2>3. \A k \in DOMAIN product : product[k] = p => Keeps(k, p)'
    <3>1. ASSUME NEW k \in DOMAIN product, product[k] = p PROVE Keeps(k, p)'
      <4>1. \E i \in Price : price[i] # None /\ price[i].plan = p /\ price[i].product = k
        BY <2>2, <3>1
      <4>2. \E i \in Price : price'[i] # None /\ price'[i].plan = p /\ price'[i].product = k
        BY <1>1, <4>1
      <4> QED
        BY <4>2 DEF Keeps
    <3> QED
      BY <3>1
  <2>4. checkout'[c].at = "product" => \A k \in DOMAIN product : product[k] # p
    BY <1>2, <1>6, <2>1, <2>2 DEF PricesOf
  <2> QED
    BY <1>1, <1>2, <1>4, <2>1, <2>3, <2>4 DEF Bought
<1> QED
  BY <1>5, <1>6

\* Whom c reads stays as it is while it makes its product and price.
LEMMA SameReaders ==
  ASSUME NEW c \in Customer, BuyStep(c), NEW p,
         checkout[c].at \in {"find", "product", "price", "save"},
         checkout'[c].at \in {"find", "product", "price", "save"}, checkout'[c].plan = checkout[c].plan
  PROVE  \A d \in Customer : Reading(d, p)' <=> Reading(d, p)
<1>1. Reading(c, p)' <=> Reading(c, p)
  BY DEF Reading
<1>2. \A d \in Customer \ {c} : Reading(d, p)' <=> Reading(d, p)
  BY DEF Reading, BuyStep
<1> QED
  BY <1>1, <1>2

\* So the one it makes is the first.
LEMMA MakeProductKeepsBought ==
  ASSUME ShopInv, DefaultInv, BoughtOnce, NEW c \in Customer, NewProduct(c)
  PROVE  BoughtOnce'
<1>0. ShopTypes
  BY DEF ShopInv
<1>1. BuyStep(c) /\ UNCHANGED <<price, scattered>> /\ checkout[c].at = "product"
  BY ProductMade DEF NewProduct, tables, history
<1>2. PICK q \in Plan : q = checkout[c].plan
  BY <1>1, CheckoutIsTyped
<1>3. PICK n \in Nat : n = Len(product) + 1
  BY <1>0 DEF ShopTypes
<1>4. /\ n \in DOMAIN product' /\ product'[n] = q
      /\ \A k \in DOMAIN product' : k = n \/ (k \in DOMAIN product /\ product'[k] = product[k])
  <2>1. product \in Seq(Plan) /\ product' = Append(product, q) /\ n = Len(product) + 1
    BY <1>0, <1>2, <1>3 DEF ShopTypes, NewProduct
  <2>2. /\ Len(product) \in Nat /\ DOMAIN product = 1..Len(product) /\ DOMAIN product' = 1..n /\ product'[n] = q
        /\ \A k \in 1..Len(product) : product'[k] = product[k]
    BY <1>2, <2>1
  <2>3. \A k \in 1..n : k = n \/ k \in 1..Len(product)
    BY <2>1, <2>2
  <2>4. n \in 1..n
    BY <2>1, <2>2
  <2> QED
    BY <2>2, <2>3, <2>4
<1>5. checkout'[c].at = "price" /\ checkout'[c].plan = q /\ checkout'[c].product = n
      /\ checkout'[c].key = checkout[c].key
  <2>1. checkout[c] \in CheckoutAt
    BY <1>1, CheckoutIsTyped
  <2>2. checkout'[c] = [checkout[c] EXCEPT !.at = "price", !.product = n]
    BY <1>0, <1>3, <2>1 DEF ShopTypes, NewProduct, CheckoutAt
  <2> QED
    BY <1>2, <2>1, <2>2 DEF CheckoutAt
<1>6. SUFFICES ASSUME NEW p \in Plan \ scattered PROVE Bought(p)'
  BY <1>1 DEF BoughtOnce
<1>7. \A d \in Customer : Reading(d, p)' <=> Reading(d, p)
  BY <1>1, <1>2, <1>5, SameReaders
<1>8. CASE ~Reading(c, p)
  <2>1. q # p
    BY <1>1, <1>2, <1>8 DEF Reading
  <2> QED
    BY <1>1, <1>4, <1>7, <1>8, <2>1, OthersBought
<1>9. CASE Reading(c, p)
  <2>1. /\ \A d \in Customer : Reading(d, p) => d = c
        /\ price[checkout[c].key] # None /\ price[checkout[c].key].product = 0
        /\ \A k \in DOMAIN product : product[k] # p
    BY <1>1, <1>9, OneReader
  <2>2. \A k \in DOMAIN product' : product'[k] = p => k = n
    BY <1>4, <2>1
  <2>3. Keeps(n, p)'
    BY <1>5, <1>7, <1>9 DEF Keeps
  <2> QED
    BY <1>1, <1>5, <1>7, <2>1, <2>2, <2>3 DEF Bought
<1> QED
  BY <1>8, <1>9

\* It keeps the product until it has the price
LEMMA MakePriceKeepsBought ==
  ASSUME ShopInv, DefaultInv, BoughtOnce, NEW c \in Customer, NewPrice(c)
  PROVE  BoughtOnce'
<1>1. BuyStep(c) /\ UNCHANGED <<price, scattered, product>> /\ checkout[c].at = "price"
  BY PriceMade DEF NewPrice, tables, history
<1>2. checkout'[c].at = "save" /\ checkout'[c].plan = checkout[c].plan
      /\ checkout'[c].product = checkout[c].product /\ checkout'[c].key = checkout[c].key
  <2>1. checkout[c] \in CheckoutAt /\ DOMAIN checkout = Customer
    BY <1>1, CheckoutIsTyped DEF ShopInv, ShopTypes
  <2>2. PICK n : n = Len(recurring) + 1
    OBVIOUS
  <2>3. checkout'[c] = [checkout[c] EXCEPT !.at = "save", !.stripe = n]
    BY <2>1, <2>2 DEF NewPrice, CheckoutAt
  <2> QED
    BY <2>1, <2>3 DEF CheckoutAt
<1>3. SUFFICES ASSUME NEW p \in Plan \ scattered PROVE Bought(p)'
  BY <1>1 DEF BoughtOnce
<1>4. \A d \in Customer : Reading(d, p)' <=> Reading(d, p)
  BY <1>1, <1>2, SameReaders
<1>5. CASE ~Reading(c, p)
  BY <1>1, <1>4, <1>5, OthersBought
<1>6. CASE Reading(c, p)
  <2>1. /\ \A d \in Customer : Reading(d, p) => d = c
        /\ price[checkout[c].key] # None /\ price[checkout[c].key].product = 0
        /\ \A k \in DOMAIN product : k # 0 /\ (product[k] = p => Keeps(k, p))
        /\ \A i, j \in DOMAIN product : (product[i] = p /\ product[j] = p) => i = j
    BY <1>6, OneReader
  <2>2. ASSUME NEW k \in DOMAIN product, product[k] = p PROVE Keeps(k, p)'
    <3>1. Keeps(k, p)
      BY <2>1, <2>2
    <3>2. CASE \E i \in Price : price[i] # None /\ price[i].plan = p /\ price[i].product = k
      <4>1. \E i \in Price : price'[i] # None /\ price'[i].plan = p /\ price'[i].product = k
        BY <1>1, <3>2
      <4> QED
        BY <4>1 DEF Keeps
    <3>3. CASE checkout[c].product = k
      <4>1. Reading(c, p)' /\ checkout'[c].at \in {"price", "save"} /\ checkout'[c].product = k
        BY <1>2, <1>4, <1>6, <3>3
      <4> QED
        BY <4>1 DEF Keeps
    <3> QED
      BY <2>1, <3>1, <3>2, <3>3 DEF Keeps
  <2> QED
    BY <1>1, <1>2, <1>4, <2>1, <2>2 DEF Bought
<1> QED
  BY <1>5, <1>6

\* and hands it to the row.
LEMMA SaveKeepsBought ==
  ASSUME ShopInv, DefaultInv, BoughtOnce, NEW c \in Customer, SaveIds(c)
  PROVE  BoughtOnce'
<1>0. ShopTypes /\ (\A i \in Price : Listed(i)) /\ None \notin PriceRows
  BY CatalogAssumption DEF ShopInv
<1>1. BuyStep(c) /\ UNCHANGED <<product, scattered>> /\ checkout[c].at = "save" /\ checkout'[c].at = "open"
  <2>1. checkout[c].at = "save" /\ checkout' = [checkout EXCEPT ![c].at = "open"] /\ UNCHANGED <<product, scattered>>
    BY DEF SaveIds, provider, history
  <2>2. checkout[c] \in CheckoutAt
    BY <2>1, CheckoutIsTyped
  <2>3. checkout'[c].at = "open"
    BY <1>0, <2>1, <2>2 DEF ShopTypes, CheckoutAt
  <2>4. BuyStep(c)
    BY IdsSaved
  <2> QED
    BY <2>1, <2>3, <2>4
<1>2. /\ checkout[c] \in CheckoutAt /\ checkout[c].key \in Price
      /\ \A i \in Price \ {checkout[c].key} : price'[i] = price[i]
  BY <1>0, <1>1, CheckoutIsTyped DEF SaveIds, ShopTypes
<1>3. SUFFICES ASSUME NEW p \in Plan \ scattered PROVE Bought(p)'
  BY <1>1 DEF BoughtOnce
<1>4. ~Reading(c, p)'
  BY <1>1 DEF Reading
<1>5. CASE ~Reading(c, p)
  <2>1. price[checkout[c].key] # None => price[checkout[c].key].plan # p
    <3>1. checkout[c].plan # p /\ Knows(c)
      BY <1>1, <1>5, CheckoutIsTyped DEF Reading
    <3> QED
      BY <1>1, <3>1 DEF Knows
  <2> QED
    BY <1>1, <1>2, <1>4, <1>5, <2>1, OthersBought
<1>6. CASE Reading(c, p)
  <2>1. /\ \A d \in Customer : Reading(d, p) => d = c
        /\ price[checkout[c].key] # None /\ price[checkout[c].key].plan = p
        /\ price[checkout[c].key].product = 0
        /\ \A k \in DOMAIN product : k # 0 /\ (product[k] = p => Keeps(k, p))
        /\ \A i, j \in DOMAIN product : (product[i] = p /\ product[j] = p) => i = j
    BY <1>6, OneReader
  <2>2. \A d \in Customer : ~Reading(d, p)'
    BY <1>1, <1>4, <2>1 DEF Reading, BuyStep
  <2>3. PICK j \in Price : j = checkout[c].key
    BY <1>2
  <2>4. price'[j] # None /\ price'[j].plan = p /\ price'[j].product = checkout[c].product
    <3>1. price[j] \in PriceRows
      BY <1>0, <2>1, <2>3 DEF Listed
    <3>2. price'[j] = [price[j] EXCEPT !.stripe = checkout[c].stripe, !.product = checkout[c].product]
      BY <1>0, <2>1, <2>3 DEF SaveIds, ShopTypes
    <3>3. price'[j] \in PriceRows /\ price'[j].plan = p
      BY <1>1, <2>1, <2>3 DEF BuyStep
    <3> QED
      BY <1>0, <3>1, <3>2, <3>3 DEF PriceRows
  <2>5. ASSUME NEW k \in DOMAIN product, product[k] = p PROVE Keeps(k, p)'
    <3>1. Keeps(k, p) /\ k # 0
      BY <2>1, <2>5
    <3>2. CASE \E i \in Price : price[i] # None /\ price[i].plan = p /\ price[i].product = k
      <4>1. PICK i \in Price : price[i] # None /\ price[i].plan = p /\ price[i].product = k
        BY <3>2
      <4>2. price'[i] = price[i]
        BY <1>2, <2>1, <3>1, <4>1
      <4> QED
        BY <4>1, <4>2 DEF Keeps
    <3>3. CASE checkout[c].product = k
      BY <2>4, <3>3 DEF Keeps
    <3> QED
      BY <2>1, <3>1, <3>2, <3>3 DEF Keeps
  <2> QED
    BY <1>1, <2>1, <2>2, <2>5 DEF Bought
<1> QED
  BY <1>5, <1>6

\* One that ends with a product that no row keeps scatters its plan.
LEMMA EndKeepsBought ==
  ASSUME ShopInv, DefaultInv, BoughtOnce, NEW c \in Customer, SaveIdsFails(c) \/ CheckoutFails(c)
  PROVE  BoughtOnce'
<1>0. DOMAIN checkout = Customer
  BY DEF ShopInv, ShopTypes
<1>1. /\ BuyStep(c) /\ UNCHANGED <<price, product>>
      /\ checkout[c].at \in {"find", "product", "price", "save"} /\ checkout'[c].at \in {"open", "failed"}
      /\ scattered' = scattered \cup {checkout[c].plan} \/ (scattered' = scattered /\ checkout[c].product = 0)
  <2>1. BuyStep(c)
    BY CheckoutEnds
  <2>2. /\ checkout[c].at \in {"find", "product", "price", "save"} /\ UNCHANGED <<price, product>>
        /\ scattered' = scattered \cup {checkout[c].plan} \/ (scattered' = scattered /\ checkout[c].product = 0)
    BY DEF SaveIdsFails, CheckoutFails, tables, provider
  <2>3. PICK at \in {"open", "failed"} : checkout' = [checkout EXCEPT ![c].at = at]
    BY DEF SaveIdsFails, CheckoutFails
  <2>4. checkout[c] \in CheckoutAt
    BY <2>2, CheckoutIsTyped
  <2>5. checkout'[c].at = at
    BY <1>0, <2>3, <2>4 DEF CheckoutAt
  <2> QED
    BY <2>1, <2>2, <2>3, <2>5
<1>2. SUFFICES ASSUME NEW p \in Plan \ scattered, p \notin scattered' PROVE Bought(p)'
  BY <1>1 DEF BoughtOnce
<1>3. ~Reading(c, p)'
  BY <1>1 DEF Reading
<1>4. CASE ~Reading(c, p)
  BY <1>1, <1>3, <1>4, OthersBought
<1>5. CASE Reading(c, p)
  <2>1. /\ \A d \in Customer : Reading(d, p) => d = c
        /\ \A k \in DOMAIN product : k # 0 /\ (product[k] = p => Keeps(k, p))
        /\ \A i, j \in DOMAIN product : (product[i] = p /\ product[j] = p) => i = j
    BY <1>5, OneReader
  <2>2. checkout[c].product = 0
    BY <1>1, <1>2, <1>5 DEF Reading
  <2>3. \A d \in Customer : ~Reading(d, p)'
    BY <1>1, <1>3, <2>1 DEF Reading, BuyStep
  <2>4. ASSUME NEW k \in DOMAIN product, product[k] = p PROVE Keeps(k, p)'
    <3>1. \E i \in Price : price[i] # None /\ price[i].plan = p /\ price[i].product = k
      BY <2>1, <2>2, <2>4 DEF Keeps
    <3>2. \E i \in Price : price'[i] # None /\ price'[i].plan = p /\ price'[i].product = k
      BY <1>1, <3>1
    <3> QED
      BY <3>2 DEF Keeps
  <2> QED
    BY <1>1, <2>1, <2>3, <2>4 DEF Bought
<1> QED
  BY <1>4, <1>5

ShopIInv == ShopInv /\ DefaultInv /\ BoughtOnce

\* The invariant holds at first,
LEMMA ShopStarts == ShopInit => ShopIInv
<1> SUFFICES ASSUME ShopInit PROVE ShopIInv
  OBVIOUS
<1>1. \A p \in Plan : Bought(p)
  BY DEF ShopInit, Bought, Reading, NoCheckout
<1> QED
  BY <1>1, ShopInvInit, DefaultInit DEF ShopIInv, BoughtOnce

\* after every request of an administrator,
LEMMA EditsKeep ==
  ASSUME ShopIInv,
         \/ \E p \in Plan : CreatePlan(p) \/ UpdatePlan(p) \/ DeletePlan(p)
         \/ \E a \in Admin : StartCreatePlanPrice(a) \/ CreateDefaultPrice(a) \/ StartUpdatePlanPrice(a)
                             \/ UpdateToDefault(a) \/ PromotionRefused(a) \/ EditFails(a)
         \/ \E p \in Plan, c \in Currency, n \in Cents : CreatePlanPrice(p, c, n)
         \/ \E i \in Price, n \in Cents, d \in BOOLEAN : UpdatePlanPrice(i, n, d)
         \/ \E i \in Price : DeletePlanPrice(i)
  PROVE  ShopIInv'
<1>1. ShopInv /\ DefaultInv /\ BoughtOnce
  BY DEF ShopIInv
<1>2. EditStep
  BY <1>1, RowEdits, PromotionsKeepDefaults, SettleIsEdit
<1>3. DefaultInv'
  BY <1>1, RowEditsKeepDefaults, CreatePlanKeepsDefaults, PromotionsKeepDefaults, SettlingKeepsDefaults
<1> QED
  BY <1>1, <1>2, <1>3, EditStepKeeps, EditKeepsBought DEF ShopIInv

\* when a customer asks for a plan, or is refused,
LEMMA AskingKeeps ==
  ASSUME ShopIInv, NEW c \in Customer, StartCheckout(c) \/ NoPrice(c)
  PROVE  ShopIInv'
<1>0. ShopTypes /\ (\A i \in Price : Listed(i) /\ Charged(i)) /\ \A d \in Customer : Knows(d)
  BY DEF ShopIInv, ShopInv
<1>1. /\ checkout[c].at = "new" /\ checkout[c] \in NewCheckout
      /\ UNCHANGED <<active, price, edit, product, recurring, blame, scattered, amounts>>
  <2>1. checkout[c].at = "new"
    BY DEF StartCheckout, NoPrice, NoCheckout
  <2>2. checkout[c] \in NewCheckout
    BY <1>0, <2>1 DEF ShopTypes, CheckoutAt
  <2> QED
    BY <2>1, <2>2 DEF StartCheckout, NoPrice, tables, provider, history
<1>2. PICK p \in Plan \cup {None} : checkout' = [checkout EXCEPT ![c] = [at |-> "new", plan |-> p]]
  <2>1. CASE StartCheckout(c)
    <3>1. PICK p \in Plan : checkout' = [checkout EXCEPT ![c].plan = p]
      BY <2>1 DEF StartCheckout
    <3>2. [checkout[c] EXCEPT !.plan = p] = [at |-> "new", plan |-> p]
      BY <1>1 DEF NewCheckout
    <3> QED
      BY <1>0, <3>1, <3>2 DEF ShopTypes
  <2>2. CASE NoPrice(c)
    BY <2>2 DEF NoPrice, NoCheckout
  <2> QED
    BY <2>1, <2>2
<1>3. /\ DOMAIN checkout' = Customer /\ checkout'[c] = [at |-> "new", plan |-> p]
      /\ \A d \in Customer \ {c} : checkout'[d] = checkout[d]
  BY <1>0, <1>2 DEF ShopTypes
<1>4. checkout'[c] \in NewCheckout /\ checkout'[c].at = "new"
  BY <1>3 DEF NewCheckout
<1>5. ShopInv'
  <2>1. ShopTypes'
    <3>1. \A d \in Customer : checkout'[d] \in CheckoutAt \cup NewCheckout
      BY <1>0, <1>3, <1>4 DEF ShopTypes
    <3> QED
      BY <1>0, <1>1, <1>3, <3>1 DEF ShopTypes
  <2>2. \A i \in Price : Listed(i)' /\ Charged(i)'
    BY <1>0, <1>1 DEF Listed, Charged, IsPriceOf
  <2>3. \A d \in Customer : Knows(d)'
    BY <1>0, <1>1, <1>3, <1>4 DEF Knows, IsPriceOf
  <2> QED
    BY <2>1, <2>2, <2>3 DEF ShopInv
<1>6. DefaultInv'
  BY <1>1 DEF ShopIInv, DefaultInv, Defaulted, Alone, Unpromoted, Promotes, DefaultsOf, PricesOf
<1>8. BoughtOnce'
  <2>1. SUFFICES ASSUME NEW q \in Plan \ scattered PROVE Bought(q)'
    BY <1>1 DEF BoughtOnce
  <2>8. \A d \in Customer : Reading(d, q)' <=> Reading(d, q)
    BY <1>1, <1>3, <1>4 DEF Reading
  <2>9. \A d \in Customer : Reading(d, q) => checkout'[d] = checkout[d]
    BY <1>1, <1>3, <1>4 DEF Reading
  <2>2. Bought(q)
    BY DEF ShopIInv, BoughtOnce
  <2>3. ASSUME NEW k, Keeps(k, q) PROVE Keeps(k, q)'
    <3>1. CASE \E i \in Price : price[i] # None /\ price[i].plan = q /\ price[i].product = k
      BY <1>1, <3>1 DEF Keeps
    <3>2. CASE \E d \in Customer : Reading(d, q) /\ checkout[d].at \in {"price", "save"} /\ checkout[d].product = k
      <4>1. PICK d \in Customer : Reading(d, q) /\ checkout[d].at \in {"price", "save"} /\ checkout[d].product = k
        BY <3>2
      <4>2. Reading(d, q)' /\ checkout'[d] = checkout[d]
        BY <2>8, <2>9, <4>1
      <4> QED
        BY <4>1, <4>2 DEF Keeps
    <3> QED
      BY <2>3, <3>1, <3>2 DEF Keeps
  <2>4. \A d, e \in Customer : Reading(d, q)' /\ Reading(e, q)' => d = e
    BY <2>2, <2>8, <2>9 DEF Bought
  <2>5. \A d \in Customer : Reading(d, q)' =>
           price'[checkout'[d].key] # None /\ price'[checkout'[d].key].product = 0
    BY <1>1, <2>2, <2>8, <2>9 DEF Bought
  <2>6. \A d \in Customer : Reading(d, q)' /\ checkout'[d].at = "product" =>
           \A k \in DOMAIN product : product[k] # q
    BY <2>2, <2>8, <2>9 DEF Bought
  <2>7. /\ \A k \in DOMAIN product : product[k] = q => Keeps(k, q)'
        /\ \A i, j \in DOMAIN product : (product[i] = q /\ product[j] = q) => i = j
    BY <2>2, <2>3 DEF Bought
  <2> QED
    BY <1>1, <2>4, <2>5, <2>6, <2>7 DEF Bought
<1> QED
  BY <1>5, <1>6, <1>8 DEF ShopIInv

\* after every step of a checkout,
LEMMA CheckoutsKeep ==
  ASSUME ShopIInv, NEW c \in Customer,
         \/ ReadPrice(c) \/ FindProduct(c) \/ FindProductFails(c) \/ NewProduct(c) \/ NewPrice(c)
         \/ SaveIds(c) \/ SaveIdsFails(c) \/ CheckoutFails(c)
  PROVE  ShopIInv'
<1>1. ShopInv /\ DefaultInv /\ BoughtOnce
  BY DEF ShopIInv
<1>2. ShopInv' /\ DefaultInv'
  BY <1>1, CheckoutBegins, ProductFound, ProductMade, PriceMade, IdsSaved, CheckoutEnds
<1>3. BoughtOnce'
  BY <1>1, BeginKeepsBought, FindKeepsBought, MakeProductKeepsBought, MakePriceKeepsBought,
     SaveKeepsBought, EndKeepsBought
<1> QED
  BY <1>2, <1>3 DEF ShopIInv

\* when nothing happens,
LEMMA ShopRests == ShopIInv /\ UNCHANGED shopVars => ShopIInv'
<1> SUFFICES ASSUME ShopIInv, UNCHANGED shopVars PROVE ShopIInv'
  OBVIOUS
<1> USE DEF shopVars, tables, provider, history
<1>1. ShopInv'
  BY DEF ShopIInv, ShopInv, ShopTypes, Listed, Charged, Knows, IsPriceOf
<1>2. DefaultInv'
  BY DEF ShopIInv, DefaultInv, Defaulted, Alone, Unpromoted, Promotes, DefaultsOf, PricesOf
<1>3. BoughtOnce'
  BY DEF ShopIInv, BoughtOnce, Bought, Keeps, Reading
<1> QED
  BY <1>1, <1>2, <1>3 DEF ShopIInv

\* and so always.
LEMMA ShopAlways == ShopSpec => []ShopIInv
<1>1. ShopIInv /\ [ShopNext]_shopVars => ShopIInv'
  BY EditsKeep, AskingKeeps, CheckoutsKeep, ShopRests DEF ShopNext
<1> QED
  BY <1>1, ShopStarts, PTL DEF ShopSpec

\* For any number of administrators and plans: a promotion that was alone leaves its
\* plan one default price, whatever it was created with, until somebody removes it or
\* another one gets in the way.
THEOREM OneDefaultAtATime == ShopSpec => []OneDefault
<1>1. ShopIInv => OneDefault
  <2> SUFFICES ASSUME ShopIInv, NEW p \in Plan, active[p] # None, Unpromoted(p), blame[p] = {}
               PROVE  Cardinality({i \in PricesOf(p) : price[i].default}) = 1
    BY DEF OneDefault, GetPlans
  <2>1. PICK i \in Price : DefaultsOf(p) = {i}
    BY DEF ShopIInv, DefaultInv, Defaulted
  <2>2. Cardinality(DefaultsOf(p)) = 1
    BY <2>1, FS_Singleton
  <2> QED
    BY <2>2 DEF DefaultsOf
<1> QED
  BY <1>1, ShopAlways, PTL

\* Whatever is edited while customers check out: each pays for the plan and in the
\* currency it asked for, an amount that the price has had.
THEOREM TheRightPrice == ShopSpec => []ChargesThePrice
<1>1. ShopIInv => ChargesThePrice
  BY DEF ShopIInv, ShopInv, Charged, Knows, ChargesThePrice
<1> QED
  BY <1>1, ShopAlways, PTL

\* A plan is one product at the provider, for any number of prices and checkouts,
\* unless two of them overlapped, one failed half-way or could not look for the product
\* that there was, or a price was deleted.
THEOREM ProductsAreFound == ShopSpec => []OneProduct
<1>1. ShopIInv => OneProduct
  BY DEF ShopIInv, BoughtOnce, Bought, OneProduct
<1> QED
  BY <1>1, ShopAlways, PTL
=============================================================================

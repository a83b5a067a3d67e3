# wacraft-server in TLA+

wacraft-server is a Go server (Fiber, GORM, PostgreSQL, optionally Redis) in front
of the WhatsApp Cloud API: it sends and receives messages, runs campaigns, forwards
events to webhooks, sells plans and meters its customers. This directory holds TLA+
models of the parts whose correctness depends on interleavings, failures and retries,
the TLC configurations that check them, and TLAPS proofs of the properties that matter
most.

Paths of code are relative to `src/` of the repository (`campaign/worker` is
`src/campaign/worker`), documents are called by their file names; `core` is the library `wacraft-core`, which is not part of it
and is modelled only from its use.

To check a model: `tlc -config MCInbox.cfg MCInbox.tla`; a proof: `tlapm
BillingProofs.tla`. `PROJECT.json` lists the components with their files, the
runs, one mutant per property (a plausible bug that the property finds), the source
lines of every definition, and under "hazards" every place found where this code is
hard to test, with the properties that watch it.

## 1. Inventory

| Component | State it keeps | Operations | What is hard | What makes it correct |
|---|---|---|---|---|
| Campaign run (`campaign/service`) | rows of `campaign_messages`, a cursor, result channel, sending flag | send, cancel, record errors; rows inserted and deleted meanwhile | one goroutine per row shares a cursor into a set that shrinks | no row is sent twice in a run; every row is accounted for, but those whose error could not be stored; the run returns and leaves nobody behind |
| Campaign scheduling (`campaign/worker`, `campaign/handler/schedule.go`) | `campaigns.status`, `scheduled_at`, lock, sending flag | schedule, unschedule, recover, poll, claim, run, store the outcome | several instances, crashes, requests that read and write in two statements | one run at a time; a finished campaign is idle; a due campaign is picked up |
| Boot and migrations (`database/...`) | the schema, goose's version tables, what each boot is doing | split of the version table, migrations up and down, AutoMigrate, serve | two boots at once, statements outside of goose's transaction, processes that die, rollbacks | who serves finds what the code needs; no record is lost; every boot ends up serving |
| Webhook delivery (`webhook/worker`, `webhook/service/queue.go`) | rows of `webhook_deliveries`, circuit breaker, lock | enqueue, poll, lock, attempt, retry, dead-letter, shut down | copies polled before the lock is taken, crash between request and save, circuit at the head of the queue | bounded number of requests; a settled delivery stays settled; every delivery is settled |
| Message and status handshake (`message/service`, `webhook-in/handler/whatsapp-message-status.go`) | channel or Redis list per message id, status lock, message and status rows | send, store, announce; receive a status, wait, link or drop it | a status may arrive before its message is stored; every wait has a timeout | no status of a stored message is lost; nobody is told something false; waits end |
| Incoming messages, contacts, channels (`webhook-in/handler/whatsapp-message.go`, `messaging-product`, `websocket/workspace-manager`, `message/handler`) | links of contacts, messages, clients and subscriptions | receive a callback, find or make the contact, store, announce; join and leave a channel; read pages, count, search | goroutines over one transaction, redelivery, announcements against pages | an answered callback is stored; nothing is announced that was rolled back; a reader who listens misses nothing, and knows the newest message of each conversation |
| Phone configurations, registration, media, templates (`phone-config`, `media`, `whatsapp-template`) | `phone_configs`, their products | create, change, take over, delete a configuration; register a phone; look phones up | check, deactivation and write are separate statements | an active number has one configuration and one product; a number and its token fit together; a workspace with one configuration uses that phone for everything |
| Subscriptions and payments (`billing/service/subscription.go`, `billing/service/payment`) | rows of `subscriptions`, the provider's sessions and subscriptions | checkout, activate, renew, cancel, reactivate, synchronise | events redelivered and reordered, rows read and saved whole | an active row was paid for and ends with what was paid; a row is pending once; what is paid becomes active |
| Plans and prices (`billing/handler/plan*.go`, `stripe.go`) | `plans`, `plan_prices`, the provider's products and prices | edit plans and prices, promote a default, check out | unset and set of the default in two statements; a checkout works with a row read long before | one default price; a customer pays what the price said; one product per plan |
| Throughput and plan cache (`billing/service/plan.go`, `throughput.go`, `billing/middleware`) | cache entries, counters of a time window, locks | resolve, invalidate, charge, fall back, report | a fill that races an invalidation; windows; failing caches | no more than the budget per window; one fill per key; what customers are told is true |
| Workspaces, members, invitations, users, registration, e-mail verification, password reset, tokens (`workspace`, `user`, `auth`) | users, links, tokens, workspaces, members with policies, invitations | register, verify, reset, log in; create, change and delete users and workspaces; invite, revoke, claim | checks before, writes in, a transaction | a token or an invitation that was used is of no use to who comes later; a workspace has an administrator; verified means the link was followed |
| Webhook management, configuration, the fields of campaigns and contacts | single tables, environment | CRUD | single statements | not modelled, see section 8 |

How they interact: an HTTP or WebSocket request or a callback of WhatsApp or Stripe
reaches a handler, after the middlewares for users and workspaces (Tenancy) and for
throughput (Throughput); handlers write the database and enqueue webhook deliveries;
the two background workers of every instance (started and stopped by `server/serve.go`)
poll the database. Instances share the database and, with `SYNC_BACKEND=redis`, locks,
flags, counters, caches and publish/subscribe channels (`synch/main.go`). A campaign
run sends each message through the same service as an API request, and so takes part in
the message/status handshake. Callbacks find their phone and product by the number
(Phones) and then store into the inbox (Inbox, MessageStatus).

## 2. Plan and how it stands

1. `CampaignSend`, `CampaignSendProofs`: one run, all interleavings of its goroutines.
2. `CampaignScheduler`, `CampaignSchedulerProofs`: the campaign across instances. A run
   is a span of time in it, whatever it does with the rows: what `CampaignSend` promises
   of one run is not used, because it depends on how the campaign is edited meanwhile.
3. `WebhookPromise`, what the owner of a webhook is promised; `WebhookDelivery`, the
   worker; `WebhookDeliveryProofs`, that it keeps the promise (a refinement).
4. `MessageStatus`, `MessageStatusProofs`.
5. `Subscription`, `Throughput`, `Catalog`, `BillingProofs`. The three modules have no
   name in common but the plans of `PlanNames`, so that one module can extend them all.
6. `Tenancy`, `TenancyProofs`; `Phones`, `PhonesProofs`; `Inbox`, `InboxProofs`.
7. `Migration`: model-checked.

Every invariant that a run checks is the subject of a theorem. Modules that are proved
about use functions, sets, records and folds and no `RECURSIVE`.

## 3. The modules

The `MC` module beside each one gives its constants small values. Every handler is
split into actions where another process can get in between: at each statement outside of a
transaction, and at each call of another service. A request's program counter and
what it has read are kept in `job`, `edit`, `checkout` or `work`.

### CampaignSend
`SendWhatsAppCampaign` and `SendWhatsAppCampaignMessage`
(`campaign/service/send-whatsapp-campaign.go`). Primary keys are random, only their
order matters: naturals. `unsent` is the set of rows with `message_id IS NULL`;
`offset` the shared cursor; `pc`, `row` the goroutines; `errCh` the buffered channel of
results. `Take` locks the cursor, selects the row at that position of the unsent rows in
key order and moves right; `Link` stores the message id, which removes the row from the
unsent set, and moves left. Each way to fail is an action: the query (`TakeFails`), no
sender data (`RejectRow`), the WhatsApp call (`SendFails`), storing the message after
WhatsApp accepted it (`StoreFails`), linking it (`LinkFails`). `RecordSendError` stores the error, or not: the error of
`AddSendError` itself is dropped (`send-whatsapp-campaign.go:167`), and the row is then in
neither list, which `unrecorded` remembers. `Finish` posts the result if the
channel has room. `InsertMessage` and
`DeleteMessage` are the requests that edit the campaign meanwhile (their handlers do not
look at the campaign's state). The counts and lists of the API (`CountSentMessages`,
`GetErrors`, ...) are operators that `RunIsAccounted` compares with the run's counters.

Two next-state relations: `Next` has every edit; `OrderlyNext` only edits that do not
disturb positions before the cursor (insertions after it, and no deletion of rows that a
goroutine holds). `AtMostOneSend` holds for the second and not for the first.

### CampaignScheduler
`schedule.go`, `create.go`, `send-whatsapp.go` and `scheduler-worker.go` for one
campaign. A request is two actions (`ScheduleRead`, `ScheduleWrite`, ...) because the
handler reads the row and writes it later. A worker boots (recovering running campaigns
or not), fetches due campaigns, locks, claims with a compare-and-set, sends, stores the
outcome and unlocks; each of these calls may fail. A client may start a run by hand; when
the campaign's status cannot be read, its request goes on (`ClientSendUnread`). Both
kinds of run look at the sending flag (`FlagIsClear`, `FlagIsSet`), set it in a call of its own (`SetSending`) and
clear it when they return (`RunEnds`). `raced` remembers that two were between those two
calls at once. A
crash loses everything in the process and, with Redis, leaves lock and flag behind until
they expire.

### Migration
The boot of an instance (`database/main.go`, `database/migrate`, `database/migrations`,
`database/migrations-before`) and the command line. `at` is where a boot is: split of
the version table, goose over migrations-before, AutoMigrate, goose over the others,
serving. The schema and the seeded rows are a set of facts `has`; each of the migrations
is an operator of the name of its Go function that says which statements it executes
outside of goose's transaction (one step each: `Statement`, and two for `CREATE INDEX
CONCURRENTLY`) and what its transaction does at the commit, depending on what the
function saw when it began. `rows` are goose's version tables in the order of their rows,
because goose takes the last applied row for the current version. `Crash` ends a process anywhere,
`Rollback` is `migrate:down` and `migrate:down-to`. A boot begins on a new database
(`virgin`), on one from before workspaces (`old`), on one with the single version table
(`shared`), or on the release before this one (`priced`).
Two migrations are SQL files (`20240701230403`, `20240702155508`) and are left out: going
up, each only drops or adds, if it has to, something no other migration and no fact of
`has` depends on, inside goose's own transaction, so that a boot which dies in one leaves
nothing of it. Going down, the first puts a NOT NULL back and fails when rows have none;
a rollback past both is therefore easier in the model than it can be.

### WebhookDelivery and WebhookPromise
`delivery-worker.go` and `queue.go` for the deliveries of one webhook. An instance polls
a batch (`Fetch` copies the attempt counters), gives jobs to a pool, and each job locks
(with Redis), asks the circuit breaker (`Admit` or `Refuse`), consumes throughput
(`QuotaExceeded`), calls the endpoint (`Execute`, `Answer`), records circuit state
(`Record`) and saves the whole row from its copy (`Save`, `SaveFails`). `Stop` lets
started jobs finish; `Crash` does not. `WebhookPromise` knows none of this: an event is
accepted, tried at most `MaxAttempts` times with one request or none, and settled for
good; an attempt is forgotten only when a process dies or the row cannot be written.
`KeepsPromise` maps the first to the second (`outcome` is computed from the jobs, the
other variables are the same).

### MessageStatus
One WhatsApp message id. `backend` and `caller` are chosen at the start: memory or
Redis; a request that waits for a status (`api`), one that does not (`local`), a
campaign. In memory, `channel` is the map entry and `ch` the channel a party took from
it; a send on an unbuffered channel meets a receive, so a rendezvous is one action
(`StatusReceived`, `SignalReceived`). In Redis, `tokens` and `savedKey` are the two
lists. `Lock` is the status lock of `synchronize-status.go`. `slow` counts timeouts
that fire although the other side is still coming. `GetWamID`, `GetStatuses` and
`CountStatuses` are what the queries then find.

### Inbox
`whatsapp-message.go`, `get-or-save.go`, `messaging-product/handler`, the queries of
`message/service` and `workspace-manager`. A callback opens a transaction (`Receive`);
its messages are handled by goroutines (`Look`, `CreateLink`, `Store`, `Silence` for
a blocked contact); rows carry `tx`, the callback that wrote them, until `Commit`, and only
it sees them before. An insertion that meets a row another open transaction has put back
waits for it (the guard of `Store`). `CallbackFails` and `AnswerLost` make WhatsApp post
the callback again. `BroadcastToWorkspace` and `Deliver` carry announcements to the instances that
have subscribed. Both may fail with a line in the log (`PublishFails`, `DecodingFails`),
and a process may die between the commit and the announcement (`InstanceDies`); `lost`
remembers who was not told of what, and `deaf` the instances whose subscription failed.
A client joins (`AppendClient`, `subscribeWorkspace` or `SubscribeFails`), leaves
(`RemoveClient`, `Unsubscribe`), chooses a query and reads it page by page (`GetPage`), or until
it has as many rows as the count says (`GetCount`). The queries are operators of their Go
names (`messageRoutes`, `conversationRoutes` list them); `hits` says which message a pattern is
found in, for each of the three data columns and for the three put together, where a
pattern can reach from one column into the next. Operators send messages (contact read,
WhatsApp called, then `SaveSent` or `SendFails`) and block, unblock, make and delete contacts
meanwhile.

### Phones
`phone-config/handler/main.go`, `phone-config/service`, and the migration that makes a
configuration of the phone in the environment (`CreateDefault`, `Associate`). A request to create or
change a configuration is `StartCreate` or `StartUpdate` (what it reads, and WhatsApp's
answer), `Deactivate` and then `Insert` or `Write`. `Ask` is any of the registration
handlers: it reads a configuration and calls WhatsApp with what it read. The lookups of media,
templates, typing and read marks are operators of their Go names, compared by `OnePhone`
with the phone by which messages go. `OnePhone` is about workspaces that have one
configuration, which is what the handler of the creation enforces (`main.go:81`);
`multi_tenant/implementation_summary.md:11` promises several for a workspace, and for those
the lookups would not agree: media and templates go by the first configuration.

### Subscription
`billing/service/subscription.go`, the Stripe callback, and the requests of the
users, for one checkout. `row` are the rows of `subscriptions` with its
`payment_external_id`; `stripe` what the provider knows; `outbox` the events it has not
seen answered with 200. `job` is what each request that is being handled holds in
memory: its event, the row it read (`copy`) and what the provider told it (`told`).
A handler is a sequence of single statements: `Checkout`, `CreatePending`;
`FoundActive`/`FoundNoActive`, `FindPending`, `Activate` or `CreateActive`;
`FindRenewable`, `Renew`; `FindEnded`, `MarkCancelled`; `SyncRead`, `SyncAsk`,
`SyncPending` or `SyncActive`; `CancelRead` or `ReactivateRead`, `AskProvider`,
`FlagRow`. `Save` writes every column of the copy, as GORM's `Save` does, `FlagRow` and
`FlagRows` one column. `Acknowledge` is the answer, after which an event may still
be posted again; `Fail` is a failed statement or call, or the end of the process;
`Misread` the error that `ActivateSubscription` takes for "not found". Time
is counted in periods of the plan: an invoice is paid or becomes overdue before the next
period begins, so every date in the model is one the provider can name.

### Catalog
Administrators edit plans and prices while customers check out. A plan is created with
any prices, any number of which are defaults (`CreatePlan`). Promoting a default
price is two actions, the update that unsets the others and the write
(`StartCreatePlanPrice`, `CreateDefaultPrice`; `StartUpdatePlanPrice`,
`UpdateToDefault`); a checkout finds the plan (`StartCheckout`), reads a price
(`ReadPrice`, `NoPrice`), looks for a product (`FindProduct`; a lookup that fails counts
as one that finds nothing, `FindProductFails`), makes one (`NewProduct`) and a price (`NewPrice`) at the provider and
saves their ids (`SaveIds`), each of which may fail. `blame` remembers why a plan may
have no default, or several: it was created so, one was removed, a promotion failed, was refused, raced another one
or came by the path of another plan.

### Throughput
A request reads its weight, then the budget of its scope, through caches (`CacheHit`;
`CacheMiss`, `Lock` with its second look, `QueryDB`, `Store`), charges it (`Charge`),
goes on to the user's budget or to the fallback for upgrades (`ChargeFallback`), or
is refused. Subscriptions, plans and weights change, entries are dropped or expire,
locks expire, time passes (`ClockTicks`), and every call of Redis may fail. `GetUsage` and the
headers are what customers are told.

### Tenancy
`auth`, `user`, `workspace`: a request passes its middlewares and first checks
(`StartRegister`, `StartClaimInvitation`, ...), and writes in one transaction later
(`Register`, `ClaimInvitation`, ...) with what it read kept in `job`. Deleting a user or
a workspace takes its rows along (foreign keys). A policy row carries the number of the
change that inserted it, so that two concurrent updates can be told apart. Links, tokens
and sessions expire at any time.

## 4. Runs

The properties are defined, each with a comment, at the end of each module.

| Run | Bounds | What it shows |
|---|---|---|
| campaign_send | 3 rows, one of them without sender data | with orderly edits no row is sent twice, a clean run accounts for every row or could not store its error, no goroutine finds the campaign empty or outlives the run, a run returns |
| scheduler | 2 instances on Redis, each with a client, a request, 1 crash | one execution at a time, no finished status under a running worker, runs of workers and clients overlap only when two pass the check of the flag at once, a due campaign is claimed |
| migration | 2 instances, 4 kinds of database, 1 crash, 1 rollback | who serves finds all it needs, the split loses no record, every instance ends up serving but in two known states |
| webhook | 1 instance, 2 deliveries, 2 attempts, batch and pool of 1, 2 faults | the worker implements `WebhookPromise`, and every delivery is settled |
| webhook_redis | 2 instances with the lock, 1 delivery, 3 faults | mutual exclusion; an open delivery has a retry left although copies go stale |
| message_status | 3 statuses, 5 channels, 2 early timeouts, 1 failed insertion | answers are true, no status is lost, channels are there while needed and then gone, handlers are released; both back ends, all callers |
| inbox | a callback of 2 messages of one number delivered up to twice, 2 instances, 1 client with a choice of 4 queries, 1 request of an operator, 1 failure, pages of 1 | an answered callback is stored, a conversation splits only by a race, a client that reads to the end misses only what a logged failure kept from its instance, and knows the newest message of each conversation |
| phones | 2 workspaces, numbers and tokens, 3 requests by 2 workers, 1 failure | an active number is served by one product, a configuration is vouched for, a workspace has one unless two were created at once, and with one uses that phone for everything |
| subscription | 2 requests at a time, 2 rows, 1 request of the user, 1 fault or repetition, 1 period, both payment modes | paid for before active, never longer than paid for, pending only once, a payment is honoured |
| catalog | 2 plans, 2 currencies, 2 administrators, 2 checkouts, 2 edits, 1 failure | one default price where nothing is to blame for another number, the price that is charged, one product per plan |
| throughput | 2 requests, 2 windows, 1 change, 1 failure | budgets hold and what is reported of them is true, one fill per key, requests end |
| tenancy | 2 requests of any of 17 kinds, 4 users, 2 workspaces, 1 failure, 1 expiry | verified means the link was followed, what was used is out of reach of later requests (a third one is looked at once something was used), a workspace has an administrator until one is changed or removed |

Why these bounds suffice. Three rows are needed for a goroutine to take a row between two
others that link and fail. Two instances, requests or administrators are needed for every
race; in each model a third would repeat the part of the second, because every race here
is between what one process read and what another wrote. One crash or failure puts each
of them between every two steps, and the recovered process is again a fresh one. A batch
and a pool of one make the head of the queue matter with two deliveries. Three statuses
are one that meets the sender, one that waits for the lock meanwhile, one that comes
late; a channel more than there are parties means a fresh one can always be made. Two
requests and one user request put a synchronisation or a cancellation between any two
statements of an event's handler, one fault makes an event come twice or a pending row be
missing, and with one period there is a renewal, a failed payment and an end. Two windows
are a counter and the one after it. Pages of one make every row that
arrives while a client reads push another to a page that has been passed. The four
databases are those the migrations treat differently. `Spread` bounds how far two
concurrent boots may be apart: with 1 both are always within one migration of each
other, which is where they meet in the same one; a run with 2 (5.1 million states, too
long to be repeated every time) shows nothing else. Whoever rolls back is assumed to stop
the servers first (`Start` waits), as rolling the schema back under them would break them
anyway. `CHECK_DEADLOCK FALSE` is set because every model may come to rest: the run has
returned, the deliveries are settled, the requests are used up.

Each module also defines `TypeOK`. The proofs use it in the modules that have proofs; the
runs leave it out, to ask of the state space only what could be wrong.

## 5. Expectations the code does not meet

Each of these is a property that a comment, a document or an answer of the program
suggests and that the model refutes; the configuration named shows how. They are kept
beside the runs and not among them: `tlc -config MCCatalog_DefaultIsKept.cfg
MCCatalog.tla` ends with the behaviour.

| Property, configuration | What is said | What happens |
|---|---|---|
| `AtMostOneSend`, `MCCampaignSend_AtMostOneSend` | `campaign/service/send-whatsapp-campaign.go:137` "Gets first message not sent at campaign" | `:157` picks by position: rows inserted or deleted in front of the cursor make a run send one twice |
| `UnscheduleNeverWhileRunning`, `MCCampaignScheduler_...` | `campaign/handler/schedule.go:122` "Cannot unschedule a campaign that is currently running." | `:130` overwrites the status that was read before |
| `OneRunPerCampaign`, `MCCampaignScheduler_...` | `campaign/service/send-whatsapp-campaign.go:37` "campaign is already sending" | `:36` looks at the flag and `:41` sets it: two runs that look before either sets it send the same rows |
| `OnlyOpenIsExecuted`, `MCWebhookDelivery_...` | `webhook/worker/delivery_worker_test.go:87` "idempotency is handled at the DB layer in production"; `docs/features/horizontal_scaling/requirements.md:77` "MUST ensure each pending delivery is processed by exactly one instance" | `delivery-worker.go:147` works from a row polled before the lock: a delivery that succeeded is sent again |
| `SavedIsAnnounced`, `MCMessageStatus_...` | `message/service/synchronize-message-and-status.go:19` "You must call MessageSaved after this function" | `whatsapp.go:212`: with the caller's transaction nothing is announced, and a status of a campaign message is dropped |
| `OneActivePerPayment`, `MCSubscription_...` | `billing/service/subscription.go:105` "Idempotency: if already active for this externalID, return it" | `:106` and `:115` read, `:132` and `:171` write: a synchronisation in between leaves two active rows |
| `ReloadAfterInvalidation`, `MCThroughput_...` | `billing/service/endpoint-weight.go:42` "forces a reload of endpoint weights on next access"; `throughput_testing_guide.md:507` "no stale data served after invalidation" | a fill that read before the change stores its value after the invalidation |
| `TokenUsedOnce`, `MCTenancy_...` | `docs/features/auth/README.md:194` "one-time use" | `auth/handler/password-reset.go:120` reads the token and `:159` marks it: two requests that read before either marks both set a password |
| `ListenersHear`, `MCInbox_...` | `websocket/workspace-manager/main.go:15` "every broadcast is published to the distributed channel so all instances deliver it to their local WebSocket clients" | a subscription, an encoding or a publication that fails is logged (`:107`, `:60`, `:64`), and a process may die before it announces what it committed: clients that listen are not told |
| `OneConfigEach`, `MCPhones_...` | `phone-config/handler/main.go:81` "Enforce single phone config per workspace" | `:82` counts and `:144` inserts: two requests make two configurations, and media go by another phone than messages |
| `NeverTwoDefaults`, `MCCatalog_...` | `multi_currency_plan_pricing_implementation_summary.md:41` as below | `billing/handler/plan.go:105` inserts every price of the request as it is: any number of them is the default |
| `DefaultIsKept`, `MCCatalog_...` | `multi_currency_plan_pricing_implementation_summary.md:41` "Exactly **one** `PlanPrice` per plan should have `is_default: true`" | the default is unset, and then the insertion refused: none is left |
| `AlwaysBoots`, `MCMigration_...` | no document says it; whoever restarts an instance relies on it | a crash between the creation of the new version table and its row 0, or `migrate:down-to 8` and a boot: no boot comes through any more |
| `IndexesAreEnsured`, `MCMigration_...` | the log "all indexes ensured" of the migrations | a crash during `CREATE INDEX CONCURRENTLY` leaves an invalid index that `IF NOT EXISTS` keeps |

### Noticed while modelling

- Campaigns: the error of `AddSendError` is dropped (`send-whatsapp-campaign.go:167`), so a
  row that was attempted may be in no list but that of the unsent; a cancelled run is stored as completed (`scheduler-worker.go:248`; the
  campaign guide says failed); recovery resets running campaigns of other live instances
  (`:120`); after a crash the sending flag left in Redis refuses the recovered run until
  it expires; when the last update of the status fails the campaign stays "running"
  until a restart; the join of `DeleteMessage` is not part of gorm's `DELETE`.
- Webhooks: a delivery over quota writes no log entry (`delivery-worker.go:183`;
  `webhook_throughput.md:115` lists one); the back-off shifts by `attempt_count - 1` and
  would overflow from about 34 attempts on, which no configuration allows; a
  delivery whose webhook is gone dereferences nil (`queue.go:180`).
- Statuses: `MessageSaved` after a premature timeout sends on a missing channel.
- Subscriptions: a renewal or synchronisation that read a row before it was cancelled
  saves it as active again (`subscription.go:296`, `:461`); a late `invoice.paid` shortens
  `ExpiresAt` (`:295`); a `checkout.session.completed` that comes again after the
  cancellation creates a new active row; a renewal that fails is answered with 200;
  cancelling a pending row sets a flag the provider never hears of (`:224`); a cancelled
  row that is linked can still be synchronised, though
  `eager_subscription_creation_implementation_summary.md:115` refuses terminal ones.
- Throughput: a request may query the database twice and be charged twice, where the
  documents say "Only one DB query" and "Only one scope is charged per request"; a default
  limit of 0 blocks everything (`DefaultFreeInfo`), though "<= 0 means unlimited"; windows
  of different lengths that begin at the same time share a counter (`throughput.go:57`).
- Accounts: `ResendVerification` sends nothing and says it did; two concurrent requests,
  or one whose deletion fails unnoticed (`password-reset.go:66`), leave two tokens; two concurrent requests
  invite one address twice (`invitation.go:29` answers 409 "User already member or pending
  invite" otherwise); concurrent updates of policies leave the union; a revoked invitation is inserted again by a claim that had
  read it; `CreateUser` keeps the address as it was typed, unverified and without a link;
  a verification mail is started before the commit.
- Inbox: a callback whose answer is lost stores its messages twice; two first messages
  of a number make two conversations; an association save inserts a link that was deleted
  meanwhile; `len(Contacts) >= index` admits `index = len` (`whatsapp-message.go:246`).
- Catalog: the cached price of the provider keeps the old amount after `UpdatePlanPrice`;
  a promotion by another plan's path unsets the wrong default; when the ids cannot be saved,
  the next checkout makes a second product, and so does one whose lookup fails
  (`stripe.go:164` takes any error for "no product").
- Phones: `multi_tenant/implementation_summary.md:11` says "Each workspace can have multiple
  WhatsApp phone configurations", and the handler refuses a second one
  (`phone-config/handler/main.go:81`); creating an inactive configuration deactivates the others of the number; the
  cache of API clients is commented out (`multi_tenant/implementation_summary.md:134` says
  cached); typing and read marks dereference nil when the first product of a workspace
  has lost its phone.
- Migrations: renaming (version 3) never moves data because AutoMigrate creates the new
  column first; a new database gets no default workspace; two first starts can make two
  products; `down-to 0` deletes the super user with its memberships, and the workspace
  migration is not run again; the rollback of 15 can wait for its own row lock.

## 6. Fairness

- CampaignSend: goroutines are scheduled, their calls return one way or the other, and
  the caller consumes results (weak fairness). Edits need not happen.
- CampaignScheduler: time passes and keys expire; a running process makes progress and a
  dead one is started again. A statement or lock request that is repeated at every poll
  succeeds at some point (strong fairness on `Fetch`, `TryLock`, `Claim`): without it a
  database that fails for ever keeps the campaign queued, and should.
- WebhookDelivery: the same, plus strong fairness on `Lock` and `Admit`: the worker
  polls every few seconds for ever, and an open circuit lets one job through after its
  recovery timeout. A delivery may still be refused any finite number of times.
- MessageStatus: goroutines run and timers fire. Nothing is assumed of the order.
- Subscription: a request that was taken up goes on (weak fairness on `HandlerStep`),
  and the provider posts the event of a payment again until it is answered (strong
  fairness on its delivery, because the server may be busy in between). Users, other
  events and the provider's clock owe nothing.
- Throughput: a request goes on, one that waits for a lock that is free again and again
  gets it (strong fairness: the lock is polled), and the lock of a dead process expires.
- Migration: a process that runs makes progress and one that ended is started again. The
  compose file restarts only the database, so this is the operator's or orchestrator's part.

Crashes, failures, rollbacks and early timeouts are never fair and are bounded by
`MaxCrashes`, `MaxFaults`, `MaxOutages`, `MaxRollbacks`, `MaxSlow` and `MaxFailures`.

## 7. Proofs

The theorems hold for every value of the constants that satisfies the named assumptions,
and without the bounds of the runs having any particular value.

- `CampaignSendProofs`: `TypeCorrect`; `NoRowIsSentTwice` (under orderly edits) from
  `CursorInv`: an unsent row before the cursor is held by a goroutine, or failed and
  will not be looked at again, no two goroutines took the same row, and WhatsApp
  accepted only rows that somebody took. `AtMostOneSend` alone is not inductive: it says
  nothing of where the cursor is. `RunNeverRunsDry` (any edit but deletions) counts: the
  goroutines that have still to take a row are no more than the unsent rows from the
  cursor on; the arithmetic needs the cardinality lemmas of `FiniteSetTheorems`.
  `NobodyOutlivesTheRun` follows: no goroutine posts "no messages", so as many results
  as goroutines are consumed before the run returns. `EveryRunIsAccounted` (orderly
  edits) from `AccountInv`, which also counts: the successes shown to the clients and
  those still in the result channel are as many as the sent rows in the table, and the
  row of a goroutine that ended is found among the sent rows, the errors or the rows
  without sender data, or its error could not be written and it is still unsent.
- `CampaignSchedulerProofs`: the first two under `Protected`, the two deployments the code
  is written for: instances that share Redis with a lock that outlives the run, or one
  instance. `OneRunAtATime` and `FinishedIsFinished` from `OwnerInv`: from `TryLock` to
  `Unlock` the worker has the campaign to itself, because with Redis it holds the lock;
  `OneSchedulerRun` says nothing of who is about to execute. `RunsStayApart`
  needs only that all senders look at one flag (Redis, or one instance); the lock may
  expire. From `RunsInv`: as long as nobody raced, a run that is sending has the flag set
  and is the only one past its look at it, so that neither a crash, nor the flag it leaves
  behind, nor its expiry makes a gap for another run.
- `WebhookDeliveryProofs`: `EveryOpenHasBudget` (any number of instances, stale copies
  included) is inductive together with the types; `LockExcludes` from "whoever has
  started holds the lock", assuming the lock is used and outlives the work;
  `RequestsAreBounded` and `SettledStays` for one instance, from `CopyInv`: a copy in
  use equals its row, which is still open. `PromiseIsKept` is the refinement, for one
  instance: initial states map to initial states, and under the same invariant each
  action of the worker is a step of `WebhookPromise` or leaves its variables alone.
- `MessageStatusProofs`: `AnswersAreTrue` from `AnswerInv`: only the holder of the
  status lock is inside, what the sender signals and what Redis holds is what happened
  to the row. `ChannelIsThere` and `StatusesAreKept` from `ShakeInv`, which has two
  parts. `ChannelInv`: the map entry is there exactly while a call needs it, and parties
  hold the channel they took. `MeetInv`, for as long as no timeout fired early: all
  parties are on one channel, whoever owes an announcement has a handler that waits for
  it, and no handler has given up on a row that is, or may still be, stored. There are
  more channels than parties, so that a new one is always fresh (the pigeonhole of
  `FreshChannel`).
- `BillingProofs`, subscriptions: `NobodyGetsItUnpaid`, `NoPeriodIsFree` and
  `PendingStaysLeft` from `PurchaseInv`. None is inductive by itself, because rows are written from copies:
  the invariant says the same of every copy in memory as of every row (`Sound`), of
  every event on its way that it announces what happened (`SoundEvent`), and of every
  answer of the provider that it is a past state of it. `Grows` orders the provider's
  states (a payment is never taken back, the paid end only moves on), and everything
  sound stays sound when the provider grows. No assumption is needed on the number of
  requests, rows or failures.
- `BillingProofs`, throughput: `HerdStays` from `FillersHold`: as long as nothing failed,
  whoever fills an entry holds the lock of its key and the entry is not there. Without
  the second half, a request that gets the lock next could query again. `BudgetIsKept`
  from `Budget`: what passed in the current window has been counted, the counter is there
  until the window ends, and nothing has passed in windows to come. The counter of a
  window is gone before its time only if another plan's shorter window began at the same
  instant and set the time to live: hence its hypothesis `OneLength`, all windows have one
  length, which is also what the run checks. Nothing is claimed of windows of several
  lengths: they share counters. The limits of a customer's subscriptions are a sum
  over a finite set; that it is a number is proved with `SumIsThere` and `SumIsInteger`.
- `BillingProofs`, catalogue: `TheRightPrice` from `ShopInv`: what a row keeps of the
  provider is its own, and what a checkout has read of a row or made for it fits it.
  `OneDefaultAtATime` from `DefaultInv`: a plan that nobody promotes a price of, and
  nobody is to blame for, has one default (`Defaulted`), and while a promotion is alone
  its plan has no other default than its own (`Alone`). `ProductsAreFound` from
  `BoughtOnce`: every product of a plan is kept by one of its rows or by the one checkout
  that is about to write it. Each request of an administrator is first shown to be an
  `EditStep` and each step of a checkout a `BuyStep`, which say what happens to the rows
  and hide the handlers. The first attempt at `OneDefaultAtATime` failed: in the
  model, the id of a deleted plan could be given to a new one while a promotion still
  named it. Ids are random, so `CreatePlan` now takes one that no promotion names.
- `TenancyProofs`: `TablesAreWhole`, `LinkAndUserAgree`, `UsedOnce`,
  `SomebodyAdministers` from `TenancyInv`: the tables and their references (`Tables`),
  ids that are never given twice (`Known`: without it a token that was spent could come
  back as a new row), and of every waiting request that what it read has its shape and
  names ids that were given (`Jobs`). An invitation is written back from a copy that may
  be old, but always marked as used, so nothing has to be said of how old the copy is:
  a request that begins after the first use finds the token or the invitation used, and
  whoever uses it all the same is one of those that had read it (`SpentStep`).
  The rows at the start are a constant of which `StartAssumption` says what any database
  satisfies whose rows this program wrote: references lead somewhere, who has a link is
  not verified, and every workspace has its creator.
- `PhonesProofs`: `PhonesAreWhole`, `NumbersStayServed`, `PairsAreVouched`,
  `OnePhoneEach` from `PhonesInv`. `NumberIsServed` alone is not inductive: who deletes
  or deactivates must know that the number is marked as lost, and between the two
  statements of a takeover the request that took it away is the reason why it has no
  configuration (`SomeActive`). `WritesFit` says of every request what it is going to
  write, together with the row as it is now: as long as no second request came for the
  row, the columns that stay and those that are replaced fit together. `OneEach` does
  the same for the requests that found a workspace without phone. That the lookups agree
  follows for every workspace that has one configuration, also after it had two.
  `OnlyDefault` is the start of the server, until it serves.
- `InboxProofs`: `RowsAreWhole`, `AnswerMeansStored`, `OnlyRacesSplit`, `NobodyMisses`
  and `NewestAreKnown` from `InboxInv`. The heart of the last two is `Covered`: a stored row
  that the client's query selects is known to the client, on the way to it, kept from its
  instance by a failure, or still on a page it has not read, where the last is
  a count, `Before(Selection, r) >= asked * PageSize`. A row that is added pushes others to
  later positions and never to earlier ones, so nothing falls between two pages
  (`SelectionGrows`; in the list of conversations a message also takes the place of an older one of the
  same partner, and `TopsGrow` shows that positions grow there too);
  `ShortPageIsLast` says that a page that is not full is the last one, by counting the
  positions of a page as an interval. `Channels` says who may open and close a
  subscription (the manager's lock makes it one at a time). The order of rows needs a
  first and a last element of sets of numbers (`MinIsThere`, `MaxIsThere`), which come
  from the well-foundedness of strict subsets instead of an induction. The first attempt
  at `RowsAreWhole` failed for two callbacks, and rightly: a link that an operator
  deleted can be put back by two associations at once, and the model let the second one
  refer to the uncommitted row of the first, which a rollback takes away; PostgreSQL
  lets it wait.

What is assumed of constants is named where they are declared and evaluated by every
run: that `None` is not a row, a key or an id; that sets that are counted are finite;
that ids are naturals; that every message belongs to one callback; that the rows at the start
are ones this program can have written.

Only model-checked:

- Liveness (`RunReturns`, `DueCampaignLeavesQueue`, `Boots`, `DeliveryResolves`,
  `StatusSettles`, `PaymentIsHonoured`, `RequestEnds`): out of the prover's reach.
- `AtMostOneSend`, `RunIsAccounted` without orderly edits, the scheduler without
  `Protected`, and one delivery at two instances: false or not claimed there, see
  section 5.
- `StartsComplete` and `SplitKeepsRecords` of Migration. Nothing puts them out of the
  prover's reach; they are not proved yet. An inductive invariant has to say, for each of
  the fixed migrations and each point at which a boot can stop in it, which facts of the
  schema its statements have left and which versions each table records. The run goes
  through all of these points for two instances, with at most one crash and one rollback.

## 8. Assumptions, and what is not modelled

- The lock of `core` is exclusive, and `LiveLockExpires = FALSE` says that it does not
  expire while its holder is at work. The worker's lock has a time to live and nothing in
  this repository renews it; whether `core` does cannot be seen here.
- The circuit breaker of `core` follows the table of the webhook documentation: opens at
  a threshold of consecutive failures, lets a request through after a timeout, closes on
  success.
- PostgreSQL is READ COMMITTED, transactions are all or nothing, unique indexes and
  foreign keys are those the code and its migrations rely on. goose and gorm are modelled
  from their use; AutoMigrate is one step.
- A payment at the provider is final, and the provider renews or gives up a
  subscription at the end of its period. The session's event is sent when it is paid:
  payment methods that settle later are not modelled. Manual subscriptions, the customer
  id stored on the user and the retry URL do not touch the rows of a checkout.
- One workspace, one phone (Inbox), one endpoint (Throughput), one campaign
  (CampaignScheduler), one webhook (WebhookDelivery), one message id (MessageStatus): the
  code keys its locks and rows by them, and nothing reaches across.
- The pool of database connections is not modelled: a handler that keeps a connection
  while it waits for another party that needs one is not seen to starve it.
- Sleeping, time stamps and back-off are reduced to "due or not", except for windows.
- What a message contains, how it is formatted, names, slugs and mails are left out.
- Not modelled, because each is one statement over one table without anything that
  depends on its order: the management of webhooks, the names and fields of campaigns and
  contacts, `last_read_at`, filters by date and searches in what a status contains. Not
  modelled, because they are configuration of a library: rate limits and lists of
  addresses. Not modelled, because nothing here runs them: the down functions of
  migrations-before, `GetWorkspaceWhatsAppAPI`, `EnqueueDeliveryWithCustomKey`. The
  generated API documentation (`docs/docs.go`) and the routers' tables have no behaviour.
  Files, transfers of media and the provider's interface keep no state here.

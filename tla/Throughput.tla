----------------------------- MODULE Throughput -----------------------------
(***************************************************************************)
(* How requests are metered: each is charged its weight against a budget   *)
(* per window of time, first its workspace's, then its user's, and for the *)
(* routes on which a customer buys a bigger plan a budget of their own.    *)
(*                                                                         *)
(* Budgets and weights are read through caches whose entries live for five *)
(* minutes: a miss takes the lock of the key, looks again, queries the     *)
(* database and stores the answer.  Requests that change a subscription or *)
(* a weight drop the entry afterwards; those that change a plan, and time, *)
(* which ends subscriptions, do not.  Locks, caches and counters are       *)
(* shared by the instances (Redis) and every call of them may fail.        *)
(*                                                                         *)
(* One workspace, one user and one endpoint.  A tick of the clock divides  *)
(* every window; weights and limits are small numbers.                     *)
(***************************************************************************)
EXTENDS Integers, FiniteSets, FiniteSetsExt, PlanNames

CONSTANTS
    Request,        \* requests handled at the same time
    Default,        \* the name of the default free plan
    Info,           \* what a plan may offer: limits and windows
    EnvDefault,     \* the same from DEFAULT_FREE_PLAN_*, without a default plan
    Initially,      \* plan -> what it offers at the start
    Kinds,          \* kinds of requests that arrive
    Weight,         \* weights an administrator may give the endpoint
    Window,         \* length of the windows WithinBudget speaks about
    MaxTime, MaxArrivals, MaxChanges, MaxOutages

Limited(i) == [limit |-> i.limit, window |-> i.window, unlimited |-> FALSE]

ASSUME ThroughputAssumption ==
    /\ None \notin Request \cup Plan \cup Info /\ Default \in Plan
    /\ Info \subseteq [limit : Int, window : Nat \ {0}] /\ EnvDefault \in Info
    /\ Initially \in [Plan -> Info] /\ IsFiniteSet(Plan)
    /\ Kinds \subseteq {"api", "upgrade", "callback", "delivery"}
    /\ Weight \subseteq Nat \ {0} /\ Window \in Nat \ {0}
    /\ MaxTime \in Nat /\ MaxArrivals \in Nat /\ MaxChanges \in Nat
    /\ MaxOutages \in Nat

VARIABLES
    plan,        \* name -> what the plan offers now
    sold,        \* scope -> plans of its active subscriptions
    weight,      \* row of endpoint_weights, None: the default of 1
    cache,       \* key -> entry
    lock,        \* key -> request that holds the lock of the key
    stale,       \* keys whose entry a handler has still to drop
    count,       \* counters: key and start of the window -> value
    deadline,    \* counters: when they expire
    clock,
    req,         \* request -> where it is, and what it holds in memory
    outages, changes, arrivals,
    admitted,    \* weight let through on a key in a window (history)
    granted,     \* largest limit it was compared with (history)
    upgrades     \* weight of the requests that used the fallback (history)

data  == <<plan, sold, weight>>
meter == <<count, deadline, admitted, granted, upgrades>>
bound == <<outages, changes, arrivals>>
meterVars  == <<data, cache, lock, stale, meter, clock, req, bound>>

Scope == {"workspace", "user"}
Key   == Scope \cup {"weights"}          \* of caches and their locks
Meter == Scope \cup {"user-fallback"}    \* of counters
Time  == 0..MaxTime
Never == MaxTime + 1

\* Requests: of a member in a workspace, on a route for upgrades outside of any
\* workspace, a callback of WhatsApp, and the delivery of a webhook.
isFallbackRoute(kind) == kind = "upgrade"

FirstScope(kind) == IF isFallbackRoute(kind) THEN "user" ELSE "workspace"

Steps == {"idle", "look", "wait", "query", "store", "charge", "fallback"}
NoReq == [step |-> "idle", kind |-> "api", key |-> "weights", weight |-> 1,
          answer |-> None, locked |-> FALSE]

MeterInit ==
    /\ plan = Initially
    /\ sold = [s \in Scope |-> IF s = "workspace" THEN Plan \ {Default} ELSE {}]
    /\ weight = None
    /\ cache = [k \in Key |-> None] /\ lock = [k \in Key |-> None]
    /\ stale = {}
    /\ count = [b \in Meter \X Time |-> 0]
    /\ deadline = [b \in Meter \X Time |-> Never]
    /\ clock = 0
    /\ req = [r \in Request |-> NoReq]
    /\ outages = 0 /\ changes = 0 /\ arrivals = 0
    /\ admitted = [b \in Meter \X Time |-> 0]
    /\ granted = [b \in Meter \X Time |-> 0]
    /\ upgrades = [t \in Time |-> 0]

-----------------------------------------------------------------------------
(***************************************************************************)
(* What the database says.                                                 *)
(***************************************************************************)
DefaultFreeInfo ==
    Limited(IF plan[Default] = None THEN EnvDefault ELSE plan[Default])

Unlimited == [limit |-> 0, window |-> 1, unlimited |-> TRUE]

\* Limits of the active subscriptions add up, their smallest window counts, and
\* one plan without a limit is enough.  A deleted plan does not count.
queryThroughput(s) ==
    LET plans == {p \in sold[s] : plan[p] # None}
    IN CASE plans = {} -> DefaultFreeInfo
         [] \E p \in plans : plan[p].limit <= 0 -> Unlimited
         [] OTHER -> [limit |-> MapThenSumSet(LAMBDA p : plan[p].limit, plans),
                      window |-> Min({plan[p].window : p \in plans}),
                      unlimited |-> FALSE]

\* What the table says of the endpoint; without a row it weighs 1.
GetEndpointWeight == IF weight = None THEN 1 ELSE weight

loadFromDB(k) == IF k = "weights" THEN GetEndpointWeight ELSE queryThroughput(k)

\* What is served when the query fails: no weights, or the free plan.
loadFailed(k) == IF k = "weights" THEN 1 ELSE DefaultFreeInfo

Outage == outages < MaxOutages /\ outages' = outages + 1 /\ UNCHANGED <<changes, arrivals>>

-----------------------------------------------------------------------------
(***************************************************************************)
(* ResolveThroughput and loadWeights: reading through a cache.             *)
(***************************************************************************)
\* Mutant: the request forgets to move on to the key of its scope.
Unmoved(r, value) ==
    IF req[r].key = "weights"
    THEN [req[r] EXCEPT !.weight = value, !.step = "look", !.locked = FALSE]
    ELSE IF value.unlimited THEN NoReq
    ELSE [req[r] EXCEPT !.answer = value, !.step = "charge", !.locked = FALSE]

\* The request has the value of its key.
Resolved(r, value) ==
    IF req[r].key = "weights"
    THEN [req[r] EXCEPT !.weight = value, !.key = FirstScope(req[r].kind),
                        !.step = "look", !.locked = FALSE, !.answer = None]
    ELSE IF value.unlimited THEN NoReq
    ELSE [req[r] EXCEPT !.answer = value, !.step = "charge", !.locked = FALSE]

Unlock(r) ==
    lock' = [k \in Key |-> IF k = req[r].key /\ lock[k] = r THEN None ELSE lock[k]]

\* A request starts with its weight; a delivery has the weight 1.
Arrive(r, kind) ==
    /\ req[r].step = "idle" /\ arrivals < MaxArrivals
    /\ req' = [req EXCEPT ![r] =
         [NoReq EXCEPT !.step = "look", !.kind = kind,
                       !.key = IF kind = "delivery" THEN "workspace" ELSE "weights"]]
    /\ arrivals' = arrivals + 1
    /\ UNCHANGED <<data, cache, lock, stale, meter, clock, outages, changes>>

CacheHit(r) ==
    /\ req[r].step = "look" /\ cache[req[r].key] # None
    /\ req' = [req EXCEPT ![r] = Resolved(r, cache[req[r].key])]
    /\ UNCHANGED <<data, cache, lock, stale, meter, clock, bound>>

CacheMiss(r) ==
    /\ req[r].step = "look" /\ cache[req[r].key] = None
    /\ req' = [req EXCEPT ![r].step = "wait"]
    /\ UNCHANGED <<data, cache, lock, stale, meter, clock, bound>>

\* The second look, after the lock was taken.
SecondLook(r) ==
    IF cache[req[r].key] = None THEN [req[r] EXCEPT !.step = "query", !.locked = TRUE]
                                ELSE Resolved(r, cache[req[r].key])

\* Mutant: the second look is left out.
LockOnly(r) ==
    /\ req[r].step = "wait" /\ lock[req[r].key] = None
    /\ req' = [req EXCEPT ![r].step = "query", ![r].locked = TRUE]
    /\ lock' = [lock EXCEPT ![req[r].key] = r]
    /\ UNCHANGED <<data, cache, stale, meter, clock, bound>>

Lock(r) ==
    /\ req[r].step = "wait" /\ lock[req[r].key] = None
    /\ req' = [req EXCEPT ![r] = SecondLook(r)]
    /\ lock' = [lock EXCEPT ![req[r].key] =
                  IF cache[req[r].key] = None THEN r ELSE None]
    /\ UNCHANGED <<data, cache, stale, meter, clock, bound>>

\* The error of the lock is ignored.
LockFails(r) ==
    /\ req[r].step = "wait" /\ Outage
    /\ req' = [req EXCEPT ![r] = SecondLook(r)]
    /\ UNCHANGED <<data, cache, lock, stale, meter, clock>>

QueryDB(r) ==
    /\ req[r].step = "query"
    /\ \/ /\ req' = [req EXCEPT ![r].step = "store",
                                ![r].answer = loadFromDB(req[r].key)]
          /\ UNCHANGED bound
       \/ /\ Outage
          /\ req' = [req EXCEPT ![r].step = "store",
                                ![r].answer = loadFailed(req[r].key)]
    /\ UNCHANGED <<data, cache, lock, stale, meter, clock>>

Store(r) ==
    /\ req[r].step = "store"
    /\ \/ /\ cache' = [cache EXCEPT ![req[r].key] = req[r].answer]
          /\ UNCHANGED bound
       \/ Outage /\ UNCHANGED cache
    /\ Unlock(r)
    /\ req' = [req EXCEPT ![r] = Resolved(r, req[r].answer)]
    /\ UNCHANGED <<data, stale, meter, clock>>

-----------------------------------------------------------------------------
(***************************************************************************)
(* Charging.  The counter's key holds the start of the current window; the *)
(* first increment lets it expire one window later.                        *)
(***************************************************************************)
\* Mutant: the start is not rounded down to the window.
Unrounded(window) == clock

bucketStart(window) == (clock \div window) * window

WindowOf(t) == (t \div Window) * Window

Increment(m, info, w) ==
    LET b == <<m, bucketStart(info.window)>>
    IN /\ count' = [count EXCEPT ![b] = @ + w]
       /\ \/ /\ deadline' = IF count[b] # 0 THEN deadline
                            ELSE [deadline EXCEPT ![b] = clock + info.window]
             /\ UNCHANGED bound
          \/ Outage /\ count[b] = 0 /\ UNCHANGED deadline

Total(m, info, w) == count[<<m, bucketStart(info.window)>>] + w

Within(m, info, w) == Total(m, info, w) <= info.limit

Remember(m, info, w) ==
    LET b == <<m, WindowOf(clock)>>
    IN /\ admitted' = [admitted EXCEPT ![b] = @ + IF Within(m, info, w) THEN w ELSE 0]
       /\ granted' = [granted EXCEPT ![b] = Max({@, info.limit})]

\* What happens to a request that is over the budget of its scope.
Exceeded(r) ==
    CASE req[r].key = "workspace" /\ req[r].kind = "api" ->
             [req[r] EXCEPT !.step = "look", !.key = "user", !.answer = None]
      [] req[r].key = "user" /\ isFallbackRoute(req[r].kind) ->
             [req[r] EXCEPT !.step = "fallback"]
      [] OTHER -> NoReq    \* 429, or a failed delivery

Charge(r) ==
    /\ req[r].step = "charge"
    /\ LET s == req[r].key  info == req[r].answer  w == req[r].weight
       IN /\ Increment(s, info, w)
          /\ Remember(s, info, w)
          /\ req' = [req EXCEPT ![r] = IF Within(s, info, w) THEN NoReq ELSE Exceeded(r)]
    /\ UNCHANGED <<data, cache, lock, stale, clock, upgrades>>

\* Routes for upgrades have the budget of the default plan on a key of their own.
ChargeFallback(r) ==
    /\ req[r].step = "fallback"
    /\ LET m == "user-fallback"  w == req[r].weight
       IN /\ Increment(m, DefaultFreeInfo, w)
          /\ Remember(m, DefaultFreeInfo, w)
          /\ req' = [req EXCEPT ![r] = NoReq]    \* let through, or 429
          /\ upgrades' = [upgrades EXCEPT ![WindowOf(clock)] =
                          @ + IF isFallbackRoute(req[r].kind) THEN w ELSE 0]
    /\ UNCHANGED <<data, cache, lock, stale, clock>>

\* The counter cannot be reached: its 0 is within every budget above 0.
ChargeFails(r) ==
    /\ req[r].step \in {"charge", "fallback"} /\ Outage
    /\ LET info == IF req[r].step = "charge" THEN req[r].answer ELSE DefaultFreeInfo
       IN req' = [req EXCEPT ![r] = IF 0 > info.limit /\ req[r].step = "charge"
                                    THEN Exceeded(r) ELSE NoReq]
    /\ UNCHANGED <<data, cache, lock, stale, meter, clock>>

\* The process ends; its lock is left behind.
Crash(r) ==
    /\ req[r].step # "idle" /\ Outage
    /\ req' = [req EXCEPT ![r] = NoReq]
    /\ UNCHANGED <<data, cache, lock, stale, meter, clock>>

RequestStep(r) ==
    \/ CacheHit(r) \/ CacheMiss(r) \/ QueryDB(r) \/ Store(r)
    \/ Charge(r) \/ ChargeFallback(r)

-----------------------------------------------------------------------------
(***************************************************************************)
(* Changes of what is cached.                                              *)
(***************************************************************************)
Change == changes < MaxChanges /\ changes' = changes + 1 /\ UNCHANGED <<outages, arrivals>>

\* A subscription begins or is cancelled; the handler's next call drops the entry.
ChangeSubscription(s, p) ==
    /\ Change /\ s \notin stale
    /\ sold' = [sold EXCEPT ![s] = IF p \in @ THEN @ \ {p} ELSE @ \cup {p}]
    /\ stale' = stale \cup {s}
    /\ UNCHANGED <<plan, weight, cache, lock, meter, clock, req>>

\* Time ends a subscription: nobody drops the entry.
SubscriptionExpires(s, p) ==
    /\ Change /\ p \in sold[s]
    /\ sold' = [sold EXCEPT ![s] = @ \ {p}]
    /\ UNCHANGED <<plan, weight, cache, lock, stale, meter, clock, req>>

PlanUpdated(p, info) ==
    /\ Change /\ plan[p] # info
    /\ plan' = [plan EXCEPT ![p] = info]
    /\ UNCHANGED <<sold, weight, cache, lock, stale, meter, clock, req>>

PlanDeleted(p) ==
    /\ Change /\ plan[p] # None
    /\ plan' = [plan EXCEPT ![p] = None]
    /\ UNCHANGED <<sold, weight, cache, lock, stale, meter, clock, req>>

\* A weight is created or deleted.
ChangeEndpointWeight(w) ==
    /\ Change /\ "weights" \notin stale
    /\ weight' = w /\ (weight = None) # (w = None)
    /\ stale' = stale \cup {"weights"}
    /\ UNCHANGED <<plan, sold, cache, lock, meter, clock, req>>

\* The error of the cache is ignored, or the process ends before the call.
InvalidateCache(k) ==
    /\ k \in stale /\ stale' = stale \ {k}
    /\ \/ cache' = [cache EXCEPT ![k] = None] /\ UNCHANGED bound
       \/ Outage /\ UNCHANGED cache
    /\ UNCHANGED <<data, lock, meter, clock, req>>

-----------------------------------------------------------------------------
(***************************************************************************)
(* Time.                                                                   *)
(***************************************************************************)
CacheExpires(k) ==
    /\ Change /\ cache[k] # None
    /\ cache' = [cache EXCEPT ![k] = None]
    /\ UNCHANGED <<data, lock, stale, meter, clock, req>>

\* A lock that a dead request left expires; a live one is released in time.
LockExpires(k) ==
    /\ lock[k] # None
    /\ ~(req[lock[k]].locked /\ req[lock[k]].key = k)
    /\ lock' = [lock EXCEPT ![k] = None]
    /\ UNCHANGED <<data, cache, stale, meter, clock, req, bound>>

ClockTicks ==
    /\ clock < MaxTime /\ clock' = clock + 1
    /\ count' = [b \in Meter \X Time |-> IF deadline[b] <= clock + 1 THEN 0 ELSE count[b]]
    /\ deadline' = [b \in Meter \X Time |->
                       IF deadline[b] <= clock + 1 THEN Never ELSE deadline[b]]
    /\ UNCHANGED <<data, cache, lock, stale, req, bound, admitted, granted, upgrades>>

MeterNext ==
    \/ \E r \in Request :
          \/ RequestStep(r) \/ Lock(r) \/ LockFails(r) \/ ChargeFails(r) \/ Crash(r)
          \/ \E kind \in Kinds : Arrive(r, kind)
    \/ \E s \in Scope, p \in Plan \ {Default} :
          ChangeSubscription(s, p) \/ SubscriptionExpires(s, p)
    \/ \E p \in Plan : PlanDeleted(p) \/ \E info \in Info : PlanUpdated(p, info)
    \/ \E w \in Weight \cup {None} : ChangeEndpointWeight(w)
    \/ \E k \in Key : InvalidateCache(k) \/ CacheExpires(k) \/ LockExpires(k)
    \/ ClockTicks

MeterSpec == MeterInit /\ [][MeterNext]_meterVars

\* A request that runs goes on, one that waits for a lock that is free again and
\* again gets it, and abandoned locks expire.
FairMeterSpec ==
    /\ MeterSpec
    /\ \A r \in Request : SF_meterVars(RequestStep(r) \/ Lock(r))
    /\ WF_meterVars(\E k \in Key : LockExpires(k))

-----------------------------------------------------------------------------
(***************************************************************************)
(* What customers are told: by the headers of an answer, by a 429, and by  *)
(* the report of their usage, which reads the counters and charges         *)
(* nothing.  A counter that cannot be reached is taken for 0.              *)
(***************************************************************************)
Current(m, info) == count[<<m, bucketStart(info.window)>>]

WindowReset(info) == bucketStart(info.window) + info.window

setLimitedRateLimitHeaders(m, info) ==
    [remaining |-> Max({0, info.limit - Current(m, info)}), reset |-> WindowReset(info)]

setUnlimitedRateLimitHeaders == [remaining |-> -1, reset |-> 0]

throughputExceeded(info) == [remaining |-> 0, reset |-> WindowReset(info)]

Usage(m, info) ==
    [meter |-> m, info |-> info,
     remaining |-> IF info.unlimited THEN setUnlimitedRateLimitHeaders.remaining
                   ELSE Max({0, info.limit - Current(m, info)})]

\* The fallback is listed once the budget of the user is exceeded.
buildScopeUsage(s, info) ==
    {Usage(s, info)} \cup
        IF s = "user" /\ ~info.unlimited /\ Current(s, info) > info.limit
        THEN {Usage("user-fallback", DefaultFreeInfo)} ELSE {}

\* The budgets are read through the cache.
Resolve(s) == IF cache[s] = None THEN queryThroughput(s) ELSE cache[s]

GetUsage == UNION {buildScopeUsage(s, Resolve(s)) : s \in Scope}

-----------------------------------------------------------------------------
(***************************************************************************)
(* Properties.                                                             *)
(***************************************************************************)
Throughputs == [limit : Int, window : Nat \ {0}, unlimited : BOOLEAN]

MeterTypeOK ==
    /\ plan \in [Plan -> Info \cup {None}]
    /\ sold \in [Scope -> SUBSET Plan]
    /\ weight \in Weight \cup {None}
    /\ \A s \in Scope : cache[s] = None \/ cache[s] \in Throughputs
    /\ cache["weights"] \in Weight \cup {1, None}
    /\ lock \in [Key -> Request \cup {None}]
    /\ stale \subseteq Key
    /\ count \in [Meter \X Time -> Nat] /\ deadline \in [Meter \X Time -> Nat]
    /\ \A r \in Request : req[r].step \in Steps /\ req[r].kind \in Kinds \cup {NoReq.kind}
                          /\ req[r].key \in Key /\ req[r].weight \in Weight \cup {1}

\* What the report and the headers promise is there: never more remains than
\* the limit less all that passed in the window, and the counter that says so
\* lasts until the moment they name as the reset.
Promised(u) ==
    u.info.window = Window /\ ~u.info.unlimited =>
        LET b == <<u.meter, WindowOf(clock)>>
        IN  /\ u.remaining <= Max({0, u.info.limit - admitted[b]})
            /\ u.remaining = setLimitedRateLimitHeaders(u.meter, u.info).remaining
            /\ deadline[b] # Never => deadline[b] >= throughputExceeded(u.info).reset

(* While the windows have one length, no more weight passes in a window    *)
(* than the largest limit the key was granted in it, whatever expires,     *)
(* changes or fails meanwhile; requests that passed because the counter    *)
(* was out of reach are not counted (Increment, bucketKey,                 *)
(* ThroughputMiddleware).  The fallback is spent by requests for upgrades  *)
(* alone: ordinary traffic cannot use it up (enforceScope;                 *)
(* throughput_implementation_summary.md: "regular API usage cannot exhaust *)
(* it").  And what customers are told of their budget is true.             *)
WithinBudget ==
    /\ \A b \in Meter \X Time : admitted[b] <= granted[b]
    /\ \A t \in Time : WindowOf(t) = t => count[<<"user-fallback", t>>] <= upgrades[t]
    /\ \A u \in GetUsage : Promised(u)

(* Without failures, nobody queries the database for a key whose entry is   *)
(* in the cache, and no two requests query for one key at a time            *)
(* (plan.go: "lock this key to prevent thundering herd").                   *)
Filling(r) == req[r].step \in {"query", "store"}
HerdIsHeld ==
    outages = 0 =>
        /\ \A r \in Request : Filling(r) => cache[req[r].key] = None
        /\ \A q, r \in Request :
              q # r /\ Filling(q) /\ Filling(r) => req[q].key # req[r].key

(* Every request is answered, though the holder of a lock may die.          *)
RequestEnds == \A r \in Request : req[r].step # "idle" ~> req[r].step = "idle"

(* Once a changed weight has been invalidated, nobody is served the old one *)
(* (endpoint-weight.go:42: "forces a reload of endpoint weights on next     *)
(* access").  It does not hold: a fill that read the old weight before the  *)
(* change stores it after the invalidation, for five minutes.               *)
ReloadAfterInvalidation ==
    outages = 0 /\ "weights" \notin stale
        => cache["weights"] \in {None, loadFromDB("weights")}
=============================================================================

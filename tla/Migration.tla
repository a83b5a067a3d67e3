------------------------------- MODULE Migration -------------------------------
(***************************************************************************)
(* How an instance of the server boots: the packages' init functions       *)
(* connect to the database, split the version table of older releases, run *)
(* the goose migrations that come before gorm's AutoMigrate, AutoMigrate,  *)
(* the other goose migrations, and only then serve.  Any error ends the    *)
(* process.  The command line boots the same way and then rolls back.      *)
(*                                                                         *)
(* Nothing keeps two instances from booting at once.  goose runs every     *)
(* migration in a transaction of its own, but most of them work on         *)
(* database.DB, that is outside of it: what they did stays done when the   *)
(* process dies before the version is recorded.                            *)
(*                                                                         *)
(* The schema and the seeded rows are a set of facts; migrations are       *)
(* numbered in the order of their time stamps, 6 and 13 being the two of   *)
(* migrations-before.                                                      *)
(***************************************************************************)
EXTENDS Integers, Sequences, FiniteSets, SequencesExt

CONSTANTS
    Instance,        \* processes: a server, or the command line
    History,         \* the databases to start from
    Target,          \* versions given to migrate:down-to
    WabaConfigured,  \* WABA_ID and its like are set
    None,
    Spread,          \* bound on the versions between two that boot at once
    MaxCrashes,      \* bound on processes that die
    MaxRollbacks     \* bound on command line calls

ASSUME MigrationAssumption ==
    /\ History \subseteq {"virgin", "old", "shared", "priced"}
    /\ Target \subseteq 0..19 /\ WabaConfigured \in BOOLEAN
    /\ {Spread, MaxCrashes, MaxRollbacks} \subseteq Nat

VARIABLES
    has,        \* what is there: tables, columns, indexes, seeded rows
    invalid,    \* the indexes that are there but were never finished
    tables,     \* which of goose's two version tables exist
    rows,       \* version table -> its versions, in the order of their rows
    at,         \* instance -> where it is in its boot
    job,        \* instance -> the migration it is running
    goal,       \* instance -> to serve, to go one down, or down to a version
    torn,       \* a rollback was interrupted
    history,    \* the database of the first boot
    crashes, rollbacks

database == <<has, invalid>>
versions == <<tables, rows>>
bounds   == <<torn, history, crashes, rollbacks>>
vars     == <<database, versions, at, job, goal, bounds>>

Before == {6, 13}
Files(t) == IF t = "before" THEN Before ELSE (1..19) \ Before

Recorded(t) == ToSet(rows[t])
Without(s, v) == SelectSeq(s, LAMBDA x : x # v)
Applied(s, v) == Append(Without(s, v), v)

(***************************************************************************)
(* A migration function, given what it saw when it began: its statements   *)
(* on database.DB, one by one, and what its transaction does at the        *)
(* commit: inserted rows (refused when they are there by then), what it    *)
(* makes sure of, what it removes.                                         *)
(***************************************************************************)
Statement(do, F) == [do |-> do, facts |-> F]
Insert(F) == <<Statement("insert", F)>>
Ensure(F) == <<Statement("ensure", F)>>
Drop(F) == <<Statement("remove", F)>>
\* CREATE INDEX CONCURRENTLY IF NOT EXISTS, in two transactions.
Build(f)  == <<Statement("build", {f}), Statement("finish", {f})>>

Script(body) == [todo |-> body, insert |-> {}, ensure |-> {}, remove |-> {}]
InTx(ins, ens, rem) ==
    [todo |-> <<>>, insert |-> ins, ensure |-> ens, remove |-> rem]

\* Mutant: the user is created without a look for it.
upAddSuUserBlindly(saw) == Script(Insert({"su"}))

upAddSuUser(saw) == Script(IF "su" \in saw THEN <<>> ELSE Insert({"su"}))
downAddSuUser == Script(Drop({"su", "admin"}))

\* No index keeps the name unique.
upAddWhatsappMessagingProduct(saw) ==
    Script(IF "product" \in saw THEN <<>>
           ELSE <<Statement("add product", {})>>)
downAddWhatsappMessagingProduct == Script(Drop({"product", "second product"}))

columnExists(saw, column) == column \in saw

upReplaceMessageProductDataWithReceiverData(saw) ==
    IF ~columnExists(saw, "receiver_data") /\ columnExists(saw, "product_data")
    THEN InTx({}, {"receiver_data"}, {"product_data"}) ELSE Script(<<>>)
downReplaceMessageProductDataWithReceiverData(saw) ==
    IF ~columnExists(saw, "product_data") /\ columnExists(saw, "receiver_data")
    THEN InTx({}, {"product_data"}, {"receiver_data"}) ELSE Script(<<>>)

\* A new super user, or a Save of the one that was read.
upUpdateSuRole(saw) ==
    Script(CASE "su" \notin saw -> Insert({"su", "admin"})
             [] "admin" \in saw -> <<>>
             [] OTHER -> Ensure({"su", "admin"}))
downUpdateSuRole == Script(Drop({"su", "admin"}))

upFillMessagingProductContactLastReadAtColumn == Script(Ensure({"last_read_at"}))
downFillMessagingProductContactLastReadAtColumn ==
    Script(Drop({"last_read_at"}))

upRemoveForeignKeyFkMessagesFrom == InTx({}, {}, {"fk_messages_from"})

upCreateMessageIndexes == Script(Build("index 7") \o Build("search index"))
downCreateMessageIndexes == Script(Drop({"search index", "index 7"}))

upCreateImmutableUnaccent == Script(Ensure({"unaccent"}))
downCreateImmutableUnaccent == Script(Drop({"unaccent"}))

upCreateMessageSingleFieldIndexes == Script(Build("index 9"))
downCreateMessageSingleFieldIndexes ==
    Script(Drop({"index 9"}) \o Drop({"unaccent"}))

upReplaceMessageSearchIndex == Script(Build("index 10") \o Drop({"search index"}))
downReplaceMessageSearchIndex ==
    Script(Drop({"index 10"}) \o Build("search index"))

upCreateContactIndexes == Script(Ensure({"unaccent"}) \o Build("index 11"))
downCreateContactIndexes == Script(Drop({"index 11"}))

upCreateMessagingProductContactIndexes == Script(Build("index 12"))
downCreateMessagingProductContactIndexes == Script(Drop({"index 12"}))

tableExists(saw, table) == table \in saw

\* The workspace of the super user, with a member who has all policies.
DefaultWorkspace(saw) == {"default workspace"} \ saw

\* Contacts, products, campaigns and webhooks without a workspace get it, and
\* the name of a campaign need only be unique in its workspace.
Home(saw) == InTx(DefaultWorkspace(saw), {"workspaces", "homed", "names per workspace"},
                  {"campaigns_name_key"})

\* A database without contacts is new, one without su@sudo is left alone.
upAddWorkspaceToExistingTables(saw) ==
    CASE ~tableExists(saw, "contacts") -> Script(<<>>)
      [] tableExists(saw, "contacts") /\ "su" \notin saw -> InTx({}, {"workspaces"}, {})
      [] OTHER -> Home(saw)

upDropPhoneNumberID == Script(Drop({"phone_number_id"}))
downDropPhoneNumberID == Script(Ensure({"phone_number_id"}))

upAddDefaultPhoneConfig(saw) ==
    IF WabaConfigured /\ "default workspace" \in saw
    THEN [InTx({}, {"associated"}, {}) EXCEPT
            !.todo = IF "phone" \in saw THEN <<>> ELSE Insert({"phone"})]
    ELSE Script(<<>>)
\* The rows the transaction has changed refer to the row that is deleted outside
\* of it: where a foreign key says so this waits for ever, until it is killed.
downAddDefaultPhoneConfig(saw) ==
    IF "default workspace" \in saw
    THEN [InTx({}, {}, {"associated"}) EXCEPT !.todo = Drop({"phone"})]
    ELSE Script(<<>>)

upWebhookIndexes == Script(Build("index 16"))
downWebhookIndexes == Script(Drop({"index 16"}))

upSeedDefaultFreePlan(saw) ==
    Script(IF "free plan" \in saw THEN <<>> ELSE Insert({"free plan"}))
downSeedDefaultFreePlan == Script(Drop({"free plan"}))

upMigratePlanPrices(saw) ==
    IF "plans.currency" \in saw /\ "plan price" \notin saw
    THEN InTx({"plan price"}, {}, {}) ELSE Script(<<>>)
downMigratePlanPrices == InTx({}, {}, {"plan price"})

upCampaignSchedule == Script(Ensure({"campaigns.status"}) \o Build("index 19"))
downCampaignSchedule ==
    Script(Drop({"index 19"}) \o Drop({"campaigns.status"}))

\* The functions registered with goose, by version.
Up(v, saw) ==
    CASE v = 1  -> upAddSuUser(saw)
      [] v = 2  -> upAddWhatsappMessagingProduct(saw)
      [] v = 3  -> upReplaceMessageProductDataWithReceiverData(saw)
      [] v = 4  -> upUpdateSuRole(saw)
      [] v = 5  -> upFillMessagingProductContactLastReadAtColumn
      [] v = 6  -> upRemoveForeignKeyFkMessagesFrom
      [] v = 7  -> upCreateMessageIndexes
      [] v = 8  -> upCreateImmutableUnaccent
      [] v = 9  -> upCreateMessageSingleFieldIndexes
      [] v = 10 -> upReplaceMessageSearchIndex
      [] v = 11 -> upCreateContactIndexes
      [] v = 12 -> upCreateMessagingProductContactIndexes
      [] v = 13 -> upAddWorkspaceToExistingTables(saw)
      [] v = 14 -> upDropPhoneNumberID
      [] v = 15 -> upAddDefaultPhoneConfig(saw)
      [] v = 16 -> upWebhookIndexes
      [] v = 17 -> upSeedDefaultFreePlan(saw)
      [] v = 18 -> upMigratePlanPrices(saw)
      [] v = 19 -> upCampaignSchedule

Down(v, saw) ==
    CASE v = 1  -> downAddSuUser
      [] v = 2  -> downAddWhatsappMessagingProduct
      [] v = 3  -> downReplaceMessageProductDataWithReceiverData(saw)
      [] v = 4  -> downUpdateSuRole
      [] v = 5  -> downFillMessagingProductContactLastReadAtColumn
      [] v = 7  -> downCreateMessageIndexes
      [] v = 8  -> downCreateImmutableUnaccent
      [] v = 9  -> downCreateMessageSingleFieldIndexes
      [] v = 10 -> downReplaceMessageSearchIndex
      [] v = 11 -> downCreateContactIndexes
      [] v = 12 -> downCreateMessagingProductContactIndexes
      [] v = 14 -> downDropPhoneNumberID
      [] v = 15 -> downAddDefaultPhoneConfig(saw)
      [] v = 16 -> downWebhookIndexes
      [] v = 17 -> downSeedDefaultFreePlan
      [] v = 18 -> downMigratePlanPrices
      [] v = 19 -> downCampaignSchedule

\* The indexes over immutable_unaccent.
NeedUnaccent == {"index 9", "index 10", "index 11"}

(***************************************************************************)
(* The databases of earlier releases: none; one from before the migrations *)
(* of 2024-10; one whose single version table also holds a migration that  *)
(* is now in migrations-before; and a recent one with legacy plan prices.  *)
(***************************************************************************)
Seed == {"contacts", "product_data", "su", "product", "campaigns_name_key"}
UpTo12 == {"receiver_data", "admin", "last_read_at", "index 7", "unaccent",
           "index 9", "index 10", "index 11", "index 12"}
UpTo17 == {"workspaces", "default workspace", "homed", "names per workspace",
           "phone", "associated", "index 16", "free plan", "plans.currency"}

Facts(h) == CASE h = "virgin" -> {}
              [] h = "old"    -> Seed \cup {"fk_messages_from"}
              [] h = "shared" -> Seed \cup UpTo12
              [] h = "priced" -> (Seed \ {"campaigns_name_key"}) \cup UpTo12 \cup UpTo17

Main(h) == CASE h = "virgin" -> <<>>
             [] h = "old"    -> <<0, 1, 2>>
             [] h = "shared" -> <<0, 1, 2, 3, 4, 5, 6, 7, 8, 9, 10, 11, 12>>
             [] h = "priced" -> <<0, 1, 2, 3, 4, 5, 7, 8, 9, 10, 11, 12, 14, 15,
                                  16, 17>>

Init ==
    \E h \in History :
      /\ history = h
      /\ has = Facts(h) /\ invalid = {}
      /\ tables = CASE h = "virgin" -> {}
                    [] h = "priced" -> {"main", "before"}
                    [] OTHER        -> {"main"}
      /\ rows = [main |-> Main(h),
                 before |-> IF h = "priced" THEN <<0, 6, 13>> ELSE <<>>]
      /\ at = [i \in Instance |-> "off"]
      /\ job = [i \in Instance |-> None]
      /\ goal = [i \in Instance |-> <<"serve">>]
      /\ torn = FALSE /\ crashes = 0 /\ rollbacks = 0

-----------------------------------------------------------------------------
Goto(i, place) == at' = [at EXCEPT ![i] = place]

\* Mutant: an error is logged, and the boot goes on.
ExitIgnored(i) ==
    /\ Goto(i, "serving") /\ job' = [job EXCEPT ![i] = None]
    /\ UNCHANGED <<goal, torn>>

\* os.Exit(1): the transaction is rolled back, a command line call is over.
Exit(i) ==
    /\ Goto(i, "off")
    /\ job' = [job EXCEPT ![i] = None]
    /\ goal' = [goal EXCEPT ![i] = <<"serve">>]
    /\ torn' = (torn \/ (at[i] = "down" /\ job[i] # None))

\* A server is started, or started again.  Whoever rolls back keeps the servers
\* from booting meanwhile: they would apply again what is being rolled back.
Start(i) ==
    /\ at[i] = "off" /\ \A j \in Instance : goal[j] = <<"serve">>
    /\ Goto(i, "split")
    /\ UNCHANGED <<database, versions, job, goal, bounds>>

\* migrate:down and migrate:down-to, once no server is booting.
Rollback(i, to) ==
    /\ rollbacks < MaxRollbacks /\ rollbacks' = rollbacks + 1
    /\ at[i] = "off"
    /\ \A j \in Instance : at[j] \in {"off", "serving"}
    /\ Goto(i, "split") /\ goal' = [goal EXCEPT ![i] = to]
    /\ UNCHANGED <<database, versions, job, torn, history, crashes>>

(***************************************************************************)
(* splitGooseVersionTable: four statements, no transaction.                *)
(***************************************************************************)
LookForSplit(i) ==
    /\ at[i] = "split"
    /\ Goto(i, IF /\ "main" \in tables /\ "before" \notin tables
                  /\ Recorded("main") \cap Before # {}
               THEN "create table" ELSE "open before")
    /\ UNCHANGED <<database, versions, job, goal, bounds>>

CreateBeforeTable(i) ==
    /\ at[i] = "create table"
    /\ IF "before" \in tables
       THEN Exit(i) /\ UNCHANGED versions
       ELSE /\ tables' = tables \cup {"before"}
            /\ Goto(i, "insert zero")
            /\ UNCHANGED <<rows, job, goal, torn>>
    /\ UNCHANGED <<database, history, crashes, rollbacks>>

InsertVersionZero(i) ==
    /\ at[i] = "insert zero"
    /\ rows' = [rows EXCEPT !.before = Applied(@, 0)]
    /\ Goto(i, "copy")
    /\ UNCHANGED <<database, tables, job, goal, bounds>>

\* Mutant: the entries are only removed.
CopyNothing(i) ==
    /\ at[i] = "copy" /\ Goto(i, "remove")
    /\ UNCHANGED <<database, versions, job, goal, bounds>>

CopyEntries(i) ==
    /\ at[i] = "copy"
    /\ LET moved == SelectSeq(rows.main, LAMBDA v : v \in Before)
       IN  rows' = [rows EXCEPT !.before =
                      SelectSeq(@, LAMBDA v : v \notin ToSet(moved)) \o moved]
    /\ Goto(i, "remove")
    /\ UNCHANGED <<database, tables, job, goal, bounds>>

RemoveEntries(i) ==
    /\ at[i] = "remove"
    /\ rows' = [rows EXCEPT !.main = SelectSeq(@, LAMBDA v : v \notin Before)]
    /\ Goto(i, "open before")
    /\ UNCHANGED <<database, tables, job, goal, bounds>>

(***************************************************************************)
(* goose.Up on version table t: see to the table, refuse gaps, and run     *)
(* what comes after the version of the newest row until nothing does.      *)
(***************************************************************************)
OpenVersionTable(i, t) ==
    /\ at[i] = "open " \o t
    /\ LET gap == /\ rows[t] # <<>>
                  /\ \E v \in Files(t) \ Recorded(t), w \in Recorded(t) : v < w
       IN  IF t \in tables /\ (rows[t] = <<>> \/ gap)
           THEN Exit(i) /\ UNCHANGED versions
           ELSE /\ tables' = tables \cup {t}
                /\ rows' = IF t \in tables THEN rows ELSE [rows EXCEPT ![t] = <<0>>]
                /\ Goto(i, t) /\ UNCHANGED <<job, goal, torn>>
    /\ UNCHANGED <<database, history, crashes, rollbacks>>

Pending(t) == {v \in Files(t) : v > Last(rows[t])}

BeginUp(i, t) ==
    /\ at[i] = t /\ job[i] = None /\ Pending(t) # {}
    /\ LET v == CHOOSE v \in Pending(t) : \A w \in Pending(t) : v <= w
       IN  /\ \A j \in Instance : (at[j] = "main" /\ job[j] # None)
                                     => v <= job[j].version + Spread
           /\ job' = [job EXCEPT ![i] = [version |-> v, script |-> Up(v, has)]]
    /\ UNCHANGED <<database, versions, at, goal, bounds>>

BeforeDone(i) ==
    /\ at[i] = "before" /\ job[i] = None /\ Pending("before") = {}
    /\ Goto(i, "auto")
    /\ UNCHANGED <<database, versions, job, goal, bounds>>

\* gorm creates the tables and columns of the entities that are missing.
automaticMigrations(i) ==
    /\ at[i] = "auto"
    /\ has' = has \cup {"contacts", "workspaces", "product_data", "receiver_data",
                        "campaigns.status"}
    /\ Goto(i, "open main")
    /\ UNCHANGED <<invalid, versions, job, goal, bounds>>

\* The server serves; the command line goes on to its rollback.
serve(i) ==
    /\ at[i] = "main" /\ job[i] = None /\ Pending("main") = {}
    /\ Goto(i, IF goal[i] = <<"serve">> THEN "serving" ELSE "down")
    /\ UNCHANGED <<database, versions, job, goal, bounds>>

(***************************************************************************)
(* goose.Down and goose.DownTo on the main table.                          *)
(***************************************************************************)
More(i) == /\ Last(rows.main) # 0
           /\ goal[i] # <<"down">> => Last(rows.main) > goal[i][2]

BeginDown(i) ==
    /\ at[i] = "down" /\ job[i] = None /\ More(i)
    /\ LET v == Last(rows.main)
       IN  IF v \in Files("main")
           THEN /\ job' = [job EXCEPT ![i] = [version |-> v,
                                             script |-> Down(v, has)]]
                /\ UNCHANGED <<at, goal, torn>>
           \* An entry the split left behind has no file: an error.
           ELSE Exit(i)
    /\ UNCHANGED <<database, versions, history, crashes, rollbacks>>

CommandEnds(i) ==
    /\ at[i] = "down" /\ job[i] = None /\ ~More(i)
    /\ Exit(i)
    /\ UNCHANGED <<database, versions, history, crashes, rollbacks>>

(***************************************************************************)
(* A migration of instance i, statement by statement.                      *)
(***************************************************************************)
Proceed(i, n) ==
    /\ job' = [job EXCEPT ![i].script.todo = SubSeq(@, n + 1, Len(@))]
    /\ UNCHANGED <<at, goal, torn>>

\* A statement that is refused ends the process.
Execute(i) ==
    /\ job[i] # None /\ job[i].script.todo # <<>>
    /\ LET st == Head(job[i].script.todo)
           F  == st.facts
       IN \/ /\ st.do = "insert" /\ F \cap has # {}
             /\ Exit(i) /\ UNCHANGED database
          \/ /\ \/ st.do = "insert" /\ F \cap has = {}
                \/ st.do = "ensure"
             /\ has' = has \cup F /\ UNCHANGED invalid
             /\ Proceed(i, 1)
          \/ /\ st.do = "add product"
             /\ has' = has \cup (IF "product" \in has THEN {"second product"}
                                                      ELSE {"product"})
             /\ UNCHANGED invalid
             /\ Proceed(i, 1)
          \/ /\ st.do = "remove"
             /\ IF "unaccent" \in F /\ NeedUnaccent \cap has # {}
                THEN Exit(i) /\ UNCHANGED database
                ELSE /\ has' = has \ F /\ invalid' = invalid \ F
                     /\ Proceed(i, 1)
    /\ UNCHANGED <<versions, history, crashes, rollbacks>>

\* Somebody's session is building f: it holds a lock on the table.
Building(f) ==
    \E j \in Instance : /\ job[j] # None /\ job[j].script.todo # <<>>
                        /\ Head(job[j].script.todo) = Statement("finish", {f})

\* The index appears, invalid; one that is there, finished or not, is skipped.
StartIndex(i) ==
    /\ job[i] # None /\ job[i].script.todo # <<>>
    /\ \E f \in Head(job[i].script.todo).facts :
         /\ Head(job[i].script.todo) = Statement("build", {f})
         /\ ~Building(f)
         /\ IF f \in NeedUnaccent /\ "unaccent" \notin has
            THEN Exit(i) /\ UNCHANGED database
            ELSE IF f \in has
            THEN Proceed(i, 2) /\ UNCHANGED database
            ELSE /\ has' = has \cup {f} /\ invalid' = invalid \cup {f}
                 /\ Proceed(i, 1)
    /\ UNCHANGED <<versions, history, crashes, rollbacks>>

FinishIndex(i) ==
    /\ job[i] # None /\ job[i].script.todo # <<>>
    /\ Head(job[i].script.todo).do = "finish"
    /\ invalid' = invalid \ Head(job[i].script.todo).facts
    /\ Proceed(i, 1)
    /\ UNCHANGED <<has, versions, history, crashes, rollbacks>>

\* The transaction commits: its own effects, and the version.
Commit(i) ==
    /\ job[i] # None /\ job[i].script.todo = <<>>
    /\ LET s == job[i].script
           v == job[i].version
           t == IF at[i] = "before" THEN "before" ELSE "main"
       IN  IF s.insert \cap has # {}
           THEN Exit(i) /\ UNCHANGED <<has, rows>>
           ELSE /\ has' = (has \cup s.insert \cup s.ensure) \ s.remove
                /\ rows' = [rows EXCEPT ![t] = IF at[i] = "down" THEN Without(@, v)
                                                             ELSE Applied(@, v)]
                /\ job' = [job EXCEPT ![i] = None]
                /\ goal' = IF goal[i] = <<"down">> /\ at[i] = "down"
                           THEN [goal EXCEPT ![i] = <<"to", 19>>] ELSE goal
                /\ UNCHANGED <<at, torn>>
    /\ UNCHANGED <<invalid, tables, history, crashes, rollbacks>>

-----------------------------------------------------------------------------
\* A process dies, or a statement of it fails.
Crash(i) ==
    /\ at[i] # "off" /\ crashes < MaxCrashes /\ crashes' = crashes + 1
    /\ Exit(i)
    /\ UNCHANGED <<database, versions, history, rollbacks>>

BootStep(i) ==
    \/ LookForSplit(i) \/ CreateBeforeTable(i) \/ InsertVersionZero(i)
    \/ CopyEntries(i) \/ RemoveEntries(i)
    \/ \E t \in {"before", "main"} : OpenVersionTable(i, t) \/ BeginUp(i, t)
    \/ BeforeDone(i) \/ automaticMigrations(i) \/ serve(i)
    \/ BeginDown(i) \/ CommandEnds(i)
    \/ Execute(i) \/ StartIndex(i) \/ FinishIndex(i) \/ Commit(i)

Next == \E i \in Instance :
          \/ Start(i) \/ BootStep(i) \/ Crash(i)
          \/ \E to \in {<<"down">>} \cup ({"to"} \X Target) : Rollback(i, to)

Spec == Init /\ [][Next]_vars

\* A process that runs makes progress, and one that ended is started again.
Fairness == \A i \in Instance : WF_vars(BootStep(i)) /\ WF_vars(Start(i))

FairSpec == Spec /\ Fairness

-----------------------------------------------------------------------------
TypeOK ==
    /\ invalid \subseteq has
    /\ tables \subseteq {"main", "before"}
    /\ \A t \in {"main", "before"} : rows[t] \in Seq(0..19)
    /\ \A i \in Instance : job[i] # None => job[i].version \in 1..19
    /\ torn \in BOOLEAN /\ history \in History
    /\ crashes \in 0..MaxCrashes /\ rollbacks \in 0..MaxRollbacks

\* What the code of this release works with.
Needed ==
    {"contacts", "workspaces", "receiver_data", "su", "admin", "product",
     "last_read_at", "unaccent", "index 7", "index 9", "index 10", "index 11",
     "index 12", "index 16", "index 19", "free plan", "campaigns.status"}
    \cup (IF history = "virgin" THEN {} ELSE {"default workspace", "homed", "names per workspace"})
    \cup (IF "plans.currency" \in has THEN {"plan price"} ELSE {})

\* migrate.go: however boots race, die and are repeated, and whatever was rolled
\* back in between, a server that begins to serve finds every version recorded
\* and everything the migrations are there for (except after a rollback that
\* was interrupted half way).
StartsComplete ==
    [][\A i \in Instance :
         (at[i] # "serving" /\ at'[i] = "serving" /\ ~torn) =>
            /\ \A t \in {"main", "before"} : Files(t) \subseteq Recorded(t)
            /\ Needed \subseteq has
            /\ {"fk_messages_from", "campaigns_name_key"} \cap has = {}]_vars

\* splitGooseVersionTable: at no moment, also when it dies between two of its
\* statements or runs twice, is the record of an applied migration lost.
SplitKeepsRecords ==
    [][\A v \in Before :
         v \in Recorded("main") \cup Recorded("before")
           => v \in (Recorded("main") \cup Recorded("before"))']_vars

\* The two states no boot gets out of: the split died before goose's row 0, or
\* the function that migration 8 made went with the rollback of migration 9,
\* and 9 or 10 needs it before 11 makes it again.
Blocked ==
    \/ "before" \in tables /\ rows.before = <<>>
    \/ /\ 8 \in Recorded("main") /\ "unaccent" \notin has
       /\ ~({9, 10} \subseteq Recorded("main"))

\* Otherwise every instance ends up serving.
Boots == <>[](Blocked \/ \A i \in Instance : at[i] = "serving")

\* The same without the exception.
AlwaysBoots == <>[](\A i \in Instance : at[i] = "serving")

\* "all indexes ensured": a server that serves has no unfinished index.
IndexesAreEnsured ==
    (\A i \in Instance : at[i] = "serving") => invalid = {}
=============================================================================

----------------------------- MODULE PhonesProofs ----------------------------
(***************************************************************************)
(* The phones of workspaces, for any number of workers, requests, keys,    *)
(* workspaces, numbers and tokens.                                         *)
(***************************************************************************)
EXTENDS Phones, FiniteSetTheorems, TLAPS

\* What a request that creates or updates a configuration has read.
Creating(x) ==
    /\ job[x].at \in {"deactivate", "write"} /\ job[x].key = None
    /\ DOMAIN job[x] = {"at", "key", "workspace", "number", "token", "active", "reads"}
    /\ job[x].workspace \in Workspace /\ job[x].number \in Number
    /\ job[x].token \in Token /\ job[x].active \in BOOLEAN
    /\ job[x].reads = job[x].number

Updating(x) ==
    /\ job[x].at \in {"deactivate", "write"} /\ job[x].key \in Key
    /\ DOMAIN job[x] = {"at", "key", "workspace", "number", "token", "active", "reads"}
    /\ job[x].workspace = None
    /\ job[x].number \in Number \cup {None} /\ job[x].token \in Token \cup {None}
    /\ job[x].active \in BOOLEAN \cup {None} /\ job[x].reads \in Number
    /\ job[x].at = "deactivate" => job[x].active = TRUE

Asking(x) ==
    /\ job[x].at = "ask" /\ job[x].key = None /\ job[x].workspace = None
    /\ job[x].number \in Number /\ job[x].token \in Token

Types ==
    /\ start \in {"up", "associate", "serving"}
    /\ config \in [Key -> ConfigRow \cup {None}]
    /\ product \subseteq ProductRow
    /\ DOMAIN job = Worker
    /\ \A x \in Worker : job[x] = Idle \/ Creating(x) \/ Updating(x) \/ Asking(x)

\* Until requests are served there is the number of the environment or nothing.
OnlyDefault ==
    start # "serving" =>
        /\ \A k \in Configs : config[k] = Config(Default, OwnNumber, OwnToken, TRUE)
        /\ \A k, m \in Configs : k = m
        /\ product = {Product(Default, None)}
        /\ \A x \in Worker : job[x] = Idle
        /\ mixed = {} /\ doubled = {}
        /\ start = "associate" /\ OwnNumber # None => Configs # {}

\* Products refer to configurations of their workspace; each configuration has
\* one while requests are served.
OneProductEach ==
    /\ \A p \in product : p.config # None =>
         p.config \in Configs /\ config[p.config].workspace = p.workspace
    /\ start = "serving" => \A k \in Configs : Product(config[k].workspace, k) \in product

\* The index.
OneActive == \A n \in Number : \A k, m \in ActiveFor(n) : k = m

\* Between its two statements a request that activates takes the number away.
Interrupted(n) == \E x \in Worker : job[x].at = "write" /\ Activating(x) /\ job[x].reads = n

SomeActive == \A n \in Number : n \in lost \/ Interrupted(n) \/ ActiveFor(n) # {}

\* A key of two requests is marked, and what a request is going to write fits.
WritesFit ==
    /\ \A k \in Configs \ mixed : FitTogether(config[k].number, config[k].token)
    /\ \A x \in Worker : Creating(x) => Vouched(job[x].token, job[x].number)
    /\ \A x \in Worker : Updating(x) /\ job[x].key \in Configs \ mixed =>
         LET old == config[job[x].key]
         IN  FitTogether(Proposed(old.number, job[x].number), Proposed(old.token, job[x].token))
    /\ \A x, y \in Worker : Updating(x) /\ Updating(y) /\ x # y /\ job[x].key = job[y].key
                              => job[x].key \notin Configs \/ job[x].key \in mixed
    /\ \A x \in Worker : Asking(x) /\ job[x].clean => FitTogether(job[x].number, job[x].token)

CreatingFor(x, w) == Creating(x) /\ job[x].workspace = w

\* A workspace two requests did not create one for at once has one at most.
OneEach ==
    \A w \in Workspace \ doubled :
        /\ \A k, m \in ConfigsOf(w) : k = m
        /\ \A x \in Worker : CreatingFor(x, w) => ConfigsOf(w) = {}
        /\ \A x, y \in Worker : CreatingFor(x, w) /\ CreatingFor(y, w) => x = y

PhonesInv ==
    /\ Types /\ OnlyDefault /\ OneProductEach /\ OneActive /\ SomeActive
    /\ WritesFit /\ OneEach
-----------------------------------------------------------------------------
(* Jobs: what a step of one worker means for the others.                   *)

LEMMA JobSet ==
    ASSUME DOMAIN job = Worker, NEW x \in Worker, NEW j, job' = [job EXCEPT ![x] = j]
    PROVE  /\ DOMAIN job' = Worker /\ job'[x] = j
           /\ \A y \in Worker : y # x =>
                /\ job'[y] = job[y]
                /\ Creating(y)' <=> Creating(y)
                /\ Updating(y)' <=> Updating(y)
                /\ Asking(y)' <=> Asking(y)
                /\ Activating(y)' <=> Activating(y)
BY DEF Creating, Updating, Asking, Activating

LEMMA IdleIsNothing ==
    ASSUME NEW x \in Worker
    PROVE  /\ job[x] = Idle => ~Creating(x) /\ ~Updating(x) /\ ~Asking(x) /\ ~Activating(x)
           /\ (job[x] = Idle)' => ~Creating(x)' /\ ~Updating(x)' /\ ~Asking(x)' /\ ~Activating(x)'
BY DEF Idle, Creating, Updating, Asking, Activating

\* The request that x handles is one of three kinds, told apart by key and at.
LEMMA JobKinds ==
    ASSUME Types, NEW x \in Worker
    PROVE  /\ job[x].at = "idle" => job[x] = Idle
           /\ job[x].at \in {"deactivate", "write"} =>
                /\ job[x].key = None => Creating(x)
                /\ job[x].key # None => Updating(x)
           /\ job[x].at = "ask" => Asking(x)
BY NoneAssumption DEF Types, Idle, Creating, Updating, Asking

\* The same rows up to what is active.
RowsKept ==
    /\ config' \in [Key -> ConfigRow \cup {None}]
    /\ \A k \in Key :
         /\ config'[k] # None <=> config[k] # None
         /\ config[k] # None => /\ config'[k].workspace = config[k].workspace
                                /\ config'[k].number = config[k].number
                                /\ config'[k].token = config[k].token

LEMMA SetsKept ==
    ASSUME RowsKept
    PROVE  /\ Configs' = Configs
           /\ \A w : ConfigsOf(w)' = ConfigsOf(w)
           /\ \A k \in Configs : /\ config'[k].workspace = config[k].workspace
                                 /\ config'[k].number = config[k].number
                                 /\ config'[k].token = config[k].token
<1>1. Configs' = Configs
  BY DEF RowsKept, Configs
<1>2. \A k \in Configs : /\ config'[k].workspace = config[k].workspace
                         /\ config'[k].number = config[k].number
                         /\ config'[k].token = config[k].token
  BY DEF RowsKept, Configs
<1>3. \A w : ConfigsOf(w)' = ConfigsOf(w)
  BY <1>1, <1>2 DEF ConfigsOf
<1> QED
  BY <1>1, <1>2, <1>3

LEMMA ProductsKept ==
    ASSUME OneProductEach, RowsKept, UNCHANGED <<product, start>>
    PROVE  OneProductEach'
<1>1. Configs' = Configs /\ \A k \in Configs : config'[k].workspace = config[k].workspace
  BY SetsKept
<1> QED
  BY <1>1 DEF OneProductEach

\* One request is done, or goes on, and what it would have written is not.
LEMMA FitKept ==
    ASSUME Types, WritesFit, RowsKept, NEW x \in Worker, NEW j, job' = [job EXCEPT ![x] = j],
           mixed' = mixed,
           Creating(x)' => Creating(x) /\ j.number = job[x].number /\ j.token = job[x].token,
           Updating(x)' => Updating(x) /\ j.key = job[x].key /\ j.number = job[x].number
                                       /\ j.token = job[x].token,
           ~Asking(x)'
    PROVE  WritesFit'
<1>1. /\ job'[x] = j
      /\ \A y \in Worker : y # x => /\ job'[y] = job[y]
                                    /\ Creating(y)' <=> Creating(y)
                                    /\ Updating(y)' <=> Updating(y)
                                    /\ Asking(y)' <=> Asking(y)
  BY JobSet DEF Types
<1>2. /\ Configs' = Configs
      /\ \A k \in Configs : /\ config'[k].number = config[k].number
                            /\ config'[k].token = config[k].token
  BY SetsKept
<1>3. \A y \in Worker : Updating(y)' => Updating(y) /\ job'[y].key = job[y].key
                                        /\ job'[y].number = job[y].number
                                        /\ job'[y].token = job[y].token
  BY <1>1
<1>4. \A k \in Configs' \ mixed' : FitTogether(config'[k].number, config'[k].token)
  BY <1>2 DEF WritesFit
<1>5. \A y \in Worker : Creating(y)' => Vouched(job'[y].token, job'[y].number)
  BY <1>1 DEF WritesFit
<1>6. ASSUME NEW y \in Worker, Updating(y)', job'[y].key \in Configs' \ mixed'
      PROVE  FitTogether(Proposed(config'[job'[y].key].number, job'[y].number),
                         Proposed(config'[job'[y].key].token, job'[y].token))
  BY <1>2, <1>3, <1>6 DEF WritesFit
<1>7. \A y, z \in Worker : Updating(y)' /\ Updating(z)' /\ y # z /\ job'[y].key = job'[z].key
                             => job'[y].key \notin Configs' \/ job'[y].key \in mixed'
  BY <1>2, <1>3 DEF WritesFit
<1>8. \A y \in Worker : Asking(y)' /\ job'[y].clean => FitTogether(job'[y].number, job'[y].token)
  BY <1>1 DEF WritesFit
<1> QED
  BY <1>4, <1>5, <1>6, <1>7, <1>8 DEF WritesFit

LEMMA EachKept ==
    ASSUME Types, OneEach, RowsKept, NEW x \in Worker, NEW j, job' = [job EXCEPT ![x] = j],
           doubled' = doubled,
           \A w \in Workspace : CreatingFor(x, w)' => CreatingFor(x, w)
    PROVE  OneEach'
<1>1. \A y \in Worker, w \in Workspace : CreatingFor(y, w)' => CreatingFor(y, w)
  BY JobSet DEF CreatingFor, Types
<1>2. \A w : ConfigsOf(w)' = ConfigsOf(w)
  BY SetsKept
<1> QED
  BY <1>1, <1>2 DEF OneEach

\* A step of a request that leaves the rows, up to what is active.
LEMMA RequestStep ==
    ASSUME PhonesInv, NEW x \in Worker, NEW j, job' = [job EXCEPT ![x] = j], RowsKept,
           start = "serving", UNCHANGED <<start, product, mixed, doubled>>,
           Creating(x)' => Creating(x) /\ j.number = job[x].number /\ j.token = job[x].token
                                       /\ j.workspace = job[x].workspace,
           Updating(x)' => Updating(x) /\ j.key = job[x].key /\ j.number = job[x].number
                                       /\ j.token = job[x].token,
           j = Idle \/ Creating(x)' \/ Updating(x)',
           OneActive', SomeActive'
    PROVE  PhonesInv'
<1> USE DEF PhonesInv
<1>1. /\ DOMAIN job' = Worker /\ job'[x] = j
      /\ \A y \in Worker : y # x => /\ job'[y] = job[y]
                                    /\ Creating(y)' <=> Creating(y)
                                    /\ Updating(y)' <=> Updating(y)
                                    /\ Asking(y)' <=> Asking(y)
  BY JobSet DEF Types
<1>2. ~Asking(x)'
  BY <1>1 DEF Asking, Creating, Updating, Idle
<1>3. Types'
  BY <1>1 DEF Types, RowsKept
<1>4. OnlyDefault' /\ OneProductEach'
  BY ProductsKept DEF OnlyDefault
<1>5. WritesFit'
  BY <1>2, FitKept
<1>6. OneEach'
  <2>1. \A w \in Workspace : CreatingFor(x, w)' => CreatingFor(x, w)
    BY <1>1 DEF CreatingFor
  <2> QED
    BY <2>1, EachKept
<1> QED
  BY <1>3, <1>4, <1>5, <1>6
-----------------------------------------------------------------------------
(* The start of the server.                                                *)

LEMMA PhonesInit == Init => PhonesInv
<1> SUFFICES ASSUME Init
             PROVE  PhonesInv
  OBVIOUS
<1> USE DEF Init
<1>1. Configs = {} /\ \A n : ActiveFor(n) = {}
  BY DEF Configs, ActiveFor
<1>2. \A x \in Worker : job[x] = Idle /\ ~Creating(x) /\ ~Updating(x) /\ ~Asking(x)
  BY IdleIsNothing
<1>3. Types
  BY PhonesAssumption DEF Types, ProductRow, Product
<1>4. OnlyDefault /\ OneProductEach
  BY <1>1, <1>2, PhonesAssumption DEF OnlyDefault, OneProductEach, Product
<1>5. OneActive /\ SomeActive
  BY <1>1 DEF OneActive, SomeActive
<1>6. WritesFit /\ OneEach
  BY <1>1, <1>2 DEF WritesFit, OneEach, ConfigsOf, CreatingFor
<1> QED
  BY <1>3, <1>4, <1>5, <1>6 DEF PhonesInv

\* While the server starts, workers are idle.
LEMMA NobodyWorks ==
    ASSUME PhonesInv, start # "serving"
    PROVE  \A x \in Worker : /\ job[x] = Idle
                             /\ ~Creating(x) /\ ~Updating(x) /\ ~Asking(x) /\ ~Activating(x)
BY IdleIsNothing DEF PhonesInv, OnlyDefault

LEMMA CreateDefaultKeeps ==
    ASSUME PhonesInv, CreateDefault
    PROVE  PhonesInv'
<1> USE DEF PhonesInv
<1>1. /\ start = "up" /\ start' = "associate"
      /\ UNCHANGED <<product, job, requests, faults, mixed, doubled>>
  BY DEF CreateDefault
<1>2. \A x \in Worker : /\ job[x] = Idle
                        /\ ~Creating(x) /\ ~Updating(x) /\ ~Asking(x) /\ ~Activating(x)
                        /\ ~Creating(x)' /\ ~Updating(x)' /\ ~Asking(x)' /\ ~Activating(x)'
  BY <1>1, NobodyWorks DEF Creating, Updating, Asking, Activating
<1>3. product = {Product(Default, None)} /\ mixed = {} /\ doubled = {}
  BY <1>1 DEF OnlyDefault
<1>4. \A k \in Configs : /\ config[k] = Config(Default, OwnNumber, OwnToken, TRUE)
                         /\ k \in Key /\ \A m \in Configs : k = m
  BY <1>1 DEF OnlyDefault, Configs
<1>5. CASE OwnNumber = None \/ \E k \in ConfigsOf(Default) : config[k].number = OwnNumber
  <2>1. UNCHANGED <<config, lost>>
    BY <1>5 DEF CreateDefault
  <2>2. /\ Configs' = Configs /\ \A w : ConfigsOf(w)' = ConfigsOf(w)
        /\ \A n : ActiveFor(n)' = ActiveFor(n)
    BY <2>1 DEF Configs, ConfigsOf, ActiveFor
  <2>3. Types' /\ OneActive'
    BY <1>1, <1>2, <2>1, <2>2 DEF Types, OneActive
  <2>4. OnlyDefault'
    BY <1>1, <1>2, <1>3, <1>4, <1>5, <2>1, <2>2 DEF OnlyDefault, ConfigsOf
  <2>5. OneProductEach'
    BY <1>1, <2>1, <2>2 DEF OneProductEach
  <2>6. SomeActive'
    BY <1>1, <1>2, <2>1, <2>2 DEF SomeActive, Interrupted
  <2>7. WritesFit' /\ OneEach'
    BY <1>1, <1>2, <2>1, <2>2 DEF WritesFit, OneEach, CreatingFor, FitTogether
  <2> QED
    BY <2>3, <2>4, <2>5, <2>6, <2>7
<1>6. CASE ~(OwnNumber = None \/ \E k \in ConfigsOf(Default) : config[k].number = OwnNumber)
  <2> DEFINE row == Config(Default, OwnNumber, OwnToken, TRUE)
  <2>1. PICK k \in Key : /\ config' = [config EXCEPT ![k] = row]
                         /\ lost' = lost \ {OwnNumber}
    BY <1>6 DEF CreateDefault
  <2>2. /\ row \in ConfigRow /\ row # None /\ row.workspace = Default /\ row.number = OwnNumber
        /\ row.token = OwnToken /\ row.active = TRUE /\ OwnNumber \in Number
    <3>1. OwnNumber \in Number /\ OwnToken \in Token /\ Default \in Workspace
      BY <1>6, PhonesAssumption
    <3>2. row \in ConfigRow
      BY <3>1 DEF Config, ConfigRow
    <3> QED
      BY <3>1, <3>2, NoneAssumption DEF Config
  <2>3. Configs = {}
    BY <1>4, <1>6, <2>2 DEF ConfigsOf
  <2>4. /\ config' \in [Key -> ConfigRow \cup {None}]
        /\ config'[k] = row /\ \A m \in Key : m # k => config'[m] = None
    BY <2>1, <2>2, <2>3 DEF Types, Configs
  <2> HIDE DEF row
  <2>5. /\ Configs' = {k} /\ ConfigsOf(Default)' = {k}
        /\ \A w : w # Default => ConfigsOf(w)' = {}
        /\ \A n : ActiveFor(n)' = IF n = OwnNumber THEN {k} ELSE {}
    BY <2>2, <2>4 DEF Configs, ConfigsOf, ActiveFor
  <2>6. Types' /\ OneActive'
    BY <1>1, <1>2, <2>4, <2>5 DEF Types, OneActive
  <2>7. OnlyDefault'
    BY <1>1, <1>2, <1>3, <2>4, <2>5 DEF OnlyDefault, row
  <2>8. OneProductEach'
    BY <1>1, <1>3, <2>5 DEF OneProductEach, Product
  <2>9. SomeActive'
    <3>1. \A n \in Number : n \in lost
      BY <1>2, <2>3 DEF SomeActive, Interrupted, ActiveFor
    <3> QED
      BY <2>1, <2>5, <3>1 DEF SomeActive
  <2>10. WritesFit'
    BY <1>2, <2>2, <2>4, <2>5 DEF WritesFit, FitTogether
  <2>11. OneEach'
    BY <1>2, <2>5 DEF OneEach, CreatingFor
  <2> QED
    BY <2>6, <2>7, <2>8, <2>9, <2>10, <2>11
<1> QED
  BY <1>5, <1>6

LEMMA AssociateKeeps ==
    ASSUME PhonesInv, Associate
    PROVE  PhonesInv'
<1> USE DEF PhonesInv
<1> DEFINE own == {k \in ConfigsOf(Default) : config[k].number = OwnNumber}
<1>1. /\ start = "associate" /\ start' = "serving"
      /\ product' = IF own = {} THEN product
                    ELSE {IF p = Product(Default, None) THEN Product(Default, Min(own)) ELSE p :
                            p \in product}
      /\ UNCHANGED <<config, job, requests, faults, lost, mixed, doubled>>
  BY DEF Associate, history
<1>2. \A x \in Worker : /\ job[x] = Idle
                        /\ ~Creating(x) /\ ~Updating(x) /\ ~Asking(x) /\ ~Activating(x)
                        /\ ~Creating(x)' /\ ~Updating(x)' /\ ~Asking(x)' /\ ~Activating(x)'
  BY <1>1, NobodyWorks DEF Creating, Updating, Asking, Activating
<1>3. product = {Product(Default, None)}
  BY <1>1 DEF OnlyDefault
<1>4. \A k \in Configs : /\ k \in Key /\ config[k] = Config(Default, OwnNumber, OwnToken, TRUE)
                         /\ \A m \in Configs : k = m
  BY <1>1 DEF OnlyDefault, Configs
<1>5. own = Configs
  BY <1>4 DEF ConfigsOf, Config
<1>6. /\ Configs' = Configs /\ \A w : ConfigsOf(w)' = ConfigsOf(w)
      /\ \A n : ActiveFor(n)' = ActiveFor(n)
  BY <1>1 DEF Configs, ConfigsOf, ActiveFor
<1>7. OneProductEach' /\ product' \subseteq ProductRow
  <2>1. CASE Configs = {}
    BY <1>1, <1>3, <1>5, <1>6, <2>1, PhonesAssumption DEF OneProductEach, Product, ProductRow
  <2>2. CASE Configs # {}
    <3>1. PICK k \in Configs : Configs = {k}
      BY <1>4, <2>2
    <3>2. k \in Nat /\ k \in Key /\ config[k].workspace = Default
      <4>1. config[k] = Config(Default, OwnNumber, OwnToken, TRUE)
        BY <1>4
      <4>2. config[k].workspace = Default
        BY <4>1 DEF Config
      <4> QED
        BY <1>4, <4>2, PhonesAssumption
    <3>3. Min({k}) = k
      BY <3>2 DEF Min
    <3>4. own = {k}
      BY <1>5, <3>1
    <3>5. product' = {Product(Default, k)}
      BY <1>1, <1>3, <3>3, <3>4
    <3>6. Product(Default, k) \in ProductRow
      BY <3>2, PhonesAssumption DEF Product, ProductRow
    <3>7. Product(Default, k).config = k /\ Product(Default, k).workspace = Default
      BY DEF Product
    <3>8. config' = config /\ Configs' = {k}
      BY <1>1, <1>6, <3>1
    <3> QED
      BY <3>2, <3>5, <3>6, <3>7, <3>8 DEF OneProductEach
  <2> QED
    BY <2>1, <2>2
<1>8. Types' /\ OneActive' /\ OnlyDefault'
  BY <1>1, <1>2, <1>6, <1>7 DEF Types, OneActive, OnlyDefault
<1>9. SomeActive'
  BY <1>1, <1>2, <1>6 DEF SomeActive, Interrupted
<1>10. WritesFit' /\ OneEach'
  BY <1>1, <1>2, <1>6 DEF WritesFit, OneEach, CreatingFor, FitTogether
<1> QED
  BY <1>7, <1>8, <1>9, <1>10

LEMMA StartFailsKeeps ==
    ASSUME PhonesInv, StartFails
    PROVE  PhonesInv'
<1> USE DEF PhonesInv
<1>1. /\ start = "associate" /\ start' = "up"
      /\ UNCHANGED <<config, product, job, requests, lost, mixed, doubled>>
  BY DEF StartFails, history
<1>2. /\ Configs' = Configs /\ \A w : ConfigsOf(w)' = ConfigsOf(w)
      /\ \A n : ActiveFor(n)' = ActiveFor(n)
  BY <1>1 DEF Configs, ConfigsOf, ActiveFor
<1>3. \A x \in Worker : /\ job[x] = Idle
                        /\ ~Creating(x) /\ ~Updating(x) /\ ~Asking(x) /\ ~Activating(x)
                        /\ ~Creating(x)' /\ ~Updating(x)' /\ ~Asking(x)' /\ ~Activating(x)'
  BY <1>1, NobodyWorks DEF Creating, Updating, Asking, Activating
<1>4. Types' /\ OnlyDefault' /\ OneProductEach' /\ OneActive'
  BY <1>1, <1>2, <1>3 DEF Types, OnlyDefault, OneProductEach, OneActive
<1>5. SomeActive' /\ WritesFit' /\ OneEach'
  BY <1>1, <1>2, <1>3 DEF SomeActive, Interrupted, WritesFit, OneEach, CreatingFor, FitTogether
<1> QED
  BY <1>4, <1>5
-----------------------------------------------------------------------------
(* Requests.                                                               *)

LEMMA BusyIsServing ==
    ASSUME PhonesInv, NEW x \in Worker, job[x].at # "idle"
    PROVE  start = "serving" /\ (start' = start => OnlyDefault')
<1>1. job[x] # Idle
  BY DEF Idle
<1> QED
  BY <1>1 DEF PhonesInv, OnlyDefault

LEMMA StartCreateKeeps ==
    ASSUME PhonesInv, NEW x \in Worker, StartCreate(x)
    PROVE  PhonesInv'
<1> USE DEF PhonesInv
<1>1. PICK w \in Workspace, n \in Number, t \in Token, a \in BOOLEAN :
           /\ HasNone(w) /\ Vouched(t, n)
           /\ job' = [job EXCEPT ![x] = [at |-> "deactivate", key |-> None, workspace |-> w,
                                         number |-> n, token |-> t, active |-> a, reads |-> n]]
           /\ doubled' = IF \E y \in Worker : job[y].at # "idle" /\ job[y].workspace = w
                         THEN doubled \cup {w} ELSE doubled
  BY DEF StartCreate
<1> DEFINE j == [at |-> "deactivate", key |-> None, workspace |-> w, number |-> n,
                 token |-> t, active |-> a, reads |-> n]
<1>2. /\ start = "serving" /\ job[x].at = "idle"
      /\ UNCHANGED <<start, config, product, lost, mixed>>
  BY DEF StartCreate, NewRequest
<1>3. /\ DOMAIN job' = Worker /\ job'[x] = j
      /\ \A y \in Worker : y # x =>
           /\ job'[y] = job[y]
           /\ Creating(y)' <=> Creating(y)
           /\ Updating(y)' <=> Updating(y)
           /\ Asking(y)' <=> Asking(y)
           /\ Activating(y)' <=> Activating(y)
  BY <1>1, JobSet DEF Types
<1>4. Creating(x)' /\ ~Updating(x)' /\ ~Asking(x)' /\ job'[x].at = "deactivate"
  BY <1>3, NoneAssumption DEF Creating, Updating, Asking
<1>5. job[x] = Idle /\ ~Creating(x) /\ ~Updating(x) /\ ~Asking(x)
  BY <1>2, JobKinds, IdleIsNothing
<1>6. /\ Configs' = Configs /\ \A v : ConfigsOf(v)' = ConfigsOf(v)
      /\ \A m : ActiveFor(m)' = ActiveFor(m)
  BY <1>2 DEF Configs, ConfigsOf, ActiveFor
<1>7. Types' /\ OnlyDefault' /\ OneProductEach' /\ OneActive'
  BY <1>2, <1>3, <1>4, <1>6 DEF Types, OnlyDefault, OneProductEach, OneActive
<1>8. SomeActive'
  BY <1>2, <1>3, <1>4, <1>5, <1>6 DEF SomeActive, Interrupted, Idle
<1>9. WritesFit'
  <2>1. Vouched(job'[x].token, job'[x].number)
    BY <1>1, <1>3
  <2> QED
    BY <1>2, <1>3, <1>4, <1>6, <2>1 DEF WritesFit, FitTogether, Vouched
<1>10. OneEach'
  <2> SUFFICES ASSUME NEW v \in Workspace, v \notin doubled'
               PROVE  /\ \A k, m \in ConfigsOf(v)' : k = m
                      /\ \A y \in Worker : CreatingFor(y, v)' => ConfigsOf(v)' = {}
                      /\ \A y, z \in Worker : CreatingFor(y, v)' /\ CreatingFor(z, v)' => y = z
    BY DEF OneEach
  <2>1. v \notin doubled
    BY <1>1
  <2>2. \A y \in Worker : y # x => (CreatingFor(y, v)' <=> CreatingFor(y, v))
    BY <1>3 DEF CreatingFor
  <2>3. CreatingFor(x, v)' <=> v = w
    BY <1>3, <1>4 DEF CreatingFor
  <2>4. v = w => ConfigsOf(v) = {} /\ \A y \in Worker : ~CreatingFor(y, v)
    BY <1>1 DEF HasNone, CreatingFor, Creating
  <2> QED
    BY <1>6, <2>1, <2>2, <2>3, <2>4 DEF OneEach
<1> QED
  BY <1>7, <1>8, <1>9, <1>10

LEMMA StartUpdateKeeps ==
    ASSUME PhonesInv, NEW x \in Worker, StartUpdate(x)
    PROVE  PhonesInv'
<1> USE DEF PhonesInv
<1>1. PICK k \in Configs, n \in Number \cup {None}, t \in Token \cup {None},
           a \in BOOLEAN \cup {None} :
           /\ NeedsCheck(n, t, a) => Vouched(Proposed(config[k].token, t),
                                             Proposed(config[k].number, n))
           /\ job' = [job EXCEPT ![x] =
                [at |-> IF a = TRUE THEN "deactivate" ELSE "write", key |-> k, workspace |-> None,
                 number |-> n, token |-> t, active |-> a,
                 reads |-> Proposed(config[k].number, n)]]
           /\ mixed' = IF \E y \in Worker : job[y].at # "idle" /\ job[y].key = k
                       THEN mixed \cup {k} ELSE mixed
  BY DEF StartUpdate
<1> DEFINE j == [at |-> IF a = TRUE THEN "deactivate" ELSE "write", key |-> k,
                 workspace |-> None, number |-> n, token |-> t, active |-> a,
                 reads |-> Proposed(config[k].number, n)]
<1>2. /\ start = "serving" /\ job[x].at = "idle"
      /\ UNCHANGED <<start, config, product, lost, doubled>>
  BY DEF StartUpdate, NewRequest
<1>3. /\ DOMAIN job' = Worker /\ job'[x] = j
      /\ \A y \in Worker : y # x =>
           /\ job'[y] = job[y]
           /\ Creating(y)' <=> Creating(y)
           /\ Updating(y)' <=> Updating(y)
           /\ Asking(y)' <=> Asking(y)
           /\ Activating(y)' <=> Activating(y)
  BY <1>1, JobSet DEF Types
<1>4. k \in Key /\ config[k] \in ConfigRow
  BY DEF Configs, Types
<1>5. Proposed(config[k].number, n) \in Number
  BY <1>4 DEF Proposed, ConfigRow
<1>6. /\ Updating(x)' /\ ~Creating(x)' /\ ~Asking(x)'
      /\ job'[x].at = "write" => ~Activating(x)'
  BY <1>3, <1>4, <1>5, NoneAssumption DEF Creating, Updating, Asking, Activating
<1>7. job[x] = Idle /\ ~Creating(x) /\ ~Updating(x) /\ ~Asking(x)
  BY <1>2, JobKinds, IdleIsNothing
<1>8. /\ Configs' = Configs /\ \A v : ConfigsOf(v)' = ConfigsOf(v)
      /\ \A m : ActiveFor(m)' = ActiveFor(m)
  BY <1>2 DEF Configs, ConfigsOf, ActiveFor
<1>9. Types' /\ OnlyDefault' /\ OneProductEach' /\ OneActive'
  BY <1>2, <1>3, <1>6, <1>8 DEF Types, OnlyDefault, OneProductEach, OneActive
<1>10. SomeActive'
  BY <1>2, <1>3, <1>6, <1>7, <1>8 DEF SomeActive, Interrupted, Idle
<1>11. WritesFit'
  <2>1. mixed \subseteq mixed'
    BY <1>1
  <2>2. k \notin mixed' => FitTogether(Proposed(config[k].number, n), Proposed(config[k].token, t))
    <3>1. CASE NeedsCheck(n, t, a)
      BY <1>1, <3>1 DEF FitTogether
    <3>2. CASE ~NeedsCheck(n, t, a) /\ k \notin mixed
      <4>1. n = None /\ t = None
        BY <3>2 DEF NeedsCheck
      <4> QED
        BY <3>2, <4>1 DEF WritesFit, Proposed
    <3> QED
      BY <2>1, <3>1, <3>2
  <2>3. \A c \in Configs' \ mixed' : FitTogether(config'[c].number, config'[c].token)
    BY <1>2, <1>8, <2>1 DEF WritesFit
  <2>4. \A y \in Worker : Creating(y)' => Vouched(job'[y].token, job'[y].number)
    BY <1>3, <1>6 DEF WritesFit
  <2>5. ASSUME NEW y \in Worker, Updating(y)', job'[y].key \in Configs' \ mixed'
        PROVE  FitTogether(Proposed(config'[job'[y].key].number, job'[y].number),
                           Proposed(config'[job'[y].key].token, job'[y].token))
    <3>1. CASE y = x
      BY <1>2, <1>3, <2>2, <2>5, <3>1
    <3>2. CASE y # x
      BY <1>2, <1>3, <1>8, <2>1, <2>5, <3>2 DEF WritesFit
    <3> QED
      BY <3>1, <3>2
  <2>6. \A y \in Worker : y # x /\ Updating(y) /\ job[y].key = k => k \in mixed'
    BY <1>1 DEF Updating
  <2>7. ASSUME NEW y \in Worker, NEW z \in Worker, Updating(y)', Updating(z)', y # z,
               job'[y].key = job'[z].key, job'[y].key \in Configs'
        PROVE  job'[y].key \in mixed'
    <3>1. job'[x].key = k
      BY <1>3
    <3>2. CASE y = x \/ z = x
      BY <1>3, <2>6, <2>7, <3>1, <3>2
    <3>3. CASE y # x /\ z # x
      BY <1>3, <1>8, <2>1, <2>7, <3>3 DEF WritesFit
    <3> QED
      BY <3>2, <3>3
  <2>8. \A y \in Worker : Asking(y)' /\ job'[y].clean => FitTogether(job'[y].number, job'[y].token)
    BY <1>3, <1>6 DEF WritesFit
  <2> QED
    BY <2>3, <2>4, <2>5, <2>7, <2>8 DEF WritesFit
<1>12. OneEach'
  <2>1. \A y \in Worker, w \in Workspace : CreatingFor(y, w)' => CreatingFor(y, w)
    BY <1>3, <1>6 DEF CreatingFor
  <2> QED
    BY <1>2, <1>8, <2>1 DEF OneEach
<1> QED
  BY <1>9, <1>10, <1>11, <1>12

\* The configurations of the number are deactivated.
LEMMA DeactivateKeeps ==
    ASSUME PhonesInv, NEW x \in Worker, Deactivate(x)
    PROVE  PhonesInv'
<1> USE DEF PhonesInv
<1> DEFINE n == job[x].reads
           j == [job[x] EXCEPT !.at = "write"]
<1>1. /\ job[x].at = "deactivate"
      /\ config' = [k \in Key |-> IF k \in ActiveFor(n) THEN [config[k] EXCEPT !.active = FALSE]
                                  ELSE config[k]]
      /\ job' = [job EXCEPT ![x] = j]
      /\ lost' = IF job[x].active = TRUE THEN lost ELSE lost \cup {n}
      /\ UNCHANGED <<start, product, requests, faults, mixed, doubled>>
  BY DEF Deactivate, deactivate
<1>2. start = "serving"
  BY <1>1, BusyIsServing
<1>3. \A k \in ActiveFor(n) :
         /\ k \in Key /\ config[k] # None /\ [config[k] EXCEPT !.active = FALSE] \in ConfigRow
         /\ [config[k] EXCEPT !.active = FALSE] # None
         /\ [config[k] EXCEPT !.active = FALSE].workspace = config[k].workspace
         /\ [config[k] EXCEPT !.active = FALSE].number = config[k].number
         /\ [config[k] EXCEPT !.active = FALSE].token = config[k].token
         /\ ~[config[k] EXCEPT !.active = FALSE].active
  BY NoneAssumption DEF ActiveFor, Configs, Types, ConfigRow
<1>4. \A k \in Key : config'[k] = IF k \in ActiveFor(n) THEN [config[k] EXCEPT !.active = FALSE]
                                  ELSE config[k]
  BY <1>1
<1>5. RowsKept
  BY <1>1, <1>3 DEF RowsKept, Types
<1>6. \A m : ActiveFor(m)' = IF m = n THEN {} ELSE ActiveFor(m)
  <2>1. Configs' = Configs /\ \A k \in Configs : config'[k].number = config[k].number
    BY <1>5, SetsKept
  <2>2. \A k \in Configs : config'[k].active <=> config[k].active /\ config[k].number # n
    BY <1>3, <1>4 DEF Configs, ActiveFor
  <2> QED
    BY <2>1, <2>2 DEF ActiveFor
<1>7. /\ DOMAIN job' = Worker /\ job'[x] = j
      /\ \A y \in Worker : y # x => job'[y] = job[y] /\ (Activating(y)' <=> Activating(y))
  BY <1>1, JobSet DEF Types
<1>8. Creating(x) \/ Updating(x)
  BY <1>1, JobKinds
<1>9. /\ DOMAIN j = DOMAIN job[x] /\ j.at = "write" /\ j.key = job[x].key
      /\ j.workspace = job[x].workspace /\ j.number = job[x].number /\ j.token = job[x].token
      /\ j.active = job[x].active /\ j.reads = job[x].reads
  BY <1>8 DEF Creating, Updating
<1> HIDE DEF j
<1>10. /\ Creating(x)' <=> Creating(x)
       /\ Updating(x)' <=> Updating(x)
  <2>1. /\ Creating(x) => Creating(x)'
        /\ Updating(x) => Updating(x)'
    BY <1>1, <1>7, <1>9 DEF Creating, Updating
  <2>2. /\ ~(Creating(x) /\ Updating(x))
        /\ ~(Creating(x)' /\ Updating(x)')
    BY NoneAssumption DEF Creating, Updating
  <2> QED
    BY <1>8, <2>1, <2>2
<1>11. OneActive'
  BY <1>6 DEF OneActive
<1>12. SomeActive'
  <2> SUFFICES ASSUME NEW m \in Number
               PROVE  m \in lost' \/ Interrupted(m)' \/ ActiveFor(m)' # {}
    BY DEF SomeActive
  <2>1. CASE m = n /\ job[x].active = TRUE
    BY <1>7, <1>9, <2>1 DEF Interrupted, Activating
  <2>2. CASE m = n /\ job[x].active # TRUE
    BY <1>1, <2>2
  <2>3. CASE m # n
    <3>1. Interrupted(m) => Interrupted(m)'
      BY <1>1, <1>7 DEF Interrupted
    <3> QED
      BY <1>1, <1>6, <2>3, <3>1 DEF SomeActive
  <2> QED
    BY <2>1, <2>2, <2>3
<1> QED
  BY <1>1, <1>2, <1>5, <1>8, <1>9, <1>10, <1>11, <1>12, RequestStep

LEMMA AskKeeps ==
    ASSUME PhonesInv, NEW x \in Worker, NEW what, Ask(x, what)
    PROVE  PhonesInv'
<1> USE DEF PhonesInv
<1>1. PICK k \in Configs :
         job' = [job EXCEPT ![x] = [at |-> "ask", what |-> what, key |-> None, workspace |-> None,
                                    number |-> config[k].number, token |-> config[k].token,
                                    reads |-> None, clean |-> k \notin mixed]]
  BY DEF Ask, ConfigsOf
<1>2. /\ start = "serving" /\ job[x].at = "idle"
      /\ UNCHANGED <<start, config, product, lost, mixed, doubled>>
  BY DEF Ask, NewRequest, history
<1>3. /\ DOMAIN job' = Worker
      /\ job'[x].at = "ask" /\ job'[x].key = None /\ job'[x].workspace = None
      /\ job'[x].number = config[k].number /\ job'[x].token = config[k].token
      /\ job'[x].clean => k \notin mixed
      /\ \A y \in Worker : y # x =>
           /\ job'[y] = job[y]
           /\ Creating(y)' <=> Creating(y)
           /\ Updating(y)' <=> Updating(y)
           /\ Asking(y)' <=> Asking(y)
           /\ Activating(y)' <=> Activating(y)
  BY <1>1, JobSet DEF Types
<1>4. k \in Configs /\ config[k].number \in Number /\ config[k].token \in Token
  BY DEF Configs, Types, ConfigRow
<1>5. Asking(x)' /\ ~Creating(x)' /\ ~Updating(x)'
  BY <1>3, <1>4 DEF Creating, Updating, Asking
<1>6. job[x] = Idle /\ ~Creating(x) /\ ~Updating(x) /\ ~Asking(x)
  BY <1>2, JobKinds, IdleIsNothing
<1>7. /\ Configs' = Configs /\ \A v : ConfigsOf(v)' = ConfigsOf(v)
      /\ \A m : ActiveFor(m)' = ActiveFor(m)
  BY <1>2 DEF Configs, ConfigsOf, ActiveFor
<1>8. Types' /\ OnlyDefault' /\ OneProductEach' /\ OneActive'
  BY <1>2, <1>3, <1>5, <1>7 DEF Types, OnlyDefault, OneProductEach, OneActive
<1>9. SomeActive'
  BY <1>2, <1>3, <1>6, <1>7 DEF SomeActive, Interrupted, Idle
<1>10. WritesFit'
  <2>1. job'[x].clean => FitTogether(job'[x].number, job'[x].token)
    BY <1>3, <1>4 DEF WritesFit
  <2> QED
    BY <1>2, <1>3, <1>5, <1>7, <2>1 DEF WritesFit
<1>11. OneEach'
  BY <1>2, <1>3, <1>5, <1>7 DEF OneEach, CreatingFor
<1> QED
  BY <1>8, <1>9, <1>10, <1>11

\* A request is done and has stored nothing: if it took a number away, that has
\* an active configuration again or nobody need be active for it.
LEMMA DroppedKeeps ==
    ASSUME PhonesInv, NEW x \in Worker, job[x].at # "idle", job' = [job EXCEPT ![x] = Idle],
           UNCHANGED <<start, config, product, mixed, doubled>>, lost \subseteq lost',
           job[x].at = "write" /\ Activating(x)
             => job[x].reads \in lost' \/ ActiveFor(job[x].reads) # {}
    PROVE  PhonesInv'
<1> USE DEF PhonesInv
<1>1. start = "serving"
  BY BusyIsServing
<1>2. RowsKept
  BY DEF RowsKept, Types
<1>3. \A n : ActiveFor(n)' = ActiveFor(n)
  BY DEF ActiveFor, Configs
<1>4. /\ job'[x] = Idle
      /\ \A y \in Worker : y # x => job'[y] = job[y] /\ (Activating(y)' <=> Activating(y))
  BY JobSet DEF Types
<1>5. ~Creating(x)' /\ ~Updating(x)'
  BY <1>4, IdleIsNothing
<1>6. OneActive'
  BY <1>3 DEF OneActive
<1>7. SomeActive'
  BY <1>3, <1>4 DEF SomeActive, Interrupted
<1> QED
  BY <1>1, <1>2, <1>5, <1>6, <1>7, RequestStep

LEMMA FailKeeps ==
    ASSUME PhonesInv, NEW x \in Worker, Fail(x)
    PROVE  PhonesInv'
<1>1. /\ job[x].at # "idle" /\ job' = [job EXCEPT ![x] = Idle]
      /\ UNCHANGED <<start, config, product, mixed, doubled>> /\ lost \subseteq lost'
      /\ job[x].at = "write" /\ Activating(x) => job[x].reads \in lost'
  BY DEF Fail
<1> QED
  BY <1>1, DroppedKeeps

LEMMA AnsweredKeeps ==
    ASSUME PhonesInv, NEW x \in Worker, Answered(x)
    PROVE  PhonesInv'
<1>1. /\ job[x].at = "ask" /\ job' = [job EXCEPT ![x] = Idle]
      /\ UNCHANGED <<start, config, product, mixed, doubled, lost>>
  BY DEF Answered, history
<1> QED
  BY <1>1, DroppedKeeps

\* The index refuses a row only when the number has an active configuration.
LEMMA RefusedKeeps ==
    ASSUME PhonesInv, NEW x \in Worker, Refused(x)
    PROVE  PhonesInv'
<1> USE DEF PhonesInv
<1>1. /\ job[x].at = "write" /\ job' = [job EXCEPT ![x] = Idle]
      /\ UNCHANGED <<start, config, product, mixed, doubled>>
  BY DEF Refused
<1>2. lost \subseteq lost'
  BY DEF Refused
<1>3. ASSUME Activating(x)
      PROVE  job[x].reads \in lost' \/ ActiveFor(job[x].reads) # {}
  <2>1. CASE job[x].key = None
    <3>1. Creating(x)
      BY <1>1, <2>1, JobKinds
    <3>2. PICK row \in Created(x) : ~Allows(row, {})
      BY <2>1, NoneAssumption DEF Refused, Configs
    <3>3. row.number = job[x].number
      BY <3>2 DEF Created, Config
    <3> QED
      BY <3>1, <3>2, <3>3 DEF Allows, Creating
  <2>2. CASE job[x].key # None /\ Updated(x).number = job[x].reads
    <3>1. ~Allows(Updated(x), {job[x].key})
      BY <2>2 DEF Refused
    <3> QED
      BY <2>2, <3>1 DEF Allows
  <2>3. CASE job[x].key # None /\ Updated(x).number # job[x].reads
    BY <1>3, <2>3 DEF Refused
  <2> QED
    BY <2>1, <2>2, <2>3
<1> QED
  BY <1>1, <1>2, <1>3, DroppedKeeps

LEMMA InsertKeeps ==
    ASSUME PhonesInv, NEW x \in Worker, Insert(x)
    PROVE  PhonesInv'
<1> USE DEF PhonesInv
<1>1. PICK row \in Created(x), k \in Unused :
           /\ Allows(row, {})
           /\ config' = [config EXCEPT ![k] = row]
           /\ product' = product \cup {Product(row.workspace, k)}
           /\ lost' = IF row.active THEN lost \ {row.number} ELSE lost
  BY DEF Insert
<1>2. /\ job[x].at = "write" /\ job[x].key = None /\ job' = [job EXCEPT ![x] = Idle]
      /\ UNCHANGED <<start, mixed, doubled>>
  BY DEF Insert
<1>3. Creating(x) /\ start = "serving" /\ OnlyDefault'
  BY <1>2, JobKinds, BusyIsServing
<1>4. /\ row.workspace = job[x].workspace /\ row.number = job[x].number
      /\ row.token = job[x].token /\ (job[x].active = TRUE => row.active = TRUE)
      /\ row \in ConfigRow
  <2>1. /\ job[x].workspace \in Workspace /\ job[x].number \in Number
        /\ job[x].token \in Token /\ job[x].active \in BOOLEAN
    BY <1>3 DEF Creating
  <2>2. PICK a \in {job[x].active, TRUE} :
             row = Config(job[x].workspace, job[x].number, job[x].token, a)
    BY DEF Created
  <2>3. a \in BOOLEAN /\ (job[x].active = TRUE => a = TRUE)
    BY <2>1, <2>2, Zenon
  <2>4. row \in ConfigRow
    BY <2>1, <2>2, <2>3 DEF Config, ConfigRow
  <2>5. /\ row.workspace = job[x].workspace /\ row.number = job[x].number
        /\ row.token = job[x].token /\ row.active = a
    BY <2>2 DEF Config
  <2> QED
    BY <2>3, <2>4, <2>5
<1>5. row # None /\ row.workspace \in Workspace /\ row.number \in Number
  BY <1>4, NoneAssumption DEF ConfigRow
<1>6. /\ k \in Key /\ k \notin Configs
      /\ \A y \in Worker : Updating(y) => job[y].key # k
  BY DEF Unused, Updating
<1>7. /\ config' \in [Key -> ConfigRow \cup {None}]
      /\ config'[k] = row /\ \A m \in Key : m # k => config'[m] = config[m]
  BY <1>1, <1>4, <1>6 DEF Types
<1>8. /\ Configs' = Configs \cup {k}
      /\ \A w : ConfigsOf(w)' = IF w = row.workspace THEN ConfigsOf(w) \cup {k} ELSE ConfigsOf(w)
  BY <1>5, <1>6, <1>7 DEF Configs, ConfigsOf
<1>9. \A n : ActiveFor(n)' = IF n = row.number /\ row.active THEN ActiveFor(n) \cup {k}
                             ELSE ActiveFor(n)
  BY <1>5, <1>6, <1>7 DEF Configs, ActiveFor
<1>10. /\ DOMAIN job' = Worker /\ job'[x] = Idle
       /\ \A y \in Worker : y # x =>
            /\ job'[y] = job[y]
            /\ Creating(y)' <=> Creating(y)
            /\ Updating(y)' <=> Updating(y)
            /\ Asking(y)' <=> Asking(y)
            /\ Activating(y)' <=> Activating(y)
  BY <1>2, JobSet DEF Types
<1>11. ~Creating(x)' /\ ~Updating(x)' /\ ~Asking(x)' /\ ~Activating(x)'
  BY <1>10, IdleIsNothing
<1>12. Types'
  BY <1>1, <1>2, <1>5, <1>6, <1>7, <1>10 DEF Types, Product, ProductRow
<1>13. OneProductEach'
  <2>1. ASSUME NEW p \in product', p.config # None
        PROVE  p.config \in Configs' /\ config'[p.config].workspace = p.workspace
    <3>1. CASE p \in product
      <4>1. p.config \in Configs /\ p.config # k /\ p.config \in Key
        BY <1>6, <2>1, <3>1 DEF OneProductEach, Configs
      <4> QED
        BY <1>7, <1>8, <2>1, <3>1, <4>1 DEF OneProductEach
    <3>2. CASE p = Product(row.workspace, k)
      BY <1>7, <1>8, <3>2 DEF Product
    <3> QED
      BY <1>1, <3>1, <3>2
  <2>2. ASSUME NEW m \in Configs'
        PROVE  Product(config'[m].workspace, m) \in product'
    <3>1. CASE m = k
      BY <1>1, <1>7, <3>1
    <3>2. CASE m # k
      <4>1. m \in Configs /\ config'[m] = config[m]
        BY <1>7, <1>8, <3>2 DEF Configs
      <4> QED
        BY <1>1, <1>3, <4>1 DEF OneProductEach
    <3> QED
      BY <3>1, <3>2
  <2> QED
    BY <2>1, <2>2 DEF OneProductEach
<1>14. OneActive'
  BY <1>1, <1>9 DEF OneActive, Allows
<1>15. SomeActive'
  <2> SUFFICES ASSUME NEW n \in Number
               PROVE  n \in lost' \/ Interrupted(n)' \/ ActiveFor(n)' # {}
    BY DEF SomeActive
  <2>1. CASE n = row.number /\ row.active
    BY <1>9, <2>1
  <2>2. CASE ~(n = row.number /\ row.active)
    <3>1. n \in lost => n \in lost'
      BY <1>1, <2>2
    <3>2. Interrupted(n) => Interrupted(n)'
      BY <1>3, <1>4, <1>10, <2>2 DEF Interrupted, Activating, Creating
    <3> QED
      BY <1>9, <2>2, <3>1, <3>2 DEF SomeActive
  <2> QED
    BY <2>1, <2>2
<1>16. WritesFit'
  <2>1. FitTogether(row.number, row.token)
    BY <1>3, <1>4 DEF WritesFit, FitTogether
  <2>2. \A m \in Configs : config'[m] = config[m]
    BY <1>6, <1>7 DEF Configs
  <2>3. \A m \in Configs' \ mixed' : FitTogether(config'[m].number, config'[m].token)
    BY <1>2, <1>7, <1>8, <2>1, <2>2 DEF WritesFit
  <2>4. \A y \in Worker : Updating(y)' => Updating(y) /\ job'[y] = job[y] /\ y # x
    BY <1>10, <1>11
  <2>5. ASSUME NEW y \in Worker, Updating(y)', job'[y].key \in Configs' \ mixed'
        PROVE  FitTogether(Proposed(config'[job'[y].key].number, job'[y].number),
                           Proposed(config'[job'[y].key].token, job'[y].token))
    <3>1. job[y].key \in Configs \ mixed
      BY <1>2, <1>6, <1>8, <2>4, <2>5
    <3> QED
      BY <2>2, <2>4, <2>5, <3>1 DEF WritesFit
  <2>6. \A y, z \in Worker : Updating(y)' /\ Updating(z)' /\ y # z /\ job'[y].key = job'[z].key
                               => job'[y].key \notin Configs' \/ job'[y].key \in mixed'
    BY <1>2, <1>6, <1>8, <2>4 DEF WritesFit
  <2>7. \A y \in Worker : Creating(y)' => Vouched(job'[y].token, job'[y].number)
    BY <1>10, <1>11 DEF WritesFit
  <2>8. \A y \in Worker : Asking(y)' /\ job'[y].clean => FitTogether(job'[y].number, job'[y].token)
    BY <1>10, <1>11 DEF WritesFit
  <2> QED
    BY <2>3, <2>5, <2>6, <2>7, <2>8 DEF WritesFit
<1>17. OneEach'
  <2>1. \A y \in Worker, w \in Workspace : CreatingFor(y, w)' => CreatingFor(y, w) /\ y # x
    BY <1>10, <1>11 DEF CreatingFor
  <2>2. CreatingFor(x, row.workspace)
    BY <1>3, <1>4 DEF CreatingFor
  <2> QED
    BY <1>2, <1>8, <2>1, <2>2 DEF OneEach
<1> QED
  BY <1>3, <1>12, <1>13, <1>14, <1>15, <1>16, <1>17

LEMMA WriteKeeps ==
    ASSUME PhonesInv, NEW x \in Worker, Write(x)
    PROVE  PhonesInv'
<1> USE DEF PhonesInv
<1> DEFINE k == job[x].key
           old == config[k]
           new == Updated(x)
<1>1. /\ job[x].at = "write" /\ k \in Configs
      /\ Allows(new, {k})
      /\ config' = [config EXCEPT ![k] = new]
      /\ lost' = (lost \cup (IF old.active THEN {old.number} ELSE {})
                       \cup (IF Activating(x) THEN {job[x].reads} ELSE {}))
                 \ (IF new.active THEN {new.number} ELSE {})
      /\ job' = [job EXCEPT ![x] = Idle]
      /\ UNCHANGED <<start, product, mixed, doubled>>
  BY DEF Write
<1>2. Updating(x) /\ start = "serving" /\ OnlyDefault'
  BY <1>1, JobKinds, BusyIsServing, NoneAssumption DEF Configs
<1>3. k \in Key /\ old \in ConfigRow
  BY <1>1 DEF Configs, Types
<1>4. /\ new.workspace = old.workspace
      /\ new.number = Proposed(old.number, job[x].number)
      /\ new.token = Proposed(old.token, job[x].token)
      /\ new.active = Proposed(old.active, job[x].active)
  BY <1>3 DEF Updated, ConfigRow
<1>5. new \in ConfigRow /\ new # None
  <2>1. new \in ConfigRow
    BY <1>2, <1>3 DEF Updated, Proposed, ConfigRow, Updating
  <2> QED
    BY <2>1, NoneAssumption
<1>6. Activating(x) => new.active = TRUE
  BY <1>4, NoneAssumption DEF Activating, Proposed
<1> HIDE DEF new
<1>7. /\ config' \in [Key -> ConfigRow \cup {None}]
      /\ config'[k] = new /\ \A m \in Key : m # k => config'[m] = config[m]
  BY <1>1, <1>3, <1>5 DEF Types
<1>8. Configs' = Configs /\ \A w : ConfigsOf(w)' = ConfigsOf(w)
  BY <1>1, <1>4, <1>5, <1>7 DEF Configs, ConfigsOf
<1>9. \A n : ActiveFor(n)' = (ActiveFor(n) \ {k})
                             \cup (IF new.active /\ new.number = n THEN {k} ELSE {})
  BY <1>1, <1>7, <1>8 DEF Configs, ActiveFor
<1>10. /\ DOMAIN job' = Worker /\ job'[x] = Idle
       /\ \A y \in Worker : y # x =>
            /\ job'[y] = job[y]
            /\ Creating(y)' <=> Creating(y)
            /\ Updating(y)' <=> Updating(y)
            /\ Asking(y)' <=> Asking(y)
            /\ Activating(y)' <=> Activating(y)
  BY <1>1, JobSet DEF Types
<1>11. ~Creating(x)' /\ ~Updating(x)' /\ ~Asking(x)' /\ ~Activating(x)'
  BY <1>10, IdleIsNothing
<1>12. Types'
  BY <1>1, <1>7, <1>10 DEF Types
<1>13. OneProductEach'
  <2>1. \A m \in Configs : config'[m].workspace = config[m].workspace
    BY <1>4, <1>7 DEF Configs
  <2> QED
    BY <1>1, <1>8, <2>1 DEF OneProductEach
<1>14. OneActive'
  BY <1>1, <1>9 DEF OneActive, Allows
<1>15. SomeActive'
  <2> SUFFICES ASSUME NEW n \in Number, n \notin lost', ~Interrupted(n)'
               PROVE  ActiveFor(n)' # {}
    BY DEF SomeActive
  <2>1. CASE new.active /\ new.number = n
    BY <1>9, <2>1
  <2>2. CASE ~(new.active /\ new.number = n)
    <3>1. /\ n \notin lost /\ ~(old.active /\ old.number = n)
          /\ ~(Activating(x) /\ job[x].reads = n)
      BY <1>1, <2>2
    <3>2. ~Interrupted(n)
      BY <1>10, <3>1 DEF Interrupted
    <3>3. PICK m \in ActiveFor(n) : TRUE
      BY <3>1, <3>2 DEF SomeActive
    <3>4. m # k
      BY <3>1 DEF ActiveFor
    <3> QED
      BY <1>9, <3>3, <3>4
  <2> QED
    BY <2>1, <2>2
<1>16. WritesFit'
  <2>1. k \notin mixed => FitTogether(new.number, new.token)
    BY <1>1, <1>2, <1>4 DEF WritesFit
  <2>2. \A m \in Configs : m # k => config'[m] = config[m]
    BY <1>7 DEF Configs
  <2>3. \A m \in Configs' \ mixed' : FitTogether(config'[m].number, config'[m].token)
    BY <1>1, <1>7, <1>8, <2>1, <2>2 DEF WritesFit
  <2>4. \A y \in Worker : Updating(y)' => Updating(y) /\ job'[y] = job[y] /\ y # x
    BY <1>10, <1>11
  <2>5. ASSUME NEW y \in Worker, Updating(y)', job'[y].key \in Configs' \ mixed'
        PROVE  FitTogether(Proposed(config'[job'[y].key].number, job'[y].number),
                           Proposed(config'[job'[y].key].token, job'[y].token))
    <3>1. job[y].key \in Configs \ mixed
      BY <1>1, <1>8, <2>4, <2>5
    <3>2. job[y].key # k
      BY <1>2, <2>4, <2>5, <3>1 DEF WritesFit
    <3> QED
      BY <2>2, <2>4, <2>5, <3>1, <3>2 DEF WritesFit
  <2>6. \A y, z \in Worker : Updating(y)' /\ Updating(z)' /\ y # z /\ job'[y].key = job'[z].key
                               => job'[y].key \notin Configs' \/ job'[y].key \in mixed'
    BY <1>1, <1>8, <2>4 DEF WritesFit
  <2>7. \A y \in Worker : Creating(y)' => Vouched(job'[y].token, job'[y].number)
    BY <1>10, <1>11 DEF WritesFit
  <2>8. \A y \in Worker : Asking(y)' /\ job'[y].clean => FitTogether(job'[y].number, job'[y].token)
    BY <1>10, <1>11 DEF WritesFit
  <2> QED
    BY <2>3, <2>5, <2>6, <2>7, <2>8 DEF WritesFit
<1>17. OneEach'
  <2>1. \A y \in Worker, w \in Workspace : CreatingFor(y, w)' => CreatingFor(y, w)
    BY <1>10, <1>11 DEF CreatingFor
  <2> QED
    BY <1>1, <1>8, <2>1 DEF OneEach
<1> QED
  BY <1>2, <1>12, <1>13, <1>14, <1>15, <1>16, <1>17

LEMMA DeleteKeeps ==
    ASSUME PhonesInv, NEW k \in Key, Delete(k)
    PROVE  PhonesInv'
<1> USE DEF PhonesInv
<1>1. /\ start = "serving" /\ k \in Configs
      /\ config' = [config EXCEPT ![k] = None]
      /\ product' = {IF p.config = k THEN [p EXCEPT !.config = None] ELSE p : p \in product}
      /\ lost' = IF config[k].active THEN lost \cup {config[k].number} ELSE lost
      /\ mixed' = mixed \ {k}
      /\ UNCHANGED <<start, job, doubled>>
  BY DEF Delete
<1>2. /\ config' \in [Key -> ConfigRow \cup {None}]
      /\ config'[k] = None /\ \A m \in Key : m # k => config'[m] = config[m]
  BY <1>1 DEF Types
<1>3. /\ Configs' = Configs \ {k}
      /\ \A w : ConfigsOf(w)' = ConfigsOf(w) \ {k}
      /\ \A n : ActiveFor(n)' = ActiveFor(n) \ {k}
  BY <1>2 DEF Configs, ConfigsOf, ActiveFor
<1>4. \A m \in Configs' : config'[m] = config[m] /\ m # k /\ m \in Configs
  BY <1>2, <1>3 DEF Configs
<1>5. \A y \in Worker : /\ Creating(y)' <=> Creating(y)
                        /\ Updating(y)' <=> Updating(y)
                        /\ Asking(y)' <=> Asking(y)
                        /\ Activating(y)' <=> Activating(y)
  BY <1>1 DEF Creating, Updating, Asking, Activating
<1>6. \A p \in product : /\ [p EXCEPT !.config = None] \in ProductRow
                         /\ [p EXCEPT !.config = None].config = None
  BY DEF Types, ProductRow
<1>7. product' \subseteq ProductRow
  BY <1>1, <1>6 DEF Types
<1>8. Types' /\ OnlyDefault'
  BY <1>1, <1>2, <1>5, <1>7 DEF Types, OnlyDefault
<1>9. OneProductEach'
  <2>1. ASSUME NEW q \in product', q.config # None
        PROVE  q \in product /\ q.config # k
    BY <1>1, <1>6, <2>1
  <2>2. \A q \in product' : q.config # None =>
          q.config \in Configs' /\ config'[q.config].workspace = q.workspace
    BY <1>3, <1>4, <2>1 DEF OneProductEach
  <2>3. ASSUME NEW m \in Configs'
        PROVE  Product(config'[m].workspace, m) \in product'
    <3>1. Product(config[m].workspace, m) \in product
      BY <1>1, <1>4 DEF OneProductEach
    <3>2. Product(config[m].workspace, m).config # k
      BY <1>4 DEF Product
    <3> QED
      BY <1>1, <1>4, <3>1, <3>2
  <2> QED
    BY <2>2, <2>3 DEF OneProductEach
<1>10. OneActive'
  BY <1>3 DEF OneActive
<1>11. SomeActive'
  <2> SUFFICES ASSUME NEW n \in Number, n \notin lost', ~Interrupted(n)'
               PROVE  ActiveFor(n)' # {}
    BY DEF SomeActive
  <2>1. n \notin lost /\ ~(config[k].active /\ config[k].number = n)
    BY <1>1
  <2>2. ~Interrupted(n)
    BY <1>1, <1>5 DEF Interrupted
  <2>3. k \notin ActiveFor(n)
    BY <2>1 DEF ActiveFor
  <2> QED
    BY <1>3, <2>1, <2>2, <2>3 DEF SomeActive
<1>12. WritesFit'
  BY <1>1, <1>3, <1>4, <1>5 DEF WritesFit
<1>13. OneEach'
  BY <1>1, <1>3, <1>5 DEF OneEach, CreatingFor
<1> QED
  BY <1>8, <1>9, <1>10, <1>11, <1>12, <1>13
-----------------------------------------------------------------------------
LEMMA PhonesStep == PhonesInv /\ [Next]_vars => PhonesInv'
<1> SUFFICES ASSUME PhonesInv, [Next]_vars
             PROVE  PhonesInv'
  OBVIOUS
<1>1. CASE CreateDefault \/ Associate \/ StartFails
  BY <1>1, CreateDefaultKeeps, AssociateKeeps, StartFailsKeeps
<1>2. ASSUME NEW x \in Worker,
             \/ StartCreate(x) \/ StartUpdate(x) \/ Deactivate(x) \/ Insert(x)
             \/ Write(x) \/ Refused(x) \/ Fail(x) \/ Answered(x)
      PROVE  PhonesInv'
  BY <1>2, StartCreateKeeps, StartUpdateKeeps, DeactivateKeeps, InsertKeeps, WriteKeeps,
     RefusedKeeps, FailKeeps, AnsweredKeeps
<1>3. ASSUME NEW x \in Worker,
             \/ RequestCode(x) \/ VerifyCode(x) \/ PinAuthenticate(x)
             \/ Register(x) \/ DeRegister(x)
      PROVE  PhonesInv'
  BY <1>3, AskKeeps DEF RequestCode, VerifyCode, PinAuthenticate, Register, DeRegister
<1>4. ASSUME NEW k \in Key, Delete(k)
      PROVE  PhonesInv'
  BY <1>4, DeleteKeeps
<1>5. CASE UNCHANGED vars
  <2> USE <1>5 DEF vars, history
  <2>1. /\ Configs' = Configs /\ \A w : ConfigsOf(w)' = ConfigsOf(w)
        /\ \A n : ActiveFor(n)' = ActiveFor(n)
    BY DEF Configs, ConfigsOf, ActiveFor
  <2>2. \A y \in Worker : /\ Creating(y)' <=> Creating(y)
                          /\ Updating(y)' <=> Updating(y)
                          /\ Asking(y)' <=> Asking(y)
                          /\ Activating(y)' <=> Activating(y)
    BY DEF Creating, Updating, Asking, Activating
  <2>3. Types' /\ OnlyDefault' /\ OneProductEach' /\ OneActive' /\ SomeActive'
    BY <2>1, <2>2 DEF PhonesInv, Types, OnlyDefault, OneProductEach, OneActive, SomeActive,
                      Interrupted
  <2>4. WritesFit' /\ OneEach'
    BY <2>1, <2>2 DEF PhonesInv, WritesFit, OneEach, CreatingFor
  <2> QED
    BY <2>3, <2>4 DEF PhonesInv
<1> QED
  BY <1>1, <1>2, <1>3, <1>4, <1>5 DEF Next
LEMMA PhonesAlways == Spec => []PhonesInv
<1>1. Init => PhonesInv
  BY PhonesInit
<1>2. PhonesInv /\ [Next]_vars => PhonesInv'
  BY PhonesStep
<1> QED
  BY <1>1, <1>2, PTL DEF Spec
-----------------------------------------------------------------------------
(* What the invariant says of the lookups.                                 *)

\* The products of a configuration: while requests are served, one.
LEMMA ProductsOfOne ==
    ASSUME PhonesInv, start = "serving", NEW k \in Configs
    PROVE  ProductsOf(k) = {Product(config[k].workspace, k)}
<1>1. Product(config[k].workspace, k) \in ProductsOf(k)
  BY DEF PhonesInv, OneProductEach, ProductsOf, Product
<1>2. ASSUME NEW p \in ProductsOf(k)
      PROVE  p = Product(config[k].workspace, k)
  <2>1. p \in product /\ p \in ProductRow /\ p.config = k /\ k # None
    BY NoneAssumption DEF ProductsOf, PhonesInv, Types, Configs
  <2>2. p.workspace = config[k].workspace
    BY <2>1 DEF PhonesInv, OneProductEach
  <2> QED
    BY <2>1, <2>2 DEF ProductRow, Product
<1> QED
  BY <1>1, <1>2

\* The phones of the products of a workspace are its configurations.
LEMMA PhonesAreConfigs ==
    ASSUME PhonesInv, start = "serving", NEW w \in Workspace
    PROVE  PhonesOfProducts(w) = ConfigsOf(w)
<1>1. ASSUME NEW k \in PhonesOfProducts(w)
      PROVE  k \in ConfigsOf(w)
  <2>1. PICK p \in product : p.workspace = w /\ p.config = k /\ k # None
    BY DEF PhonesOfProducts
  <2> QED
    BY <2>1 DEF PhonesInv, OneProductEach, ConfigsOf
<1>2. ASSUME NEW k \in ConfigsOf(w)
      PROVE  k \in PhonesOfProducts(w)
  <2>1. k \in Configs /\ config[k].workspace = w /\ k # None
    BY NoneAssumption DEF ConfigsOf, Configs
  <2>2. Product(w, k) \in product
    BY <2>1 DEF PhonesInv, OneProductEach
  <2> QED
    BY <2>1, <2>2 DEF PhonesOfProducts, Product
<1> QED
  BY <1>1, <1>2

\* The first of at most one configuration is that one.
LEMMA FirstIsOnly ==
    ASSUME NEW w \in Workspace, OneConfig(w)
    PROVE  GetFirstConfigAPIByWorkspace(w) = ConfigsOf(w)
<1>1. CASE ConfigsOf(w) = {}
  BY <1>1 DEF GetFirstConfigAPIByWorkspace
<1>2. CASE ConfigsOf(w) # {}
  <2>1. PICK k : k \in ConfigsOf(w)
    BY <1>2
  <2>2. ConfigsOf(w) = {k} /\ k \in Nat
    <3>1. k \in Nat
      BY <2>1, PhonesAssumption DEF ConfigsOf, Configs
    <3>2. \A m \in ConfigsOf(w) : m = k
      BY <2>1 DEF OneConfig
    <3> QED
      BY <2>1, <3>1, <3>2
  <2>3. Min({k}) = k
    BY <2>2 DEF Min
  <2> QED
    BY <2>2, <2>3 DEF GetFirstConfigAPIByWorkspace
<1> QED
  BY <1>1, <1>2
-----------------------------------------------------------------------------
(* The theorems.                                                           *)

\* The server starts, serves and is started again with whole tables: products
\* refer to configurations of their own workspace and, while requests are
\* served, every active configuration has one.
THEOREM PhonesAreWhole == Spec => []TypeOK
<1>1. PhonesInv => TypeOK
  <2> SUFFICES ASSUME PhonesInv
               PROVE  TypeOK
    OBVIOUS
  <2>1. ASSUME start = "serving", NEW n \in Number, NEW k \in requirePhoneConfig(n)
        PROVE  ProductsOf(k) # {}
    BY <2>1, ProductsOfOne DEF requirePhoneConfig, ActiveFor
  <2> QED
    BY <2>1 DEF PhonesInv, Types, OneProductEach, TypeOK
<1> QED
  BY <1>1, PhonesAlways, PTL

\* However many requests activate, take over, change and delete the
\* configurations of a number, and wherever they fail, a number that was made
\* active has one active configuration and one product for what callbacks
\* bring, except while the request that takes it over is between its two
\* statements and after the request that gave it up.
THEOREM NumbersStayServed == Spec => []NumberIsServed
<1>1. PhonesInv => NumberIsServed
  <2> SUFFICES ASSUME PhonesInv, NEW n \in Number, n \notin lost,
                      \A x \in Worker : ~(Activating(x) /\ job[x].reads = n)
               PROVE  /\ Cardinality(ActiveFor(n)) = 1
                      /\ start = "serving" => Cardinality(registerWabaWebhook(n)) = 1
    BY DEF NumberIsServed
  <2>1. PICK k : k \in ActiveFor(n)
    BY DEF PhonesInv, SomeActive, Interrupted
  <2>2. ActiveFor(n) = {k} /\ k \in Configs
    BY <2>1 DEF PhonesInv, OneActive, ActiveFor
  <2>3. ASSUME start = "serving"
        PROVE  registerWabaWebhook(n) = {Product(config[k].workspace, k)}
    BY <2>2, <2>3, ProductsOfOne DEF registerWabaWebhook, requirePhoneConfig
  <2> QED
    BY <2>2, <2>3, FS_Singleton
<1> QED
  BY <1>1, PhonesAlways, PTL

\* A configuration that no two requests wrote at once holds a number and a
\* token that WhatsApp accepted together, and whatever request is at WhatsApp
\* with such a configuration asks with such a pair, even when the row has
\* changed since.
THEOREM PairsAreVouched == Spec => []ConfigIsVouched
<1>1. PhonesInv => ConfigIsVouched
  BY JobKinds DEF PhonesInv, WritesFit, ConfigIsVouched
<1> QED
  BY <1>1, PhonesAlways, PTL

\* A workspace that two requests did not create a phone for at once has one,
\* and every workspace that has one, whatever it had before, sends everything
\* by it: media, templates, messages, typing and read marks.
THEOREM OnePhoneEach == Spec => []OnePhone
<1>1. PhonesInv => OnePhone
  <2> SUFFICES ASSUME PhonesInv, NEW w \in Workspace
               PROVE  /\ w \notin doubled => OneConfig(w)
                      /\ start = "serving" /\ OneConfig(w) =>
                           /\ GetFirstConfigAPIByWorkspace(w) = PhonesOfProducts(w)
                           /\ FirstProductPhones(w) \ {None} \subseteq PhonesOfProducts(w)
    BY DEF OnePhone, UploadWhatsAppMedia, GetWhatsAppMediaURL, DownloadWhatsAppMedia,
           DownloadFromMediaInfo, GetTemplates, SendTypingToUser, MarkWhatsAppMessageAsReadToUser
  <2>1. w \notin doubled => OneConfig(w)
    BY DEF PhonesInv, OneEach, OneConfig
  <2>2. ASSUME start = "serving", OneConfig(w)
        PROVE  GetFirstConfigAPIByWorkspace(w) = PhonesOfProducts(w)
    BY <2>2, FirstIsOnly, PhonesAreConfigs
  <2>3. FirstProductPhones(w) \ {None} = PhonesOfProducts(w)
    BY DEF FirstProductPhones, PhonesOfProducts
  <2> QED
    BY <2>1, <2>2, <2>3
<1> QED
  BY <1>1, PhonesAlways, PTL
=============================================================================

------------------------------- MODULE Phones -------------------------------
(***************************************************************************)
(* The phones of workspaces: each phone configuration holds a number       *)
(* (waba_id), a token of WhatsApp and whether it is active, and has a      *)
(* messaging product, to which messages and contacts belong.               *)
(*                                                                         *)
(* A request reads, asks WhatsApp whether the token may use the number,    *)
(* deactivates other configurations of the number, and writes, each in a   *)
(* statement of its own: nothing orders two requests.  WhatsApp's answer   *)
(* depends on nothing that is stored here and is part of the first step.   *)
(* An index lets a number have one active configuration.                   *)
(*                                                                         *)
(* At the first start the number in the environment becomes a              *)
(* configuration of the default workspace, and gets the product it had     *)
(* before there were configurations.                                       *)
(***************************************************************************)
EXTENDS Naturals, FiniteSets, FiniteSetsExt

CONSTANTS
    Key,            \* keys of configurations; lookups take the smallest
    Workspace, Default,
    Number, Token, None,
    Access,         \* pairs of a token and a number it may use
    OwnNumber,      \* what the environment names, or None
    OwnToken,
    Worker, MaxRequests, MaxFaults

ASSUME PhonesAssumption ==
    /\ Key \subseteq Nat /\ Default \in Workspace
    /\ Access \subseteq Token \X Number
    /\ OwnNumber \in Number \cup {None} /\ OwnToken \in Token
    /\ MaxRequests \in Nat /\ MaxFaults \in Nat

ConfigRow  == [workspace : Workspace, number : Number, token : Token, active : BOOLEAN]
ProductRow == [workspace : Workspace, config : Key \cup {None}]

ASSUME NoneAssumption ==
    /\ None \notin ConfigRow
    /\ None \notin Key /\ None \notin Workspace /\ None \notin Number
    /\ None \notin Token /\ None \notin BOOLEAN

VARIABLES
    start,      \* how far the start of the server has come
    config,     \* key -> row of phone_configs, or None
    product,    \* rows of messaging_products: workspace and configuration
    job,        \* worker -> the request it handles, and what it has read
    requests, faults,
    lost,       \* numbers that nobody need be active for (history)
    mixed,      \* configurations that two requests wrote at once (history)
    doubled     \* workspaces two requests created one for at once (history)

history == <<lost, mixed, doubled>>
vars    == <<start, config, product, job, requests, faults, history>>

Config(w, n, t, a) == [workspace |-> w, number |-> n, token |-> t, active |-> a]
Product(w, k) == [workspace |-> w, config |-> k]

Configs       == {k \in Key : config[k] # None}
ConfigsOf(w)  == {k \in Configs : config[k].workspace = w}
Unused        == {k \in Key \ Configs : \A x \in Worker : job[x].at # "idle" => job[x].key # k}
ActiveFor(n)  == {k \in Configs : config[k].number = n /\ config[k].active}

Idle == [at |-> "idle"]

Init ==
    /\ start = "up"
    /\ config = [k \in Key |-> None]
    /\ product = {Product(Default, None)}
    /\ job = [x \in Worker |-> Idle]
    /\ requests = 0 /\ faults = 0
    /\ lost = Number /\ mixed = {} /\ doubled = {}

----------------------------------------------------------------------------
(* The migration.  It writes the configuration by another connection, not   *)
(* in its transaction: a start that fails leaves it there.                  *)

CreateDefault ==
    /\ start = "up"
    /\ start' = "associate"
    /\ IF OwnNumber = None \/ \E k \in ConfigsOf(Default) : config[k].number = OwnNumber
       THEN UNCHANGED <<config, lost>>
       ELSE \E k \in Key :
              /\ config' = [config EXCEPT ![k] = Config(Default, OwnNumber, OwnToken, TRUE)]
              /\ lost' = lost \ {OwnNumber}
    /\ UNCHANGED <<product, job, requests, faults, mixed, doubled>>

\* The products of the default workspace that have no configuration get it.
Associate ==
    /\ start = "associate"
    /\ start' = "serving"
    /\ LET own == {k \in ConfigsOf(Default) : config[k].number = OwnNumber}
       IN  product' = IF own = {} THEN product
                      ELSE {IF p = Product(Default, None) THEN Product(Default, Min(own)) ELSE p :
                              p \in product}
    /\ UNCHANGED <<config, job, requests, faults, history>>

StartFails ==
    /\ start = "associate" /\ faults < MaxFaults
    /\ start' = "up" /\ faults' = faults + 1
    /\ UNCHANGED <<config, product, job, requests, history>>

----------------------------------------------------------------------------
(* Requests.                                                               *)

\* validatePhoneConfigOwnership
Vouched(t, n) == <<t, n>> \in Access

NewRequest(x) ==
    /\ start = "serving" /\ job[x].at = "idle" /\ requests < MaxRequests
    /\ requests' = requests + 1

Activating(x) == job[x].at \in {"deactivate", "write"} /\ job[x].active = TRUE

\* Not the code: only configurations that are active are counted.
HasNoActive(w) == \A k \in ConfigsOf(w) : ~config[k].active

\* A workspace that has a configuration gets no other one.
HasNone(w) == ConfigsOf(w) = {}

StartCreate(x) ==
    /\ NewRequest(x)
    /\ \E w \in Workspace, n \in Number, t \in Token, a \in BOOLEAN :
         /\ HasNone(w) /\ Vouched(t, n)
         /\ job' = [job EXCEPT ![x] = [at |-> "deactivate", key |-> None, workspace |-> w,
                                       number |-> n, token |-> t, active |-> a, reads |-> n]]
         /\ doubled' = IF \E y \in Worker : job[y].at # "idle" /\ job[y].workspace = w
                       THEN doubled \cup {w} ELSE doubled
    /\ UNCHANGED <<start, config, product, faults, lost, mixed>>

\* What WhatsApp is asked about is the number and the token that the row will
\* have: those of the request, and of the row as it was read for the rest.
Proposed(read, given) == IF given = None THEN read ELSE given

\* Not the code: a request that only brings a token is not checked.
NeedsCheckForNumber(n, t, a) == n # None \/ a = TRUE

\* None stands for what the request does not mention.
NeedsCheck(n, t, a) == n # None \/ t # None \/ a = TRUE

StartUpdate(x) ==
    /\ NewRequest(x)
    /\ \E k \in Configs, n \in Number \cup {None}, t \in Token \cup {None}, a \in BOOLEAN \cup {None} :
         LET number == Proposed(config[k].number, n)
         IN  /\ n # None \/ t # None \/ a # None
             /\ NeedsCheck(n, t, a) => Vouched(Proposed(config[k].token, t), number)
             /\ job' = [job EXCEPT ![x] =
                  [at |-> IF a = TRUE THEN "deactivate" ELSE "write", key |-> k, workspace |-> None,
                   number |-> n, token |-> t, active |-> a, reads |-> number]]
             /\ mixed' = IF \E y \in Worker : job[y].at # "idle" /\ job[y].key = k
                         THEN mixed \cup {k} ELSE mixed
    /\ UNCHANGED <<start, config, product, faults, lost, doubled>>

\* Not the code: whatever is active is deactivated.
deactivateAll(n) ==
    config' = [k \in Key |-> IF k \in Configs THEN [config[k] EXCEPT !.active = FALSE]
                             ELSE config[k]]

deactivate(n) ==
    config' = [k \in Key |-> IF k \in ActiveFor(n) THEN [config[k] EXCEPT !.active = FALSE]
                             ELSE config[k]]

\* A new configuration takes the number from those that have it, even when it
\* is not to be active.
Deactivate(x) ==
    /\ job[x].at = "deactivate"
    /\ deactivate(job[x].reads)
    /\ job' = [job EXCEPT ![x].at = "write"]
    /\ lost' = IF job[x].active = TRUE THEN lost ELSE lost \cup {job[x].reads}
    /\ UNCHANGED <<start, product, requests, faults, mixed, doubled>>

\* The index of active configurations by number.
Allows(row, keep) == row.active => ActiveFor(row.number) \subseteq keep

\* The row as the insertion may leave it: a column's default may stand in for
\* "not active".
Created(x) ==
    {Config(job[x].workspace, job[x].number, job[x].token, a) : a \in {job[x].active, TRUE}}

\* The configuration and its product, in one transaction.
Insert(x) ==
    /\ job[x].at = "write" /\ job[x].key = None
    /\ \E row \in Created(x) :
           /\ Allows(row, {})
           /\ \E k \in Unused :
                /\ config' = [config EXCEPT ![k] = row]
                /\ product' = product \cup {Product(row.workspace, k)}
           /\ lost' = IF row.active THEN lost \ {row.number} ELSE lost
    /\ job' = [job EXCEPT ![x] = Idle]
    /\ UNCHANGED <<start, requests, faults, mixed, doubled>>

\* The row as the statement leaves it: columns that are not mentioned stay.
Updated(x) ==
    LET old == config[job[x].key]
    IN  [old EXCEPT !.number = Proposed(@, job[x].number), !.token = Proposed(@, job[x].token),
                    !.active = Proposed(@, job[x].active)]

Write(x) ==
    /\ job[x].at = "write" /\ job[x].key \in Configs
    /\ LET k == job[x].key
           old == config[k]
       IN  /\ Allows(Updated(x), {k})
           /\ config' = [config EXCEPT ![k] = Updated(x)]
           /\ lost' = (lost \cup (IF old.active THEN {old.number} ELSE {})
                            \cup (IF Activating(x) THEN {job[x].reads} ELSE {}))
                      \ (IF Updated(x).active THEN {Updated(x).number} ELSE {})
    /\ job' = [job EXCEPT ![x] = Idle]
    /\ UNCHANGED <<start, product, requests, faults, mixed, doubled>>

\* The index refuses what was to be written; what was deactivated stays so.
Refused(x) ==
    /\ job[x].at = "write"
    /\ \/ /\ job[x].key = None
          /\ \E row \in Created(x) : ~Allows(row, {})
          /\ UNCHANGED lost
       \/ /\ job[x].key \in Configs
          /\ ~Allows(Updated(x), {job[x].key})
          /\ lost' = IF Activating(x) /\ Updated(x).number # job[x].reads
                     THEN lost \cup {job[x].reads} ELSE lost
    /\ job' = [job EXCEPT ![x] = Idle]
    /\ UNCHANGED <<start, config, product, requests, faults, mixed, doubled>>

\* The configuration is gone, or a statement or the process fails.
Fail(x) ==
    /\ \/ job[x].at = "write" /\ job[x].key # None /\ job[x].key \notin Configs /\ UNCHANGED faults
       \/ job[x].at # "idle" /\ faults < MaxFaults /\ faults' = faults + 1
    /\ lost' = IF job[x].at = "write" /\ Activating(x) THEN lost \cup {job[x].reads} ELSE lost
    /\ job' = [job EXCEPT ![x] = Idle]
    /\ UNCHANGED <<start, config, product, requests, mixed, doubled>>

\* The products of the configuration keep their messages and lose the phone;
\* where the schema refuses that, nothing happens.
Delete(k) ==
    /\ start = "serving" /\ requests < MaxRequests /\ k \in Configs
    /\ config' = [config EXCEPT ![k] = None]
    /\ product' = {IF p.config = k THEN [p EXCEPT !.config = None] ELSE p : p \in product}
    /\ requests' = requests + 1
    /\ lost' = IF config[k].active THEN lost \cup {config[k].number} ELSE lost
    /\ mixed' = mixed \ {k}
    /\ UNCHANGED <<start, job, faults, doubled>>

----------------------------------------------------------------------------
(* Registration.  A request reads a configuration of its workspace, active  *)
(* or not, and asks WhatsApp with the number and the token it read, however *)
(* long that takes and whatever becomes of the row.                        *)

Ask(x, what) ==
    /\ NewRequest(x)
    /\ \E w \in Workspace : \E k \in ConfigsOf(w) :
         job' = [job EXCEPT ![x] = [at |-> "ask", what |-> what, key |-> None, workspace |-> None,
                                    number |-> config[k].number, token |-> config[k].token,
                                    reads |-> None, clean |-> k \notin mixed]]
    /\ UNCHANGED <<start, config, product, faults, history>>

RequestCode(x)     == Ask(x, "send a code")
VerifyCode(x)      == Ask(x, "check a code")
PinAuthenticate(x) == Ask(x, "check a PIN")
Register(x)        == Ask(x, "register")
DeRegister(x)      == Ask(x, "deregister")

\* WhatsApp grants what is asked or refuses it; nothing is kept here.
Answered(x) ==
    /\ job[x].at = "ask"
    /\ job' = [job EXCEPT ![x] = Idle]
    /\ UNCHANGED <<start, config, product, requests, faults, history>>

----------------------------------------------------------------------------
(* Lookups.                                                                *)

\* A callback names a number; its messages go to the product of the phone.
requirePhoneConfig(n) == ActiveFor(n)
ProductsOf(k) == {p \in product : p.config = k}
registerWabaWebhook(n) == UNION {ProductsOf(k) : k \in requirePhoneConfig(n)}

\* Messages are sent by the phone of a product.
PhonesOfProducts(w) == {p.config : p \in {q \in product : q.workspace = w}} \ {None}

\* Media and templates are those of the first phone of the workspace: an
\* identifier that one phone uploaded means nothing to another one.
GetFirstConfigAPIByWorkspace(w) == IF ConfigsOf(w) = {} THEN {} ELSE {Min(ConfigsOf(w))}

UploadWhatsAppMedia(w)   == GetFirstConfigAPIByWorkspace(w)
GetWhatsAppMediaURL(w)   == GetFirstConfigAPIByWorkspace(w)
DownloadWhatsAppMedia(w) == GetFirstConfigAPIByWorkspace(w)
DownloadFromMediaInfo(w) == GetFirstConfigAPIByWorkspace(w)
GetTemplates(w)          == GetFirstConfigAPIByWorkspace(w)

\* A typing indicator and a read mark belong to the product of the workspace
\* that comes first, which may have lost its phone: then the handler stops at
\* an API that is not there.
FirstProductPhones(w) == {p.config : p \in {q \in product : q.workspace = w}}
SendTypingToUser(w)                == FirstProductPhones(w)
MarkWhatsAppMessageAsReadToUser(w) == FirstProductPhones(w)

----------------------------------------------------------------------------
Next ==
    \/ CreateDefault \/ Associate \/ StartFails
    \/ \E x \in Worker : StartCreate(x) \/ StartUpdate(x) \/ Deactivate(x) \/ Insert(x)
                         \/ Write(x) \/ Refused(x) \/ Fail(x)
                         \/ RequestCode(x) \/ VerifyCode(x) \/ PinAuthenticate(x)
                         \/ Register(x) \/ DeRegister(x) \/ Answered(x)
    \/ \E k \in Key : Delete(k)

Spec == Init /\ [][Next]_vars

----------------------------------------------------------------------------
(* Properties.                                                             *)

\* Products refer to configurations of their own workspace, and while requests
\* are served every configuration has one: what a callback brings has a place
\* to go to.
TypeOK ==
    /\ start \in {"up", "associate", "serving"}
    /\ config \in [Key -> ConfigRow \cup {None}] /\ product \subseteq ProductRow
    /\ \A p \in product : p.config # None =>
         p.config \in Configs /\ config[p.config].workspace = p.workspace
    /\ start = "serving" => \A n \in Number : \A k \in requirePhoneConfig(n) : ProductsOf(k) # {}

\* A number that was made active stays so, with one configuration, until that
\* is deactivated or deleted, gets another number, or a request that takes it
\* over fails: two that take it over at once never leave it without any.  What
\* a callback for the number brings then has one product to go to.
NumberIsServed ==
    \A n \in Number :
        (\A x \in Worker : ~(Activating(x) /\ job[x].reads = n)) /\ n \notin lost
        => /\ Cardinality(ActiveFor(n)) = 1
           /\ start = "serving" => Cardinality(registerWabaWebhook(n)) = 1

FitTogether(n, t) == Vouched(t, n) \/ <<t, n>> = <<OwnToken, OwnNumber>>

\* A configuration holds a number and a token that WhatsApp accepted together,
\* unless two requests wrote it at the same time: what is asked of WhatsApp
\* afterwards, by a request that may be slower than the next change, is asked
\* with such a pair too.
ConfigIsVouched ==
    /\ \A k \in Configs \ mixed : FitTogether(config[k].number, config[k].token)
    /\ \A x \in Worker : job[x].at = "ask" /\ job[x].clean => FitTogether(job[x].number, job[x].token)

OneConfig(w) == \A k, m \in ConfigsOf(w) : k = m

\* A workspace has one configuration, unless two were created for it at the
\* same time.  Whatever a workspace with one sends goes by the same phone, also
\* when it had two before: the phone that uploads a file is the one that sends
\* it, templates are read from the phone that uses them, and typing and read
\* marks go by that phone or by none.
OnePhone ==
    \A w \in Workspace :
        /\ w \notin doubled => OneConfig(w)
        /\ start = "serving" /\ OneConfig(w) =>
             /\ \A phones \in {UploadWhatsAppMedia(w), GetWhatsAppMediaURL(w),
                               DownloadWhatsAppMedia(w), DownloadFromMediaInfo(w), GetTemplates(w)} :
                  phones = PhonesOfProducts(w)
             /\ \A phones \in {SendTypingToUser(w), MarkWhatsAppMessageAsReadToUser(w)} :
                  phones \ {None} \subseteq PhonesOfProducts(w)

\* What the handler of the creation says it enforces.  The code does not: it
\* counts and inserts in statements of their own, so two requests that count
\* before either inserts make two configurations.
OneConfigEach == \A w \in Workspace : OneConfig(w)
=============================================================================

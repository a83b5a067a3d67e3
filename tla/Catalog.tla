------------------------------- MODULE Catalog -------------------------------
(***************************************************************************)
(* The catalogue of plans: administrators edit plans and their prices,     *)
(* customers check out, and the first checkout of a recurring price makes  *)
(* a product and a price at the payment provider and keeps their ids in    *)
(* the row.                                                                *)
(*                                                                         *)
(* Nothing orders two requests, and each statement of a request is a step  *)
(* of its own: a price becomes the default by a statement that unsets the  *)
(* others and a second one that writes it; a checkout reads the plan, then *)
(* the row of the price, and calls the provider for long after.            *)
(*                                                                         *)
(* A plan has one price in each currency, by a unique index.  A checkout   *)
(* in payment mode sends the amount it has read and keeps nothing, so      *)
(* checkouts here are those of subscriptions.                              *)
(***************************************************************************)
EXTENDS Naturals, FiniteSets, FiniteSetsExt, Sequences, PlanNames

CONSTANTS
    Currency, Cents,
    Price,              \* keys of prices; lookups take the smallest
    Offer,              \* key -> price, for those that are there at first
    Admin, Customer,    \* requests of administrators, checkouts
    MaxEdits, MaxFailures

\* A row of plan_prices: stripe and product are positions among what was made
\* at the provider, 0 for none.
PriceRow(p, c, n, d) ==
    [plan |-> p, currency |-> c, cents |-> n, default |-> d, stripe |-> 0, product |-> 0]

PriceRows == [plan : Plan, currency : Currency, cents : Cents, default : BOOLEAN,
              stripe : Nat, product : Nat]

ASSUME CatalogAssumption ==
    /\ Price \subseteq Nat /\ MaxEdits \in Nat /\ MaxFailures \in Nat
    /\ None \notin Currency \cup BOOLEAN \cup PriceRows
    /\ DOMAIN Offer \subseteq Price
    /\ \A i \in DOMAIN Offer :
         \E p \in Plan, c \in Currency, n \in Cents, d \in BOOLEAN : Offer[i] = PriceRow(p, c, n, d)
    /\ \A i, j \in DOMAIN Offer :
         i # j /\ Offer[i].plan = Offer[j].plan =>
           Offer[i].currency # Offer[j].currency /\ ~(Offer[i].default /\ Offer[j].default)

VARIABLES
    active,     \* plan -> whether it can be bought, None when there is no row
    price,      \* key -> row, or None
    edit,       \* administrator -> the write that is left of its request
    checkout,   \* customer -> where its checkout is, and what it has read
    product,    \* the provider's products: the plan of each
    recurring,  \* the provider's prices: product, currency and amount of each
    edits, failures,
    blame,      \* plan -> why it may have no default, or several (history)
    scattered,  \* plans whose product may not be found again (history)
    amounts     \* key -> amounts the price has had (history)

tables   == <<active, price>>
provider == <<product, recurring>>
history  == <<blame, scattered, amounts>>
shopVars     == <<tables, edit, checkout, provider, edits, failures, history>>

NoEdit     == [at |-> "idle"]
NoCheckout == [at |-> "new", plan |-> None]   \* "new" until the price is read

PricesOf(p)   == {i \in Price : price[i] # None /\ price[i].plan = p}
DefaultsOf(p) == {i \in PricesOf(p) : price[i].default}

ShopInit ==
    /\ active = [p \in Plan |-> IF \E i \in DOMAIN Offer : Offer[i].plan = p THEN TRUE ELSE None]
    /\ price = [i \in Price |-> IF i \in DOMAIN Offer THEN Offer[i] ELSE None]
    /\ edit = [a \in Admin |-> NoEdit] /\ checkout = [c \in Customer |-> NoCheckout]
    /\ product = <<>> /\ recurring = <<>>
    /\ edits = 0 /\ failures = 0
    /\ blame = [p \in Plan |-> IF Cardinality(DefaultsOf(p)) = 1 THEN {} ELSE {"removed"}]
    /\ scattered = {}
    /\ amounts = [i \in Price |-> IF i \in DOMAIN Offer THEN {Offer[i].cents} ELSE {}]

----------------------------------------------------------------------------
(* Plans.                                                                  *)

Fresh(i) == price[i] = None /\ amounts[i] = {}
EditNow == edits < MaxEdits /\ edits' = edits + 1

\* A promotion of plan p is under way: its others are unset, its write is left.
Promotes(a, p) == edit[a].at # "idle" /\ edit[a].plan = p
Unpromoted(p) == \A a \in Admin : ~Promotes(a, p)

\* The prices a request may bring for plan p.
RowsOf(p) == {PriceRow(p, c, n, d) : c \in Currency, n \in Cents, d \in BOOLEAN}

\* The rows are written, whatever number of them are defaults.
InsertPrices(p, S, new) ==
    /\ price' = [i \in Price |-> IF i \in S THEN new[i] ELSE price[i]]
    /\ amounts' = [i \in Price |-> IF i \in S THEN {new[i].cents} ELSE amounts[i]]
    /\ blame' = [blame EXCEPT ![p] = IF \E i \in S : {j \in S : new[j].default} = {i}
                                     THEN {} ELSE {"created"}]

\* The plan and the prices of the request are one transaction, which two prices of
\* one currency roll back.  Its id is new: no request that runs has named it.
CreatePlan(p) ==
    /\ EditNow /\ active[p] = None /\ Unpromoted(p)
    /\ active' = [active EXCEPT ![p] = TRUE]
    /\ \E S \in SUBSET {i \in Price : Fresh(i)} : \E new \in [S -> RowsOf(p)] :
         /\ \A i, j \in S : i # j => new[i].currency # new[j].currency
         /\ InsertPrices(p, S, new)
    /\ UNCHANGED <<edit, checkout, provider, failures, scattered>>

UpdatePlan(p) ==
    /\ EditNow /\ active[p] # None
    /\ active' = [active EXCEPT ![p] = ~@]
    /\ UNCHANGED <<price, edit, checkout, provider, failures, history>>

\* Whether its prices go with it or refuse it is the schema's: when they
\* refuse, nothing happens.
DeletePlan(p) ==
    /\ EditNow /\ active[p] # None
    /\ active' = [active EXCEPT ![p] = None]
    /\ price' = [i \in Price |-> IF i \in PricesOf(p) THEN None ELSE price[i]]
    /\ blame' = [blame EXCEPT ![p] = {"removed"}]
    /\ scattered' = scattered \cup {p}
    /\ UNCHANGED <<edit, checkout, provider, failures, amounts>>

----------------------------------------------------------------------------
(* Prices.  A request names the plan in its path and, to update, a price by *)
(* its key; whether the price is of that plan is not looked at.             *)

\* Not the code: the others stay what they are.
PromoteBesides(a, e, keep) ==
    /\ edit' = [edit EXCEPT ![a] = e]
    /\ UNCHANGED price

\* The others of the plan in the path are unset, but for the one in keep.  Two
\* promotions of one plan at once disturb each other.
Promote(a, e, keep) ==
    LET others == {b \in Admin \ {a} : Promotes(b, e.plan)}
    IN  /\ edit' = [b \in Admin |->
                      IF b = a THEN [e EXCEPT !.alone = others = {}]
                      ELSE IF b \in others THEN [edit[b] EXCEPT !.alone = FALSE] ELSE edit[b]]
        /\ price' = [i \in Price |-> IF i \in DefaultsOf(e.plan) \ keep
                                     THEN [price[i] EXCEPT !.default = FALSE] ELSE price[i]]

StartCreatePlanPrice(a) ==
    /\ EditNow /\ edit[a].at = "idle"
    /\ \E p \in Plan, c \in Currency, n \in Cents :
         Promote(a, [at |-> "create", plan |-> p, currency |-> c, cents |-> n, alone |-> TRUE], {})
    /\ UNCHANGED <<active, checkout, provider, failures, history>>

\* The price may have gone long since: the others are unset all the same.
StartUpdatePlanPrice(a) ==
    /\ EditNow /\ edit[a].at = "idle"
    /\ \E p \in Plan, i \in Price :
         /\ ~Fresh(i)
         /\ Promote(a, [at |-> "update", plan |-> p, key |-> i, alone |-> TRUE], {i})
    /\ UNCHANGED <<active, checkout, provider, failures, history>>

\* What is to blame when the write of a promotion succeeds: of a price of plan q
\* by a request that named plan p.
Settled(a, p, q) ==
    [r \in Plan |->
       IF p = q /\ r = p THEN IF edit[a].alone THEN {} ELSE blame[r] \cup {"race"}
       ELSE IF r \in {p, q} THEN blame[r] \cup {"path"} ELSE blame[r]]

\* The request is over; a promotion that came by another path disturbs those
\* of the plan it changed.
Over(a, q) ==
    edit' = [b \in Admin |->
               IF b = a THEN NoEdit
               ELSE IF edit[a].plan # q /\ Promotes(b, q) THEN [edit[b] EXCEPT !.alone = FALSE]
               ELSE edit[b]]

\* An insertion is refused when the plan is gone or has the currency already.
Accepts(p, c) == active[p] # None /\ \A i \in PricesOf(p) : price[i].currency # c

Insert(p, c, n, d) ==
    /\ Accepts(p, c)
    /\ \E i \in Price :
         /\ Fresh(i)
         /\ price' = [price EXCEPT ![i] = PriceRow(p, c, n, d)]
         /\ amounts' = [amounts EXCEPT ![i] = {n}]

CreateDefaultPrice(a) ==
    /\ edit[a].at = "create"
    /\ Insert(edit[a].plan, edit[a].currency, edit[a].cents, TRUE)
    /\ blame' = Settled(a, edit[a].plan, edit[a].plan)
    /\ Over(a, edit[a].plan)
    /\ UNCHANGED <<active, checkout, provider, edits, failures, scattered>>

\* It may change the amount as well.
UpdateToDefault(a) ==
    /\ edit[a].at = "update" /\ price[edit[a].key] # None
    /\ \E n \in Cents :
         /\ price' = [price EXCEPT ![edit[a].key].default = TRUE, ![edit[a].key].cents = n]
         /\ amounts' = [amounts EXCEPT ![edit[a].key] = @ \cup {n}]
    /\ blame' = Settled(a, edit[a].plan, price[edit[a].key].plan)
    /\ Over(a, price[edit[a].key].plan)
    /\ UNCHANGED <<active, checkout, provider, edits, failures, scattered>>

\* What was unset stays so.
PromotionRefused(a) ==
    /\ \/ edit[a].at = "create" /\ ~Accepts(edit[a].plan, edit[a].currency)
       \/ edit[a].at = "update" /\ price[edit[a].key] = None
    /\ blame' = [blame EXCEPT ![edit[a].plan] = @ \cup {"refused"}]
    /\ edit' = [edit EXCEPT ![a] = NoEdit]
    /\ UNCHANGED <<tables, checkout, provider, edits, failures, scattered, amounts>>

\* The requests that promote nothing are one statement.
CreatePlanPrice(p, c, n) ==
    /\ EditNow /\ Insert(p, c, n, FALSE)
    /\ UNCHANGED <<active, edit, checkout, provider, failures, blame, scattered>>

\* The amount, or that it is not the default.  The provider's price stays in
\* the row, with the amount it was made with.
UpdatePlanPrice(i, n, d) ==
    /\ EditNow /\ price[i] # None
    /\ price' = [price EXCEPT ![i].cents = n, ![i].default = @ /\ d]
    /\ amounts' = [amounts EXCEPT ![i] = @ \cup {n}]
    /\ blame' = IF price[i].default /\ ~d
                THEN [blame EXCEPT ![price[i].plan] = @ \cup {"removed"}] ELSE blame
    /\ UNCHANGED <<active, edit, checkout, provider, failures, scattered>>

\* The second statement fails, or the process ends before it.
EditFails(a) ==
    /\ edit[a].at # "idle" /\ failures < MaxFailures
    /\ blame' = [blame EXCEPT ![edit[a].plan] = @ \cup {"failed"}]
    /\ edit' = [edit EXCEPT ![a] = NoEdit] /\ failures' = failures + 1
    /\ UNCHANGED <<tables, checkout, provider, edits, scattered, amounts>>

DeletePlanPrice(i) ==
    /\ EditNow /\ price[i] # None
    /\ price' = [price EXCEPT ![i] = None]
    /\ blame' = IF price[i].default
                THEN [blame EXCEPT ![price[i].plan] = @ \cup {"removed"}] ELSE blame
    /\ scattered' = scattered \cup {price[i].plan}
    /\ UNCHANGED <<active, edit, checkout, provider, failures, amounts>>

----------------------------------------------------------------------------
(* Checkouts.                                                              *)

Reading(c, p) == checkout[c].at \in {"find", "product", "price", "save"} /\ checkout[c].plan = p

\* The plan is found and active.
StartCheckout(c) ==
    /\ checkout[c] = NoCheckout
    /\ \E p \in Plan : active[p] = TRUE /\ checkout' = [checkout EXCEPT ![c].plan = p]
    /\ UNCHANGED <<tables, edit, provider, edits, failures, history>>

\* The prices of the plan for a currency, or its defaults.
Offered(p, want) ==
    IF want = None THEN DefaultsOf(p) ELSE {i \in PricesOf(p) : price[i].currency = want}

ReadPrice(c) ==
    /\ checkout[c].at = "new" /\ checkout[c].plan # None
    /\ \E want \in Currency \cup {None} :
         LET p == checkout[c].plan
             i == Min(Offered(p, want))
         IN  /\ Offered(p, want) # {}
             /\ checkout' = [checkout EXCEPT ![c] =
                  [at |-> IF price[i].stripe # 0 THEN "open" ELSE "find", key |-> i,
                   plan |-> p, currency |-> price[i].currency, cents |-> price[i].cents,
                   product |-> 0, stripe |-> price[i].stripe]]
             /\ scattered' = IF \E d \in Customer : Reading(d, p) THEN scattered \cup {p}
                             ELSE scattered
    /\ UNCHANGED <<tables, edit, provider, edits, failures, blame, amounts>>

\* The customer is refused, and may ask again.
NoPrice(c) ==
    /\ checkout[c].at = "new" /\ checkout[c].plan # None
    /\ \E want \in Currency \cup {None} : Offered(checkout[c].plan, want) = {}
    /\ checkout' = [checkout EXCEPT ![c] = NoCheckout]
    /\ UNCHANGED <<tables, edit, provider, edits, failures, history>>

\* Not the code: any product will do.
FindAnyProduct(c) ==
    /\ checkout[c].at = "find"
    /\ LET others == {i \in Price \ {checkout[c].key} : price[i] # None /\ price[i].product # 0}
       IN  checkout' = [checkout EXCEPT ![c].at = IF others = {} THEN "product" ELSE "price",
                                        ![c].product = IF others = {} THEN 0
                                                       ELSE price[Min(others)].product]
    /\ UNCHANGED <<tables, edit, provider, edits, failures, history>>

\* Not the code: a price makes a product of its own.
FindNoProduct(c) ==
    /\ checkout[c].at = "find"
    /\ checkout' = [checkout EXCEPT ![c].at = "product"]
    /\ UNCHANGED <<tables, edit, provider, edits, failures, history>>

\* The other prices of the plan whose product can be used again.
WithProduct(c) == {i \in PricesOf(checkout[c].plan) \ {checkout[c].key} : price[i].product # 0}

FindProduct(c) ==
    /\ checkout[c].at = "find"
    /\ LET others == WithProduct(c)
       IN  checkout' = [checkout EXCEPT ![c].at = IF others = {} THEN "product" ELSE "price",
                                        ![c].product = IF others = {} THEN 0
                                                       ELSE price[Min(others)].product]
    /\ UNCHANGED <<tables, edit, provider, edits, failures, history>>

\* A query that fails is taken for one that finds nothing.
FindProductFails(c) ==
    /\ checkout[c].at = "find" /\ failures < MaxFailures
    /\ checkout' = [checkout EXCEPT ![c].at = "product"] /\ failures' = failures + 1
    /\ scattered' = IF WithProduct(c) = {} THEN scattered ELSE scattered \cup {checkout[c].plan}
    /\ UNCHANGED <<tables, edit, provider, edits, blame, amounts>>

NewProduct(c) ==
    /\ checkout[c].at = "product"
    /\ product' = Append(product, checkout[c].plan)
    /\ checkout' = [checkout EXCEPT ![c].at = "price", ![c].product = Len(product) + 1]
    /\ UNCHANGED <<tables, edit, recurring, edits, failures, history>>

NewPrice(c) ==
    /\ checkout[c].at = "price"
    /\ recurring' = Append(recurring, [product |-> checkout[c].product,
                                       currency |-> checkout[c].currency,
                                       cents |-> checkout[c].cents])
    /\ checkout' = [checkout EXCEPT ![c].at = "save", ![c].stripe = Len(recurring) + 1]
    /\ UNCHANGED <<tables, edit, product, edits, failures, history>>

\* The ids are kept in the row, if it is still there.
SaveIds(c) ==
    /\ checkout[c].at = "save"
    /\ price' = [price EXCEPT ![checkout[c].key] =
                   IF @ = None THEN None
                   ELSE [@ EXCEPT !.stripe = checkout[c].stripe, !.product = checkout[c].product]]
    /\ checkout' = [checkout EXCEPT ![c].at = "open"]
    /\ UNCHANGED <<active, edit, provider, edits, failures, history>>

\* Nobody looks at the error: the checkout opens its session with what it has.
SaveIdsFails(c) ==
    /\ checkout[c].at = "save" /\ failures < MaxFailures
    /\ checkout' = [checkout EXCEPT ![c].at = "open"] /\ failures' = failures + 1
    /\ scattered' = scattered \cup {checkout[c].plan}
    /\ UNCHANGED <<tables, edit, provider, edits, blame, amounts>>

\* A call of the provider fails, or the process ends.
CheckoutFails(c) ==
    /\ checkout[c].at \in {"find", "product", "price", "save"} /\ failures < MaxFailures
    /\ checkout' = [checkout EXCEPT ![c].at = "failed"] /\ failures' = failures + 1
    /\ scattered' = IF checkout[c].product # 0 THEN scattered \cup {checkout[c].plan}
                    ELSE scattered
    /\ UNCHANGED <<tables, edit, provider, edits, blame, amounts>>

----------------------------------------------------------------------------
ShopNext ==
    \/ \E p \in Plan : CreatePlan(p) \/ UpdatePlan(p) \/ DeletePlan(p)
    \/ \E a \in Admin : StartCreatePlanPrice(a) \/ CreateDefaultPrice(a) \/ StartUpdatePlanPrice(a)
                        \/ UpdateToDefault(a) \/ PromotionRefused(a) \/ EditFails(a)
    \/ \E p \in Plan, c \in Currency, n \in Cents : CreatePlanPrice(p, c, n)
    \/ \E i \in Price, n \in Cents, d \in BOOLEAN : UpdatePlanPrice(i, n, d)
    \/ \E i \in Price : DeletePlanPrice(i)
    \/ \E c \in Customer : StartCheckout(c) \/ ReadPrice(c) \/ NoPrice(c)
                           \/ FindProduct(c) \/ FindProductFails(c) \/ NewProduct(c)
                           \/ NewPrice(c) \/ SaveIds(c) \/ SaveIdsFails(c) \/ CheckoutFails(c)

ShopSpec == ShopInit /\ [][ShopNext]_shopVars

----------------------------------------------------------------------------
(* Properties.                                                             *)

\* Prices are rows of plans that are there, one for each currency, and refer
\* to what was made at the provider.
ShopTypeOK ==
    /\ active \in [Plan -> BOOLEAN \cup {None}]
    /\ \A i \in Price : price[i] # None =>
         /\ active[price[i].plan] # None
         /\ price[i].currency \in Currency /\ price[i].cents \in Cents /\ price[i].default \in BOOLEAN
         /\ price[i].stripe \in 0..Len(recurring) /\ price[i].product \in 0..Len(product)
         /\ (price[i].stripe = 0) = (price[i].product = 0)
    /\ \A p \in Plan : \A i, j \in PricesOf(p) : price[i].currency = price[j].currency => i = j

\* The list of plans, each with its prices.
GetPlans == {[plan |-> p, prices |-> PricesOf(p)] : p \in {q \in Plan : active[q] # None}}

\* A plan is listed with exactly one default price when it is created with one and after
\* every promotion that was alone, whatever the plan had before, and until somebody
\* removes it or another promotion gets in the way.
OneDefault ==
    \A x \in GetPlans : Unpromoted(x.plan) /\ blame[x.plan] = {} =>
        Cardinality({i \in x.prices : price[i].default}) = 1

\* A request that is refused changes nothing: a plan loses its default only
\* when somebody removes it.
DefaultIsKept ==
    \A p \in Plan : active[p] # None /\ Unpromoted(p) /\ blame[p] \subseteq {"refused"} => DefaultsOf(p) # {}

\* A plan never has more than one default.
NeverTwoDefaults == \A p \in Plan : Cardinality(DefaultsOf(p)) <= 1

IsPriceOf(n, p, c, i) ==
    /\ product[recurring[n].product] = p
    /\ recurring[n].currency = c
    /\ recurring[n].cents \in amounts[i]

\* A customer pays for the plan in the currency it asked for, and an amount that
\* the price has had; what the row keeps of the provider is its own.
ChargesThePrice ==
    /\ \A c \in Customer : checkout[c].at = "open" =>
         IsPriceOf(checkout[c].stripe, checkout[c].plan, checkout[c].currency, checkout[c].key)
    /\ \A i \in Price : price[i] # None /\ price[i].stripe # 0 =>
         IsPriceOf(price[i].stripe, price[i].plan, price[i].currency, i)

\* A plan is one product at the provider, whatever its prices, unless two of
\* its checkouts overlapped, one failed half-way or could not look for the product
\* that there was, or a price was deleted.
OneProduct ==
    \A p \in Plan \ scattered : \A i, j \in DOMAIN product : (product[i] = p /\ product[j] = p) => i = j
=============================================================================

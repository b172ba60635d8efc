----------------------------- MODULE PlanCatalogue -----------------------------
(***************************************************************************)
(* The catalogue of plans an administrator edits                           *)
(* (admin-dashboard/subscriptions), while customers buy from it            *)
(* (payment.service.ts).  Subscription takes the catalogue as constant;    *)
(* here it changes under the hands of a customer: an update replaces the   *)
(* rows of PackagePricing, and a checkout needs a price at Stripe, which   *)
(* it creates the first time and then stores in the row it has read.       *)
(*                                                                         *)
(* One billing period, and one row stands for all a request brings of it;  *)
(* the plans are active and without trial, and one customer buys them.  Of *)
(* a history the model keeps the amount it says the customer owes.         *)
(***************************************************************************)
EXTENDS Backend

CONSTANTS
    PlanNames,          \* planName, unique
    Amounts,            \* price and setup fee together
    MaxPlans,           \* bound on plans ever created
    MaxRows,            \* bound on rows of PackagePricing ever created
    MaxPrices,          \* bound on prices ever created at Stripe
    MaxHistories        \* bound on purchases ever begun

Plans == 1..MaxPlans
Rows == 1..MaxRows
StripePrices == 1..MaxPrices
Histories == 1..MaxHistories

ASSUME CatalogueAssumption == {MaxPlans, MaxRows, MaxPrices, MaxHistories} \subseteq Nat

(* stripePriceId is None while it is a placeholder.                        *)
Pricing == [plan : Plans, amount : Amounts, stripePriceId : StripePrices \cup {None}]
BoughtHistory == [amount : Amounts, session : StripePrices \cup {None}]

(* The calls that are left once the history is written.                    *)
Charging == {"buy.get", "buy.price", "buy.store", "buy.session", "buy.record"}

CatalogueRequest ==
    [pc : {"plan.insert"}, name : PlanNames, amount : Amounts \cup {None}]
    \cup [pc : {"plan.delete"}, plan : Plans]
    \cup [pc : {"plan.update", "plan.drop", "plan.prices"}, plan : Plans,
          amount : Amounts \cup {None}]
    \cup [pc : {"buy.history", "upgrade.find", "upgrade.write"} \cup Charging,
          row : Rows, read : Pricing, history : Histories \cup {None},
          price : StripePrices \cup {None}]

ASSUME CatalogueNone ==
    {None, Gone} \cap (PlanNames \cup Amounts \cup StripePrices \cup Histories \cup Pricing
                        \cup BoughtHistory) = {}

VARIABLES
    plans,          \* the table SubscriptionPlan: the name of each
    pricing,        \* the table PackagePricing
    atStripe,       \* the amount of each price at Stripe
    unpriced,       \* plans whose last insertion of prices left none
    histories,      \* what the customer was to pay, and the price of the session
    overtaken,      \* handlers whose history was rewritten since they wrote it
    mixed           \* histories whose session was recorded by one of those

catalogue == <<plans, pricing, unpriced>>
purchases == <<histories, overtaken, mixed>>
planCatalogue == <<catalogue, atStripe, purchases>>

CatalogueTypeOK ==
    /\ plans \in [Plans -> PlanNames \cup {None, Gone}]
    /\ pricing \in [Rows -> Pricing \cup {None, Gone}]
    /\ atStripe \in [StripePrices -> Amounts \cup {None}]
    /\ unpriced \subseteq Plans
    /\ histories \in [Histories -> BoughtHistory \cup {None}]
    /\ overtaken \subseteq Handlers
    /\ mixed \subseteq Histories
    /\ req \in [Handlers -> CatalogueRequest \cup {Idle}]
    /\ faults \in 0..MaxFaults

CatalogueInit ==
    /\ plans = [p \in Plans |-> None]
    /\ pricing = [r \in Rows |-> None]
    /\ atStripe = [s \in StripePrices |-> None]
    /\ histories = [i \in Histories |-> None]
    /\ unpriced = {} /\ overtaken = {} /\ mixed = {}

RowsOf(p) == {r \in Live(pricing) : pricing[r].plan = p}

NewRow(p, amount) == [plan |-> p, amount |-> amount, stripePriceId |-> None]

InsertRow(p, amount) ==
    \E r \in Rows : IsNext(r, pricing) /\ pricing' = [pricing EXCEPT ![r] = NewRow(p, amount)]

(* The rows of a plan are deleted.                                         *)
WithoutRowsOf(p) == [r \in Rows |-> IF r \in RowsOf(p) THEN Gone ELSE pricing[r]]

-----------------------------------------------------------------------------
(* createSubscription: the plan and its prices are one call.  The list of  *)
(* prices may be empty.                                                    *)

CreateSubscription(h, name, amount) ==
    /\ Free(h)
    /\ \A p \in Live(plans) : plans[p] # name
    /\ Begin(h, [pc |-> "plan.insert", name |-> name, amount |-> amount])
    /\ UNCHANGED planCatalogue

(* The call throws when the name is taken, and when two placeholders are   *)
(* the same: they are made of the millisecond and the billing period.      *)
InsertPlan(h) ==
    /\ At(h, "plan.insert")
    /\ \/ /\ req[h].amount # None \/ \E p \in Live(plans) : plans[p] = req[h].name
          /\ UNCHANGED catalogue
       \/ /\ \A p \in Live(plans) : plans[p] # req[h].name
          /\ \E p \in Plans :
                /\ IsNext(p, plans)
                /\ plans' = [plans EXCEPT ![p] = req[h].name]
                /\ IF req[h].amount = None
                   THEN unpriced' = unpriced \cup {p} /\ UNCHANGED pricing
                   ELSE InsertRow(p, req[h].amount) /\ UNCHANGED unpriced
    /\ Done(h)
    /\ UNCHANGED <<atStripe, purchases>>

-----------------------------------------------------------------------------
(* deleteSubscription: the prices go with the plan (onDelete: Cascade).    *)

DeleteSubscription(h, p) ==
    /\ Free(h)
    /\ p \in Live(plans)
    /\ Begin(h, [pc |-> "plan.delete", plan |-> p])
    /\ UNCHANGED planCatalogue

DeletePlan(h) ==
    /\ At(h, "plan.delete")
    /\ plans' = [plans EXCEPT ![req[h].plan] = Gone]
    /\ pricing' = WithoutRowsOf(req[h].plan)
    /\ Done(h)
    /\ UNCHANGED <<unpriced, atStripe, purchases>>

-----------------------------------------------------------------------------
(* updateSubscription: without new prices the old ones stay.               *)

UpdateSubscription(h, p) ==
    /\ Free(h)
    /\ p \in Live(plans)
    /\ \E amount \in Amounts \cup {None} :
        Begin(h, [pc |-> "plan.update", plan |-> p, amount |-> amount])
    /\ UNCHANGED planCatalogue

(* The name may change; a plan that is gone, or a name that is taken, makes*)
(* the call throw.                                                         *)
UpdatePlan(h) ==
    /\ At(h, "plan.update")
    /\ LET p == req[h].plan
       IN  \E name \in PlanNames :
            IF p \notin Live(plans) \/ \E q \in Live(plans) \ {p} : plans[q] = name
            THEN Done(h) /\ UNCHANGED plans
            ELSE /\ plans' = [plans EXCEPT ![p] = name]
                 /\ IF req[h].amount = None THEN Done(h) ELSE Step(h, "plan.drop")
    /\ UNCHANGED <<pricing, unpriced, atStripe, purchases>>

(* Mutant: the old prices stay.                                            *)
KeepPricing(h) ==
    /\ At(h, "plan.drop")
    /\ Step(h, "plan.prices")
    /\ UNCHANGED planCatalogue

DropPricing(h) ==
    /\ At(h, "plan.drop")
    /\ pricing' = WithoutRowsOf(req[h].plan)
    /\ Step(h, "plan.prices")
    /\ UNCHANGED <<plans, unpriced, atStripe, purchases>>

(* The foreign key refuses prices of a plan that is gone, and two          *)
(* placeholders that are the same refuse those of one that is there.       *)
CreatePricing(h) ==
    /\ At(h, "plan.prices")
    /\ LET p == req[h].plan
       IN  \/ p \notin Live(plans) /\ UNCHANGED <<pricing, unpriced>>
           \/ p \in Live(plans) /\ InsertRow(p, req[h].amount) /\ unpriced' = unpriced \ {p}
           \/ p \in Live(plans) /\ UNCHANGED pricing /\ unpriced' = unpriced \cup {p}
    /\ Done(h)
    /\ UNCHANGED <<plans, atStripe, purchases>>

-----------------------------------------------------------------------------
(* buyPlan makes a history, and upgradePlan rewrites the last one; both    *)
(* have read the plan with its price before, and both go on alike.         *)

ReadPlan(h, r, pc) ==
    /\ Free(h)
    /\ r \in Live(pricing)
    /\ Begin(h, [pc |-> pc, row |-> r, read |-> pricing[r], history |-> None, price |-> None])
    /\ UNCHANGED planCatalogue

BuyPlan(h, r) == ReadPlan(h, r, "buy.history")
UpgradePlan(h, r) == ReadPlan(h, r, "upgrade.find")

(* Without a history there is nothing to upgrade.                          *)
FindHistory(h) ==
    /\ At(h, "upgrade.find")
    /\ \/ Live(histories) = {} /\ Done(h)
       \/ \E i \in Live(histories) :
            /\ \A j \in Live(histories) : j <= i
            /\ Begin(h, [req[h] EXCEPT !.pc = "upgrade.write", !.history = i])
    /\ UNCHANGED planCatalogue

(* The history owes what h has read.  Whoever wrote it before goes on with *)
(* what it then owed.                                                      *)
Write(h, i, session) ==
    /\ histories' = [histories EXCEPT ![i] = [amount |-> req[h].read.amount, session |-> session]]
    /\ mixed' = mixed \ {i}
    /\ overtaken' = {k \in Handlers \ {h} :
            k \in overtaken \/ (req[k].pc \in Charging /\ req[k].history = i)}
    /\ Begin(h, [req[h] EXCEPT !.history = i,
                 !.pc = IF req[h].read.stripePriceId = None THEN "buy.price" ELSE "buy.get"])

(* Mutant: the session of the price before stays recorded.                 *)
ChargeKeepingSession(h, i) ==
    Write(h, i, IF histories[i] = None THEN None ELSE histories[i].session)

Charge(h, i) == Write(h, i, None)

CreateHistory(h) ==
    /\ At(h, "buy.history")
    /\ \E i \in Histories : IsNext(i, histories) /\ Charge(h, i)
    /\ UNCHANGED <<catalogue, atStripe>>

RewriteHistory(h) ==
    /\ At(h, "upgrade.write")
    /\ Charge(h, req[h].history)
    /\ UNCHANGED <<catalogue, atStripe>>

(* A price Stripe does not return is created anew.                         *)
GetPrice(h) ==
    /\ At(h, "buy.get")
    /\ \/ Begin(h, [req[h] EXCEPT !.pc = "buy.session", !.price = req[h].read.stripePriceId])
       \/ Step(h, "buy.price")
    /\ UNCHANGED planCatalogue

CreatePrice(h) ==
    /\ At(h, "buy.price")
    /\ \E s \in StripePrices :
        /\ IsNext(s, atStripe)
        /\ atStripe' = [atStripe EXCEPT ![s] = req[h].read.amount]
        /\ Begin(h, [req[h] EXCEPT !.pc = "buy.store", !.price = s])
    /\ UNCHANGED <<catalogue, purchases>>

(* A row that was replaced makes the update throw: the history stays       *)
(* without a session.                                                      *)
StorePrice(h) ==
    /\ At(h, "buy.store")
    /\ IF req[h].row \in Live(pricing)
       THEN /\ pricing' = [pricing EXCEPT ![req[h].row].stripePriceId = req[h].price]
            /\ Step(h, "buy.session")
       ELSE Done(h) /\ UNCHANGED pricing
    /\ UNCHANGED <<plans, unpriced, atStripe, purchases>>

(* The session exists at Stripe before its history knows of it.            *)
CreateSubscriptionCheckout(h) ==
    /\ At(h, "buy.session")
    /\ Step(h, "buy.record")
    /\ UNCHANGED planCatalogue

RecordSession(h) ==
    /\ At(h, "buy.record")
    /\ LET i == req[h].history
       IN  /\ histories' = [histories EXCEPT ![i].session = req[h].price]
           /\ mixed' = IF h \in overtaken THEN mixed \cup {i} ELSE mixed \ {i}
    /\ overtaken' = overtaken \ {h}
    /\ Done(h)
    /\ UNCHANGED <<catalogue, atStripe>>

-----------------------------------------------------------------------------
CatalogueHandler(h) ==
    \/ \E name \in PlanNames, a \in Amounts \cup {None} : CreateSubscription(h, name, a)
    \/ InsertPlan(h)
    \/ \E p \in Plans : DeleteSubscription(h, p)
    \/ DeletePlan(h)
    \/ \E p \in Plans : UpdateSubscription(h, p)
    \/ UpdatePlan(h)
    \/ DropPricing(h)
    \/ CreatePricing(h)
    \/ \E r \in Rows : BuyPlan(h, r)
    \/ \E r \in Rows : UpgradePlan(h, r)
    \/ CreateHistory(h)
    \/ FindHistory(h)
    \/ RewriteHistory(h)
    \/ GetPrice(h)
    \/ CreatePrice(h)
    \/ StorePrice(h)
    \/ CreateSubscriptionCheckout(h)
    \/ RecordSession(h)

CatalogueNext ==
    \/ \E h \in Handlers : CatalogueHandler(h)
    \/ Restart /\ UNCHANGED planCatalogue

-----------------------------------------------------------------------------
(* A session charges what its history says, however the catalogue changes  *)
(* while the customer waits, and however purchases and upgrades overlap;   *)
(* unless it was recorded by a request whose history an upgrade had        *)
(* rewritten meanwhile.                                                    *)
SessionChargesHistory ==
    \A i \in Histories \ mixed :
        histories[i] # None /\ histories[i].session # None =>
            atStripe[histories[i].session] = histories[i].amount

(* Updates of one plan that overlap leave a set of prices each, never more.*)
(* A plan is without prices only while an update is replacing them, when a *)
(* failure ended one between the two calls, or when the last prices it was *)
(* to have were none or were refused for their placeholders.               *)
PricingReplaced ==
    \A p \in Live(plans) :
        LET writers == {h \in Handlers : At(h, "plan.prices") /\ req[h].plan = p}
            offered == Cardinality(RowsOf(p)) + Cardinality(writers)
        IN  /\ offered <= Cardinality(Handlers)
            /\ offered = 0 => p \in unpriced \/ faults > 0
=============================================================================

---------------------------- MODULE Subscription ----------------------------
(***************************************************************************)
(* Subscriptions of the agimtula server: the three tables that decide who  *)
(* may use the service (userSubscriptionPlan, userSubscriptionPlanHistory  *)
(* with its subscriptionPlanPaymentStatus, imapConfiguration), the Stripe  *)
(* checkout sessions they refer to, and everything that writes them: the   *)
(* payment API, the Stripe webhook, the scheduled jobs and the handlers of *)
(* the IMAP settings.                                                      *)
(*                                                                         *)
(* No handler uses a database transaction, so a handler is one action per  *)
(* awaited call and every other handler may run in between.  What a        *)
(* handler carries from one call to the next is its record in req, act,    *)
(* enable or deact, and may be stale by the time it is used.               *)
(***************************************************************************)
EXTENDS Naturals

CONSTANTS
    Users,          \* accounts with the role USER
    Offers,         \* active rows of PackagePricing: a plan and its billing period
    TrialDays,      \* PackagePricing.freeTrialDays of an offer; 0 for NULL
    PeriodDays,     \* length of the billing period of an offer
    Slots,          \* how many handlers of one user run at a time
    Activators,     \* instances of SubscriptionExpiryCron that run activateFreeTrial,
    Enablers,       \* ... enableSubscriptionFeatures,
    Deactivators,   \* ... deactivateExpiredSubscriptions
    None,           \* SQL NULL, an absent row, an unused field
    MaxHistories,   \* bound on rows of userSubscriptionPlanHistory
    MaxSessions,    \* bound on Stripe checkout sessions
    MaxDeliveries,  \* bound on webhook deliveries of one session
    MaxFaults,      \* bound on failed calls and restarts
    MaxTime         \* bound on the clock, in days

HistoryIds == 1..MaxHistories
SessionIds == 1..MaxSessions

ASSUME OffersAssumption ==
    /\ TrialDays \in [Offers -> Nat]
    /\ PeriodDays \in [Offers -> Nat \ {0}]
ASSUME BoundsAssumption ==
    {MaxHistories, MaxSessions, MaxDeliveries, MaxFaults, MaxTime} \subseteq Nat

(* What granted a plan row: the trial branch of buyPlan, activateFreeTrial *)
(* or the webhook.  The table has no such column; its price differs.       *)
Grants == {"buyPlan", "activateFreeTrial", "webhook"}

Plan == [isActive : BOOLEAN, expiredAt : Nat, hist : HistoryIds,
         offer : Offers, grant : Grants]

(* A history row with its payment status, created in one nested insert.    *)
History == [user : Users, offer : Offers, paymentStatus : {"PENDING", "PAID"},
            stripeSessionId : SessionIds \cup {None}]

(* A checkout session at Stripe; hist is metadata.historyId, the only      *)
(* metadata of a subscription that handleWebhook reads.                    *)
Session == [user : Users, hist : HistoryIds \cup {None},
            state : {"open", "paid", "expired"}, deliveries : 0..MaxDeliveries]

(* A handler in flight; pc names the awaited call it makes next.           *)
Request == [pc : {"idle", "buyHistory", "buyTrialPlan", "buyTrialImap",
                  "upgradeHistory", "checkout", "storeSession",
                  "webhookHistory", "webhookPlan", "webhookLog", "imapSave"},
            offer : Offers \cup {None}, hist : HistoryIds \cup {None},
            session : SessionIds \cup {None}]

TrialEntry == [hist : HistoryIds, user : Users, offer : Offers]
ActivateRun == [pc : {"idle", "histories", "create", "imap"},
                excluded : SUBSET Users, todo : SUBSET TrialEntry,
                user : Users \cup {None}]
DeactivateRun == [pc : {"idle", "row", "imap", "notify"},
                  todo : SUBSET Users, user : Users \cup {None}]

Requests == Users \X Slots
User(r) == r[1]

Idle == [pc |-> "idle", offer |-> None, hist |-> None, session |-> None]
ActivateIdle == [pc |-> "idle", excluded |-> {}, todo |-> {}, user |-> None]
DeactivateIdle == [pc |-> "idle", todo |-> {}, user |-> None]

ASSUME NoneAssumption ==
    /\ None \notin Users \cup Offers \cup HistoryIds \cup SessionIds
    /\ None \notin Plan
    /\ None \notin History
    /\ None \notin Session

VARIABLES
    now,        \* the clock
    plan,       \* userSubscriptionPlan, unique by UserId
    hist,       \* userSubscriptionPlanHistory joined with its payment status
    session,    \* the checkout sessions at Stripe
    imap,       \* imapConfiguration: no row, or whether connect is set
    activity,   \* the payment entries of the activity log
    req,        \* HTTP handlers in flight
    act,        \* activateFreeTrial runs in flight
    enable,     \* enableSubscriptionFeatures: users still to visit
    deact,      \* deactivateExpiredSubscriptions runs in flight
    faults      \* failures so far

tables == <<plan, hist, session, imap, activity>>
jobs == <<act, enable, deact>>
vars == <<now, plan, hist, session, imap, activity, req, act, enable, deact, faults>>

TypeOK ==
    /\ now \in 0..MaxTime
    /\ plan \in [Users -> Plan \cup {None}]
    /\ hist \in [HistoryIds -> History \cup {None}]
    /\ session \in [SessionIds -> Session \cup {None}]
    /\ imap \in [Users -> {"absent", "on", "off"}]
    /\ activity \in [Users -> SUBSET {"PLAN_UPGRADED", "SUBSCRIPTION_PAYMENT_RECEIVED"}]
    /\ req \in [Requests -> Request]
    /\ act \in [Activators -> ActivateRun]
    /\ enable \in [Enablers -> SUBSET Users]
    /\ deact \in [Deactivators -> DeactivateRun]
    /\ faults \in 0..MaxFaults

Init ==
    /\ now = 0
    /\ plan = [u \in Users |-> None]
    /\ hist = [h \in HistoryIds |-> None]
    /\ session = [s \in SessionIds |-> None]
    /\ imap = [u \in Users |-> "absent"]
    /\ activity = [u \in Users |-> {}]
    /\ req = [r \in Requests |-> Idle]
    /\ act = [i \in Activators |-> ActivateIdle]
    /\ enable = [i \in Enablers |-> {}]
    /\ deact = [i \in Deactivators |-> DeactivateIdle]
    /\ faults = 0

-----------------------------------------------------------------------------
(* The queries the handlers share.                                         *)

(* buyPlan refuses while a row is unexpired, active or not.                *)
RunningPlan(u) == plan[u] # None /\ plan[u].expiredAt > now

(* The condition every feature of the service is guarded by.               *)
Entitled(u) == plan[u] # None /\ plan[u].isActive /\ plan[u].expiredAt > now

Expired(u) == plan[u] # None /\ plan[u].isActive /\ plan[u].expiredAt <= now

(* Ids are handed out in order: the id of the next row of a table.         *)
IsNext(table, id) ==
    /\ table[id] = None
    /\ \A j \in DOMAIN table : j < id => table[j] # None

(* At its bound a table takes no row: the insert fails, as any call may.   *)
Full(table) == \A id \in DOMAIN table : table[id] # None

(* findFirst by UserId, orderBy createdAt desc.                            *)
IsLatestHistory(h, u) ==
    /\ hist[h] # None /\ hist[h].user = u
    /\ \A g \in HistoryIds : g > h /\ hist[g] # None => hist[g].user # u

(* Mutant: the end date is counted backwards.                              *)
NewPlanBackwards(h, o, days, grant) ==
    [isActive |-> TRUE, expiredAt |-> now - days, hist |-> h, offer |-> o, grant |-> grant]

NewPlan(h, o, days, grant) ==
    [isActive |-> TRUE, expiredAt |-> now + days, hist |-> h, offer |-> o, grant |-> grant]

NewSession(u, h) == [user |-> u, hist |-> h, state |-> "open", deliveries |-> 0]

(* imapConfiguration.updateMany: writes the row of u if there is one.      *)
SetImap(u, flag) ==
    imap' = [imap EXCEPT ![u] = IF @ = "absent" THEN "absent" ELSE flag]

Step(r, pc) == req' = [req EXCEPT ![r].pc = pc]
Done(r) == req' = [req EXCEPT ![r] = Idle]

-----------------------------------------------------------------------------
(* Buying and upgrading a plan.                                            *)

(* buyPlan up to its check for an unexpired plan.                          *)
BuyPlan(r, o) ==
    /\ req[r] = Idle
    /\ ~RunningPlan(User(r))
    /\ req' = [req EXCEPT ![r] = [Idle EXCEPT !.pc = "buyHistory", !.offer = o]]
    /\ UNCHANGED <<now, tables, jobs, faults>>

(* buyPlan inserts the history with a PENDING payment status.              *)
BuyCreateHistory(r) ==
    /\ req[r].pc = "buyHistory"
    /\ \/ \E h \in HistoryIds :
            /\ IsNext(hist, h)
            /\ hist' = [hist EXCEPT ![h] = [user |-> User(r), offer |-> req[r].offer,
                            paymentStatus |-> "PENDING", stripeSessionId |-> None]]
            /\ req' = [req EXCEPT
                         ![r].pc = IF TrialDays[req[r].offer] > 0
                                      THEN "buyTrialPlan" ELSE "checkout",
                         ![r].hist = h]
       \/ Full(hist) /\ Done(r) /\ UNCHANGED hist
    /\ UNCHANGED <<now, plan, session, imap, activity, jobs, faults>>

(* A free trial starts at once, unless the user already has a plan row:    *)
(* the insert then violates the unique UserId and the request fails.       *)
BuyTrialPlan(r) ==
    /\ req[r].pc = "buyTrialPlan"
    /\ \/ /\ plan[User(r)] = None
          /\ plan' = [plan EXCEPT ![User(r)] =
                NewPlan(req[r].hist, req[r].offer,
                        TrialDays[req[r].offer], "buyPlan")]
          /\ Step(r, "buyTrialImap")
       \/ /\ plan[User(r)] # None
          /\ Done(r)
          /\ UNCHANGED plan
    /\ UNCHANGED <<now, hist, session, imap, activity, jobs, faults>>

BuyTrialImap(r) ==
    /\ req[r].pc = "buyTrialImap"
    /\ SetImap(User(r), "on")
    /\ Done(r)
    /\ UNCHANGED <<now, plan, hist, session, activity, jobs, faults>>

(* upgradePlan finds the latest history of the user ...                    *)
UpgradePlan(r, o) ==
    /\ req[r] = Idle
    /\ \E h \in HistoryIds :
        /\ IsLatestHistory(h, User(r))
        /\ req' = [req EXCEPT ![r] =
                     [Idle EXCEPT !.pc = "upgradeHistory", !.offer = o, !.hist = h]]
    /\ UNCHANGED <<now, tables, jobs, faults>>

(* ... and rewrites it in place, back to PENDING and without a session.    *)
UpgradeHistory(r) ==
    /\ req[r].pc = "upgradeHistory"
    /\ hist' = [hist EXCEPT ![req[r].hist] =
                  [@ EXCEPT !.offer = req[r].offer,
                            !.paymentStatus = "PENDING",
                            !.stripeSessionId = None]]
    /\ Step(r, "checkout")
    /\ UNCHANGED <<now, plan, session, imap, activity, jobs, faults>>

(* Both create a checkout session whose metadata names the history.        *)
CreateCheckout(r) ==
    /\ req[r].pc = "checkout"
    /\ \/ \E s \in SessionIds :
            /\ IsNext(session, s)
            /\ session' = [session EXCEPT ![s] = NewSession(User(r), req[r].hist)]
            /\ req' = [req EXCEPT ![r].pc = "storeSession", ![r].session = s]
       \/ Full(session) /\ Done(r) /\ UNCHANGED session
    /\ UNCHANGED <<now, plan, hist, imap, activity, jobs, faults>>

StoreSession(r) ==
    /\ req[r].pc = "storeSession"
    /\ hist' = [hist EXCEPT ![req[r].hist].stripeSessionId = req[r].session]
    /\ Done(r)
    /\ UNCHANGED <<now, plan, session, imap, activity, jobs, faults>>

-----------------------------------------------------------------------------
(* Stripe and its webhook.                                                 *)

(* The customer completes a checkout, or lets it expire.  A session that   *)
(* names no history can only expire: it is the one of the trial reminder,  *)
(* whose link goes to the server's log and not to the customer.            *)
CloseSession(s) ==
    /\ session[s] # None
    /\ session[s].state = "open"
    /\ \E outcome \in {"paid", "expired"} :
        /\ outcome = "paid" => session[s].hist # None
        /\ session' = [session EXCEPT ![s].state = outcome]
    /\ UNCHANGED <<now, plan, hist, imap, activity, req, jobs, faults>>

(* An event whose metadata names no history is dropped, any other first    *)
(* marks PAID the payment statuses that recorded its session.              *)
HandleCompleted(r, s) ==
    /\ req[r] = Idle
    /\ session[s].user = User(r)
    /\ session[s].deliveries < MaxDeliveries
    /\ session' = [session EXCEPT ![s].deliveries = @ + 1]
    /\ IF session[s].hist = None
       THEN UNCHANGED <<hist, req>>
       ELSE /\ hist' = [h \in HistoryIds |->
                          IF hist[h] # None /\ hist[h].stripeSessionId = s
                          THEN [hist[h] EXCEPT !.paymentStatus = "PAID"]
                          ELSE hist[h]]
            /\ req' = [req EXCEPT ![r] =
                         [Idle EXCEPT !.pc = "webhookHistory", !.hist = session[s].hist,
                                      !.session = s]]
    /\ UNCHANGED <<now, plan, imap, activity, jobs, faults>>

(* Mutant: checkout.session.expired is handled like completed.             *)
WebhookMarkClosed(r, s) ==
    session[s] # None /\ session[s].state # "open" /\ HandleCompleted(r, s)

(* checkout.session.completed arrives, at least once.                      *)
WebhookMarkPaid(r, s) ==
    session[s] # None /\ session[s].state = "paid" /\ HandleCompleted(r, s)

WebhookReadHistory(r) ==
    /\ req[r].pc = "webhookHistory"
    /\ req' = [req EXCEPT ![r].pc = "webhookPlan",
                          ![r].offer = hist[req[r].hist].offer]
    /\ UNCHANGED <<now, tables, jobs, faults>>

(* Mutant: an upsert, as an upgrade of a running trial would want it.      *)
WebhookUpsertPlan(r) ==
    /\ req[r].pc = "webhookPlan"
    /\ plan' = [plan EXCEPT ![User(r)] =
          NewPlan(req[r].hist, req[r].offer,
                  PeriodDays[req[r].offer], "webhook")]
    /\ Step(r, "webhookLog")
    /\ UNCHANGED <<now, hist, session, imap, activity, jobs, faults>>

(* The webhook inserts the plan row; a user who has one makes the insert   *)
(* fail, which is logged and still answered 200.                           *)
WebhookCreatePlan(r) ==
    /\ req[r].pc = "webhookPlan"
    /\ \/ /\ plan[User(r)] = None
          /\ plan' = [plan EXCEPT ![User(r)] =
                NewPlan(req[r].hist, req[r].offer,
                        PeriodDays[req[r].offer], "webhook")]
          /\ Step(r, "webhookLog")
       \/ /\ plan[User(r)] # None
          /\ Done(r)
          /\ UNCHANGED plan
    /\ UNCHANGED <<now, hist, session, imap, activity, jobs, faults>>

(* The entry depends on whether an active plan exists by now.              *)
WebhookLog(r) ==
    /\ req[r].pc = "webhookLog"
    /\ activity' = [activity EXCEPT ![User(r)] = @ \cup
                      {IF plan[User(r)] # None /\ plan[User(r)].isActive
                       THEN "PLAN_UPGRADED" ELSE "SUBSCRIPTION_PAYMENT_RECEIVED"}]
    /\ Done(r)
    /\ UNCHANGED <<now, plan, hist, session, imap, jobs, faults>>

-----------------------------------------------------------------------------
(* The IMAP settings.                                                      *)

(* Mutant: the check for a subscription is dropped.                        *)
SetImapConfigurationUnchecked(r) ==
    /\ req[r] = Idle
    /\ req' = [req EXCEPT ![r] = [Idle EXCEPT !.pc = "imapSave"]]
    /\ UNCHANGED <<now, tables, jobs, faults>>

(* setImapConfiguration checks the subscription, then tests the connection *)
(* (up to 20 s), then writes the row.                                      *)
SetImapConfiguration(r) ==
    /\ req[r] = Idle
    /\ Entitled(User(r))
    /\ req' = [req EXCEPT ![r] = [Idle EXCEPT !.pc = "imapSave"]]
    /\ UNCHANGED <<now, tables, jobs, faults>>

SaveImapConfiguration(r) ==
    /\ req[r].pc = "imapSave"
    /\ \E flag \in {"on", "off"} : imap' = [imap EXCEPT ![User(r)] = flag]
    /\ Done(r)
    /\ UNCHANGED <<now, plan, hist, session, activity, jobs, faults>>

(* The user or an administrator disconnects, or a login at the mail server *)
(* is refused.                                                             *)
DisconnectImap(u) ==
    /\ imap[u] = "on"
    /\ SetImap(u, "off")
    /\ UNCHANGED <<now, plan, hist, session, activity, req, jobs, faults>>

(* An administrator connects a user, whatever the subscription.            *)
ConnectUser(u) ==
    /\ imap[u] = "off"
    /\ SetImap(u, "on")
    /\ UNCHANGED <<now, plan, hist, session, activity, req, jobs, faults>>

-----------------------------------------------------------------------------
(* The hourly jobs.                                                        *)

(* Mutant: the users who have a plan row are not excluded.                 *)
ActivateReadNothing(i) ==
    /\ act[i] = ActivateIdle
    /\ act' = [act EXCEPT ![i].pc = "histories"]
    /\ UNCHANGED <<now, tables, req, enable, deact, faults>>

(* activateFreeTrial first reads who has a plan row, ...                   *)
ActivateReadPlans(i) ==
    /\ act[i] = ActivateIdle
    /\ act' = [act EXCEPT ![i].pc = "histories",
                          ![i].excluded = {u \in Users : plan[u] # None}]
    /\ UNCHANGED <<now, tables, req, enable, deact, faults>>

Eligible(h) ==
    /\ hist[h] # None
    /\ TrialDays[hist[h].offer] > 0
    /\ hist[h].paymentStatus = "PENDING"

(* ... then the pending histories of the others that offer a trial.        *)
ActivateReadHistories(i) ==
    /\ act[i].pc = "histories"
    /\ LET found == {h \in HistoryIds : Eligible(h) /\ hist[h].user \notin act[i].excluded}
       IN act' = [act EXCEPT ![i] =
                    IF found = {} THEN ActivateIdle
                    ELSE [ActivateIdle EXCEPT !.pc = "create",
                            !.todo = {[hist |-> h, user |-> hist[h].user,
                                       offer |-> hist[h].offer] : h \in found}]]
    /\ UNCHANGED <<now, tables, req, enable, deact, faults>>

(* One row is inserted for each; a failed insert ends the run.             *)
ActivateCreate(i) ==
    /\ act[i].pc = "create"
    /\ \E e \in act[i].todo :
        \/ /\ plan[e.user] = None
           /\ plan' = [plan EXCEPT ![e.user] =
                 NewPlan(e.hist, e.offer, TrialDays[e.offer], "activateFreeTrial")]
           /\ act' = [act EXCEPT ![i].pc = "imap", ![i].todo = @ \ {e},
                                 ![i].user = e.user]
        \/ /\ plan[e.user] # None
           /\ act' = [act EXCEPT ![i] = ActivateIdle]
           /\ UNCHANGED plan
    /\ UNCHANGED <<now, hist, session, imap, activity, req, enable, deact, faults>>

ActivateImap(i) ==
    /\ act[i].pc = "imap"
    /\ SetImap(act[i].user, "on")
    /\ act' = [act EXCEPT ![i] =
                 IF act[i].todo = {} THEN ActivateIdle
                 ELSE [act[i] EXCEPT !.pc = "create", !.user = None]]
    /\ UNCHANGED <<now, plan, hist, session, activity, req, enable, deact, faults>>

(* enableSubscriptionFeatures reads the entitled users and switches the    *)
(* IMAP row of each on, whoever switched it off.                           *)
EnableRead(i) ==
    /\ enable[i] = {}
    /\ enable' = [enable EXCEPT ![i] = {u \in Users : Entitled(u)}]
    /\ UNCHANGED <<now, tables, req, act, deact, faults>>

EnableNext(i) ==
    /\ \E u \in enable[i] :
        /\ SetImap(u, "on")
        /\ enable' = [enable EXCEPT ![i] = @ \ {u}]
    /\ UNCHANGED <<now, plan, hist, session, activity, req, act, deact, faults>>

-----------------------------------------------------------------------------
(* The daily jobs.                                                         *)

(* deactivateExpiredSubscriptions reads the expired active rows; for each  *)
(* it clears the row, then the IMAP flags, then sends a renewal link.      *)
DeactivateFound(i, found) ==
    /\ deact[i] = DeactivateIdle
    /\ found # {}
    /\ deact' = [deact EXCEPT ![i] = [DeactivateIdle EXCEPT !.pc = "row", !.todo = found]]
    /\ UNCHANGED <<now, tables, req, act, enable, faults>>

(* Mutants: the query reads every active row; it forgets the free rows of  *)
(* activateFreeTrial.                                                      *)
DeactivateReadActive(i) ==
    DeactivateFound(i, {u \in Users : plan[u] # None /\ plan[u].isActive})
DeactivateReadPriced(i) ==
    DeactivateFound(i, {u \in Users : Expired(u) /\ plan[u].grant # "activateFreeTrial"})

DeactivateRead(i) == DeactivateFound(i, {u \in Users : Expired(u)})

DeactivateRow(i) ==
    /\ deact[i].pc = "row"
    /\ \E u \in deact[i].todo :
        /\ plan' = [plan EXCEPT ![u].isActive = FALSE]
        /\ deact' = [deact EXCEPT ![i].pc = "imap", ![i].todo = @ \ {u}, ![i].user = u]
    /\ UNCHANGED <<now, hist, session, imap, activity, req, act, enable, faults>>

DeactivateImap(i) ==
    /\ deact[i].pc = "imap"
    /\ SetImap(deact[i].user, "off")
    /\ deact' = [deact EXCEPT ![i].pc = "notify"]
    /\ UNCHANGED <<now, plan, hist, session, activity, req, act, enable, faults>>

(* sendPaymentNotification creates a session for the latest history and    *)
(* mails its link; the payment status does not learn the session.  Its own *)
(* errors are swallowed.                                                   *)
DeactivateNotify(i) ==
    /\ deact[i].pc = "notify"
    /\ \/ \E s \in SessionIds, h \in HistoryIds :
            /\ IsNext(session, s)
            /\ IsLatestHistory(h, deact[i].user)
            /\ session' = [session EXCEPT ![s] = NewSession(deact[i].user, h)]
       \/ UNCHANGED session
    /\ deact' = [deact EXCEPT ![i] =
                   IF deact[i].todo = {} THEN DeactivateIdle
                   ELSE [deact[i] EXCEPT !.pc = "row", !.user = None]]
    /\ UNCHANGED <<now, plan, hist, imap, activity, req, act, enable, faults>>

(* checkTrialExpiry: one and three days before the end of an unpaid plan   *)
(* a session is created that names no history.  Its link is written to the *)
(* log only: sending the reminder is still to be written.                  *)
ReminderDays == {1, 3}

TrialReminder(u) ==
    /\ Entitled(u)
    /\ hist[plan[u].hist].paymentStatus # "PAID"
    /\ plan[u].expiredAt - now \in ReminderDays
    /\ \E s \in SessionIds :
        /\ IsNext(session, s)
        /\ session' = [session EXCEPT ![s] = NewSession(u, None)]
    /\ UNCHANGED <<now, plan, hist, imap, activity, req, jobs, faults>>

-----------------------------------------------------------------------------
(* Time and failures.                                                      *)

Tick ==
    /\ now < MaxTime
    /\ now' = now + 1
    /\ UNCHANGED <<tables, req, jobs, faults>>

(* A call of a handler fails: the exception ends the handler, and what it  *)
(* wrote so far stays.                                                     *)
RequestFails(r) ==
    /\ req[r] # Idle
    /\ faults < MaxFaults
    /\ faults' = faults + 1
    /\ Done(r)
    /\ UNCHANGED <<now, tables, jobs>>

JobFails ==
    /\ faults < MaxFaults
    /\ faults' = faults + 1
    /\ \/ /\ \E i \in Activators : /\ act[i] # ActivateIdle
                                 /\ act' = [act EXCEPT ![i] = ActivateIdle]
          /\ UNCHANGED <<enable, deact>>
       \/ /\ \E i \in Enablers : /\ enable[i] # {}
                               /\ enable' = [enable EXCEPT ![i] = {}]
          /\ UNCHANGED <<act, deact>>
       \/ /\ \E i \in Deactivators : /\ deact[i] # DeactivateIdle
                                   /\ deact' = [deact EXCEPT ![i] = DeactivateIdle]
          /\ UNCHANGED <<act, enable>>
    /\ UNCHANGED <<now, tables, req>>

(* The process restarts: every handler and job in flight is gone.          *)
Restart ==
    /\ faults < MaxFaults
    /\ faults' = faults + 1
    /\ req' = [r \in Requests |-> Idle]
    /\ act' = [i \in Activators |-> ActivateIdle]
    /\ enable' = [i \in Enablers |-> {}]
    /\ deact' = [i \in Deactivators |-> DeactivateIdle]
    /\ UNCHANGED <<now, tables>>

-----------------------------------------------------------------------------
UserNext(r) ==
    \/ \E o \in Offers : BuyPlan(r, o) \/ UpgradePlan(r, o)
    \/ BuyCreateHistory(r)
    \/ BuyTrialPlan(r)
    \/ BuyTrialImap(r)
    \/ UpgradeHistory(r)
    \/ CreateCheckout(r)
    \/ StoreSession(r)
    \/ \E s \in SessionIds : WebhookMarkPaid(r, s)
    \/ WebhookReadHistory(r)
    \/ WebhookCreatePlan(r)
    \/ WebhookLog(r)
    \/ SetImapConfiguration(r)
    \/ SaveImapConfiguration(r)
    \/ RequestFails(r)

ActivateNext(i) ==
    \/ ActivateReadPlans(i)
    \/ ActivateReadHistories(i)
    \/ ActivateCreate(i)
    \/ ActivateImap(i)

DeactivateNext(i) ==
    \/ DeactivateRead(i)
    \/ DeactivateRow(i)
    \/ DeactivateImap(i)
    \/ DeactivateNotify(i)

Next ==
    \/ \E r \in Requests : UserNext(r)
    \/ \E u \in Users : DisconnectImap(u) \/ ConnectUser(u) \/ TrialReminder(u)
    \/ \E s \in SessionIds : CloseSession(s)
    \/ \E i \in Activators : ActivateNext(i)
    \/ \E i \in Enablers : EnableRead(i) \/ EnableNext(i)
    \/ \E i \in Deactivators : DeactivateNext(i)
    \/ JobFails
    \/ Tick
    \/ Restart

Spec == Init /\ [][Next]_vars

(* The scheduler fires every job again and again and an awaited call       *)
(* returns; users, Stripe and the clock owe nothing.                       *)
JobFairness ==
    /\ \A i \in Activators : WF_vars(ActivateNext(i))
    /\ \A i \in Deactivators : WF_vars(DeactivateNext(i))

FairSpec == Spec /\ JobFairness

-----------------------------------------------------------------------------
(* Properties.                                                             *)

(* A plan row is deactivated only after its last day, although the job     *)
(* that deactivates works from a list it read earlier                      *)
(* (deactivateExpiredSubscriptions).                                       *)
InactiveOnlyAfterExpiry ==
    \A u \in Users : plan[u] # None /\ ~plan[u].isActive => plan[u].expiredAt <= now

(* A payment status is PAID only if the customer completed a checkout for  *)
(* that history, whatever upgrades reset and whichever session was stored  *)
(* last (updateMany by stripeSessionId in handleWebhook).                  *)
PaidHasCompletedCheckout ==
    \A h \in HistoryIds :
        hist[h] # None /\ hist[h].paymentStatus = "PAID" =>
            \E s \in SessionIds : /\ session[s] # None
                                  /\ session[s].hist = h
                                  /\ session[s].state = "paid"

(* A row granted by the webhook is backed by a completed checkout of the   *)
(* same user and history; a row granted as a trial by a history of the     *)
(* same user.                                                              *)
GrantIsBacked ==
    \A u \in Users : plan[u] # None =>
        /\ hist[plan[u].hist] # None
        /\ hist[plan[u].hist].user = u
        /\ plan[u].grant = "webhook" =>
              \E s \in SessionIds : /\ session[s] # None
                                    /\ session[s].user = u
                                    /\ session[s].hist = plan[u].hist
                                    /\ session[s].state = "paid"

(* Nobody has an IMAP configuration who never had a plan, although the     *)
(* check in setImapConfiguration is long over when the row is written.     *)
ImapRequiresPlan == \A u \in Users : imap[u] # "absent" => plan[u] # None

(* The midnight job eventually deactivates every expired row, through any  *)
(* finite number of failed runs and restarts.                              *)
ExpiredIsDeactivated ==
    \A u \in Users : Expired(u) ~> (plan[u] # None /\ ~plan[u].isActive)

(* A pending history that offers a trial to a user without a plan row is   *)
(* eventually served by activateFreeTrial, although one failed insert ends *)
(* the run for everybody behind it, or stops qualifying.                   *)
TrialIsActivated ==
    \A h \in HistoryIds : Eligible(h) ~> (~Eligible(h) \/ plan[hist[h].user] # None)

(* The rows that refer to each other: a recorded session was opened for    *)
(* the history that records it, and a session that names a history belongs *)
(* to the user of that history.                                            *)
RecordedSessionsMatch ==
    \A h \in HistoryIds : hist[h] # None /\ hist[h].stripeSessionId # None =>
        /\ session[hist[h].stripeSessionId] # None
        /\ session[hist[h].stripeSessionId].hist = h

SessionsMatch ==
    \A s \in SessionIds : session[s] # None /\ session[s].hist # None =>
        /\ hist[session[s].hist] # None
        /\ hist[session[s].hist].user = session[s].user

(* What a handler in flight carries from an earlier call to a later one is *)
(* still true when it uses it.                                             *)
RequestHoldsOffer(r) == req[r].offer \in Offers
RequestHoldsHistory(r) ==
    /\ req[r].hist \in HistoryIds
    /\ hist[req[r].hist] # None
    /\ hist[req[r].hist].user = User(r)
RequestHoldsSession(r) ==
    /\ req[r].session \in SessionIds
    /\ session[req[r].session] # None
    /\ session[req[r].session].hist = req[r].hist

RequestIsCurrent(r) ==
    /\ req[r].pc \in {"buyHistory", "buyTrialPlan", "upgradeHistory", "webhookPlan"} =>
          RequestHoldsOffer(r)
    /\ req[r].pc \in {"buyTrialPlan", "upgradeHistory", "checkout", "storeSession",
                      "webhookHistory", "webhookPlan"} => RequestHoldsHistory(r)
    /\ req[r].pc \in {"storeSession", "webhookHistory", "webhookPlan"} =>
          RequestHoldsSession(r)
    /\ req[r].pc \in {"webhookHistory", "webhookPlan"} =>
          /\ session[req[r].session].user = User(r)
          /\ session[req[r].session].state = "paid"
    /\ req[r].pc = "buyTrialPlan" => TrialDays[req[r].offer] > 0
    /\ req[r].pc = "imapSave" => plan[User(r)] # None

RequestsAreCurrent == \A r \in Requests : RequestIsCurrent(r)

ActivationsAreCurrent ==
    \A i \in Activators : \A e \in act[i].todo :
        /\ hist[e.hist] # None
        /\ hist[e.hist].user = e.user
        /\ TrialDays[e.offer] > 0

DeactivationsAreCurrent ==
    \A i \in Deactivators : \A u \in deact[i].todo :
        plan[u] # None /\ plan[u].expiredAt <= now

(* The invariant the proofs use: the type invariant, the consistency of    *)
(* rows and handlers, and the safety properties above.                     *)
IInv ==
    /\ TypeOK
    /\ RecordedSessionsMatch
    /\ SessionsMatch
    /\ RequestsAreCurrent
    /\ ActivationsAreCurrent
    /\ DeactivationsAreCurrent
    /\ InactiveOnlyAfterExpiry
    /\ PaidHasCompletedCheckout
    /\ GrantIsBacked
    /\ ImapRequiresPlan

(* What the tables promise about access (module Entitlement): a user's     *)
(* access is granted at most once, keeps its end date and ends only after  *)
(* it, whatever the webhook repeats and the jobs overlap.                  *)
access == [u \in Users |->
             IF plan[u] = None THEN [state |-> "none", until |-> 0]
             ELSE [state |-> IF plan[u].isActive THEN "active" ELSE "lapsed",
                   until |-> plan[u].expiredAt]]
Access == INSTANCE Entitlement WITH now <- now, access <- access
ImplementsEntitlement == Access!Spec

(* "Renew now to continue using our services", says the mail of            *)
(* sendPaymentNotification: when the webhook has dealt with a completed    *)
(* payment of a customer whose row was deactivated, the customer is        *)
(* entitled again.                                                         *)
RenewalRestoresAccess ==
    [][\A r \in Requests :
         /\ req[r].pc = "webhookPlan"
         /\ req'[r].pc # "webhookPlan"
         /\ plan[User(r)] # None /\ ~plan[User(r)].isActive
         => Entitled(User(r))']_vars

(* "Check if this is an upgrade by looking at existing active plans", says *)
(* handleWebhook: a user's first payment, without a trial before it, is    *)
(* not logged as an upgrade.                                               *)
FirstPaymentIsNoUpgrade ==
    \A u \in Users :
        /\ \E s \in SessionIds : /\ session[s] # None
                                /\ session[s].user = u
                                /\ session[s].state = "paid"
                                /\ \A t \in SessionIds \ {s} : session[t] = None
        /\ plan[u] # None /\ plan[u].grant = "webhook"
        => "PLAN_UPGRADED" \notin activity[u]
=============================================================================

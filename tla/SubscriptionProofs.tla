------------------------- MODULE SubscriptionProofs -------------------------
(***************************************************************************)
(* Proofs of the safety of module Subscription, for every value of its     *)
(* constants.                                                              *)
(***************************************************************************)
EXTENDS Subscription, TLAPS

(* The rows and runs the actions write have the types of their tables.     *)
LEMMA IdleTypes ==
    /\ Idle \in Request
    /\ ActivateIdle \in ActivateRun
    /\ DeactivateIdle \in DeactivateRun
  BY DEF Idle, Request, ActivateIdle, ActivateRun, DeactivateIdle, DeactivateRun

LEMMA UserType == \A r \in Requests : User(r) \in Users
  BY DEF Requests, User

LEMMA NewPlanType ==
  ASSUME now \in Nat, NEW h \in HistoryIds, NEW o \in Offers, NEW d \in Nat, NEW g \in Grants
  PROVE  NewPlan(h, o, d, g) \in Plan
  BY DEF NewPlan, Plan

LEMMA NewSessionType ==
  ASSUME NEW u \in Users, NEW h \in HistoryIds \cup {None}
  PROVE  NewSession(u, h) \in Session
  BY BoundsAssumption DEF NewSession, Session

LEMMA SetImapType ==
  ASSUME TypeOK, NEW u, NEW flag \in {"on", "off"}, SetImap(u, flag)
  PROVE  imap' \in [Users -> {"absent", "on", "off"}]
  BY DEF TypeOK, SetImap

LEMMA DoneType ==
  ASSUME TypeOK, NEW r \in Requests, Done(r)
  PROVE  req' \in [Requests -> Request]
  BY IdleTypes DEF TypeOK, Done

LEMMA StepType ==
  ASSUME TypeOK, NEW r \in Requests, NEW pc, Step(r, pc),
         pc \in {"buyTrialImap", "checkout", "webhookLog"}
  PROVE  req' \in [Requests -> Request]
<1>1. req \in [Requests -> Request]
  BY DEF TypeOK
<1>2. [req[r] EXCEPT !.pc = pc] \in Request
  BY <1>1 DEF Request
<1>3. req' = [req EXCEPT ![r] = [req[r] EXCEPT !.pc = pc]]
  BY <1>1 DEF Step
<1>q. QED BY <1>1, <1>2, <1>3

LEMMA TypeInit == Init => TypeOK
  BY IdleTypes, BoundsAssumption DEF Init, TypeOK, ActivateRun, DeactivateRun

-----------------------------------------------------------------------------
(* Every handler step keeps the types.  What it carries is current by the  *)
(* invariant, so it writes rows that exist.                                *)
LEMMA RequestType ==
  ASSUME IInv, NEW r \in Requests, UserNext(r)
  PROVE  TypeOK'
<1> USE DEF jobs, tables
<1>t. TypeOK BY DEF IInv
<1>u. User(r) \in Users BY UserType
<1>n. now \in Nat BY <1>t, BoundsAssumption DEF TypeOK
<1>1. ASSUME NEW o \in Offers, BuyPlan(r, o) PROVE TypeOK'
  BY <1>1, <1>t, IdleTypes DEF BuyPlan, TypeOK, Request, Idle
<1>2. ASSUME NEW o \in Offers, UpgradePlan(r, o) PROVE TypeOK'
  <2>1. PICK h \in HistoryIds :
          req' = [req EXCEPT ![r] =
                    [Idle EXCEPT !.pc = "upgradeHistory", !.offer = o, !.hist = h]]
    BY <1>2 DEF UpgradePlan
  <2>2. [Idle EXCEPT !.pc = "upgradeHistory", !.offer = o, !.hist = h] \in Request
    BY DEF Idle, Request
  <2>q. QED BY <2>1, <2>2, <1>2, <1>t DEF UpgradePlan, TypeOK
<1>3. CASE BuyCreateHistory(r)
  <2>1. RequestHoldsOffer(r)
    BY <1>3 DEF BuyCreateHistory, IInv, RequestsAreCurrent, RequestIsCurrent
  <2>2. CASE Full(hist) /\ Done(r) /\ UNCHANGED hist
    BY <2>2, <1>3, <1>t, DoneType DEF BuyCreateHistory, TypeOK
  <2>3. ASSUME NEW h \in HistoryIds,
               hist' = [hist EXCEPT ![h] = [user |-> User(r), offer |-> req[r].offer,
                            paymentStatus |-> "PENDING", stripeSessionId |-> None]],
               req' = [req EXCEPT
                         ![r].pc = IF TrialDays[req[r].offer] > 0
                                   THEN "buyTrialPlan" ELSE "checkout",
                         ![r].hist = h]
        PROVE  TypeOK'
    <3>1. hist' \in [HistoryIds -> History \cup {None}]
      BY <2>1, <2>3, <1>t, <1>u DEF TypeOK, History, RequestHoldsOffer
    <3>2. req' \in [Requests -> Request]
      <4> DEFINE pc == IF TrialDays[req[r].offer] > 0 THEN "buyTrialPlan" ELSE "checkout"
      <4>1. req \in [Requests -> Request] BY <1>t DEF TypeOK
      <4>2. pc \in {"buyTrialPlan", "checkout"} OBVIOUS
      <4>3. req' = [req EXCEPT ![r] = [req[r] EXCEPT !.pc = pc, !.hist = h]]
        BY <2>3, <4>1 DEF Request
      <4> HIDE DEF pc
      <4>4. [req[r] EXCEPT !.pc = pc, !.hist = h] \in Request
        BY <4>1, <4>2 DEF Request
      <4>q. QED BY <4>1, <4>3, <4>4
    <3>q. QED BY <3>1, <3>2, <1>3, <1>t DEF BuyCreateHistory, TypeOK
  <2>q. QED BY <2>2, <2>3, <1>3 DEF BuyCreateHistory
<1>4. CASE BuyTrialPlan(r)
  <2>1. /\ RequestHoldsOffer(r)
        /\ RequestHoldsHistory(r)
    BY <1>4 DEF BuyTrialPlan, IInv, RequestsAreCurrent, RequestIsCurrent
  <2>2. NewPlan(req[r].hist, req[r].offer, TrialDays[req[r].offer], "buyPlan") \in Plan
    BY <2>1, <1>n, NewPlanType, OffersAssumption
       DEF RequestHoldsOffer, RequestHoldsHistory, Grants
  <2>3. plan' \in [Users -> Plan \cup {None}]
    BY <2>2, <1>4, <1>t DEF BuyTrialPlan, TypeOK
  <2>4. req' \in [Requests -> Request]
    BY <1>4, <1>t, StepType, DoneType DEF BuyTrialPlan
  <2>q. QED BY <2>3, <2>4, <1>4, <1>t DEF BuyTrialPlan, TypeOK
<1>5. CASE BuyTrialImap(r)
  BY <1>5, <1>t, SetImapType, DoneType DEF BuyTrialImap, TypeOK
<1>6. CASE UpgradeHistory(r)
  <2>1. /\ RequestHoldsOffer(r)
        /\ RequestHoldsHistory(r)
    BY <1>6 DEF UpgradeHistory, IInv, RequestsAreCurrent, RequestIsCurrent
  <2>2. hist[req[r].hist] \in History
    BY <2>1, <1>t DEF TypeOK, RequestHoldsHistory
  <2>3. hist' \in [HistoryIds -> History \cup {None}]
    BY <2>1, <2>2, <1>6, <1>t DEF UpgradeHistory, TypeOK, History, RequestHoldsOffer
  <2>4. req' \in [Requests -> Request]
    BY <1>6, <1>t, StepType DEF UpgradeHistory
  <2>q. QED BY <2>3, <2>4, <1>6, <1>t DEF UpgradeHistory, TypeOK
<1>7. CASE CreateCheckout(r)
  <2>1. RequestHoldsHistory(r)
    BY <1>7 DEF CreateCheckout, IInv, RequestsAreCurrent, RequestIsCurrent
  <2>2. NewSession(User(r), req[r].hist) \in Session
    BY <2>1, <1>u, NewSessionType DEF RequestHoldsHistory
  <2>3. session' \in [SessionIds -> Session \cup {None}]
    BY <2>2, <1>7, <1>t DEF CreateCheckout, TypeOK
  <2>4. req' \in [Requests -> Request]
    <3>1. req[r] \in Request BY <1>t DEF TypeOK
    <3>2. ASSUME NEW s \in SessionIds
          PROVE  [req[r] EXCEPT !.pc = "storeSession", !.session = s] \in Request
      BY <3>1 DEF Request
    <3>3. req \in [Requests -> Request] BY <1>t DEF TypeOK
    <3>4. \/ \E s \in SessionIds :
               req' = [req EXCEPT ![r] =
                         [req[r] EXCEPT !.pc = "storeSession", !.session = s]]
          \/ Done(r)
      BY <1>7, <3>3 DEF CreateCheckout
    <3>q. QED BY <3>2, <3>3, <3>4, <1>t, DoneType
  <2>q. QED BY <2>3, <2>4, <1>7, <1>t DEF CreateCheckout, TypeOK
<1>8. CASE StoreSession(r)
  <2>1. /\ RequestHoldsHistory(r)
        /\ RequestHoldsSession(r)
    BY <1>8 DEF StoreSession, IInv, RequestsAreCurrent, RequestIsCurrent
  <2>2. hist[req[r].hist] \in History
    BY <2>1, <1>t DEF TypeOK, RequestHoldsHistory
  <2>3. hist' \in [HistoryIds -> History \cup {None}]
    BY <2>1, <2>2, <1>8, <1>t DEF StoreSession, TypeOK, History, RequestHoldsSession
  <2>q. QED BY <2>3, <1>8, <1>t, DoneType DEF StoreSession, TypeOK
<1>9. ASSUME NEW s \in SessionIds, WebhookMarkPaid(r, s) PROVE TypeOK'
  <2>1. session[s] \in Session
    BY <1>9, <1>t DEF WebhookMarkPaid, TypeOK
  <2>2. session' \in [SessionIds -> Session \cup {None}]
    BY <2>1, <1>9, <1>t, BoundsAssumption DEF WebhookMarkPaid, HandleCompleted, TypeOK, Session
  <2>3. hist' \in [HistoryIds -> History \cup {None}]
    BY <1>9, <1>t DEF WebhookMarkPaid, HandleCompleted, TypeOK, History
  <2>4. req' \in [Requests -> Request]
    <3>1. [Idle EXCEPT !.pc = "webhookHistory", !.hist = session[s].hist, !.session = s]
            \in Request
      BY <2>1 DEF Session, Idle, Request
    <3>q. QED BY <3>1, <1>9, <1>t DEF WebhookMarkPaid, HandleCompleted, TypeOK
  <2>q. QED BY <2>2, <2>3, <2>4, <1>9, <1>t DEF WebhookMarkPaid, HandleCompleted, TypeOK
<1>10. CASE WebhookReadHistory(r)
  <2>1. RequestHoldsHistory(r)
    BY <1>10 DEF WebhookReadHistory, IInv, RequestsAreCurrent, RequestIsCurrent
  <2>2. hist[req[r].hist].offer \in Offers
    BY <2>1, <1>t DEF TypeOK, RequestHoldsHistory, History
  <2>3. [req[r] EXCEPT !.pc = "webhookPlan", !.offer = hist[req[r].hist].offer] \in Request
    <3> DEFINE o == hist[req[r].hist].offer
               x == req[r]
    <3>1. o \in Offers /\ x \in Request
      BY <2>2, <1>t DEF TypeOK
    <3> HIDE DEF o, x
    <3>2. [x EXCEPT !.pc = "webhookPlan", !.offer = o] \in Request
      BY <3>1 DEF Request
    <3>q. QED BY <3>2 DEF o, x
  <2>4. req' = [req EXCEPT ![r] =
                  [req[r] EXCEPT !.pc = "webhookPlan", !.offer = hist[req[r].hist].offer]]
    BY <1>10, <1>t DEF WebhookReadHistory, TypeOK
  <2>5. req' \in [Requests -> Request]
    BY <2>3, <2>4, <1>t DEF TypeOK
  <2>q. QED BY <2>5, <1>10, <1>t DEF WebhookReadHistory, TypeOK
<1>11. CASE WebhookCreatePlan(r)
  <2>1. /\ RequestHoldsOffer(r)
        /\ RequestHoldsHistory(r)
    BY <1>11 DEF WebhookCreatePlan, IInv, RequestsAreCurrent, RequestIsCurrent
  <2>2. NewPlan(req[r].hist, req[r].offer, PeriodDays[req[r].offer], "webhook") \in Plan
    BY <2>1, <1>n, NewPlanType, OffersAssumption
       DEF RequestHoldsOffer, RequestHoldsHistory, Grants
  <2>3. plan' \in [Users -> Plan \cup {None}]
    BY <2>2, <1>11, <1>t DEF WebhookCreatePlan, TypeOK
  <2>4. req' \in [Requests -> Request]
    BY <1>11, <1>t, StepType, DoneType DEF WebhookCreatePlan
  <2>q. QED BY <2>3, <2>4, <1>11, <1>t DEF WebhookCreatePlan, TypeOK
<1>12. CASE WebhookLog(r)
  BY <1>12, <1>t, DoneType DEF WebhookLog, TypeOK
<1>13. CASE SetImapConfiguration(r)
  BY <1>13, <1>t DEF SetImapConfiguration, TypeOK, Request, Idle
<1>14. CASE SaveImapConfiguration(r)
  BY <1>14, <1>t, DoneType DEF SaveImapConfiguration, TypeOK
<1>15. CASE RequestFails(r)
  BY <1>15, <1>t, DoneType, BoundsAssumption DEF RequestFails, TypeOK
<1>q. QED
  BY <1>1, <1>2, <1>3, <1>4, <1>5, <1>6, <1>7, <1>8, <1>9, <1>10, <1>11, <1>12,
     <1>13, <1>14, <1>15 DEF UserNext

(* Every step of a job keeps the types.                                    *)
LEMMA ActivateType ==
  ASSUME IInv, NEW i \in Activators, ActivateNext(i)
  PROVE  TypeOK'
<1> USE DEF jobs, tables
<1>t. TypeOK BY DEF IInv
<1>n. now \in Nat BY <1>t, BoundsAssumption DEF TypeOK
<1>1. CASE ActivateReadPlans(i)
  <2> DEFINE served == {u \in Users : plan[u] # None}
  <2>1. [act[i] EXCEPT !.pc = "histories", !.excluded = served] \in ActivateRun
    <3>1. act[i] \in ActivateRun BY <1>t DEF TypeOK
    <3>2. served \subseteq Users OBVIOUS
    <3> HIDE DEF served
    <3>q. QED BY <3>1, <3>2 DEF ActivateRun
  <2>2. act' = [act EXCEPT ![i] = [act[i] EXCEPT !.pc = "histories", !.excluded = served]]
    BY <1>1, <1>t DEF ActivateReadPlans, TypeOK
  <2>3. act' \in [Activators -> ActivateRun]
    BY <2>1, <2>2, <1>t DEF TypeOK
  <2>q. QED BY <2>3, <1>1, <1>t DEF ActivateReadPlans, TypeOK
<1>2. CASE ActivateReadHistories(i)
  <2> DEFINE found == {h \in HistoryIds : Eligible(h) /\ hist[h].user \notin act[i].excluded}
             entries == {[hist |-> h, user |-> hist[h].user, offer |-> hist[h].offer] : h \in found}
  <2>1. entries \subseteq TrialEntry
    BY <1>t DEF TypeOK, Eligible, History, TrialEntry
  <2>2. [ActivateIdle EXCEPT !.pc = "create", !.todo = entries] \in ActivateRun
    BY <2>1 DEF ActivateIdle, ActivateRun
  <2>q. QED BY <2>2, <1>2, <1>t, IdleTypes DEF ActivateReadHistories, TypeOK
<1>3. CASE ActivateCreate(i)
  <2>1. PICK e \in act[i].todo :
          \/ /\ plan[e.user] = None
             /\ plan' = [plan EXCEPT ![e.user] =
                   NewPlan(e.hist, e.offer, TrialDays[e.offer], "activateFreeTrial")]
             /\ act' = [act EXCEPT ![i].pc = "imap", ![i].todo = @ \ {e},
                                   ![i].user = e.user]
          \/ /\ plan[e.user] # None
             /\ act' = [act EXCEPT ![i] = ActivateIdle]
             /\ UNCHANGED plan
    BY <1>3 DEF ActivateCreate
  <2>2. e \in TrialEntry
    BY <2>1, <1>t DEF TypeOK, ActivateRun
  <2>3. NewPlan(e.hist, e.offer, TrialDays[e.offer], "activateFreeTrial") \in Plan
    BY <2>2, <1>n, NewPlanType, OffersAssumption DEF TrialEntry, Grants
  <2>4. plan' \in [Users -> Plan \cup {None}]
    BY <2>1, <2>2, <2>3, <1>t DEF TypeOK
  <2>5. act' \in [Activators -> ActivateRun]
    <3>1. [act[i] EXCEPT !.pc = "imap", !.todo = @ \ {e}, !.user = e.user] \in ActivateRun
      <4>1. e.user \in Users
        BY <2>2 DEF TrialEntry
      <4>2. act[i] \in ActivateRun
        BY <1>t DEF TypeOK
      <4>q. QED BY <4>1, <4>2 DEF ActivateRun
    <3>2. \/ act' = [act EXCEPT ![i] =
                      [act[i] EXCEPT !.pc = "imap", !.todo = @ \ {e}, !.user = e.user]]
          \/ act' = [act EXCEPT ![i] = ActivateIdle]
      BY <2>1, <1>t DEF TypeOK
    <3>q. QED BY <3>1, <3>2, <1>t, IdleTypes DEF TypeOK
  <2>q. QED BY <2>4, <2>5, <1>3, <1>t DEF ActivateCreate, TypeOK
<1>4. CASE ActivateImap(i)
  <2>1. act' \in [Activators -> ActivateRun]
    <3>1. [act[i] EXCEPT !.pc = "create", !.user = None] \in ActivateRun
      <4>1. act[i] \in ActivateRun BY <1>t DEF TypeOK
      <4>q. QED BY <4>1 DEF ActivateRun
    <3>q. QED BY <3>1, <1>4, <1>t, IdleTypes DEF ActivateImap, TypeOK
  <2>q. QED BY <2>1, <1>4, <1>t, SetImapType DEF ActivateImap, TypeOK
<1>q. QED BY <1>1, <1>2, <1>3, <1>4 DEF ActivateNext

LEMMA EnableType ==
  ASSUME IInv, NEW i \in Enablers, EnableRead(i) \/ EnableNext(i)
  PROVE  TypeOK'
<1> USE DEF jobs, tables
<1>t. TypeOK BY DEF IInv
<1>1. CASE EnableRead(i)
  BY <1>1, <1>t DEF EnableRead, TypeOK
<1>2. CASE EnableNext(i)
  <2>1. imap' \in [Users -> {"absent", "on", "off"}]
    BY <1>2, <1>t, SetImapType DEF EnableNext
  <2>q. QED BY <2>1, <1>2, <1>t DEF EnableNext, TypeOK
<1>q. QED BY <1>1, <1>2

LEMMA DeactivateType ==
  ASSUME IInv, NEW i \in Deactivators, DeactivateNext(i)
  PROVE  TypeOK'
<1> USE DEF jobs, tables
<1>t. TypeOK BY DEF IInv
<1>1. CASE DeactivateRead(i)
  <2>1. [DeactivateIdle EXCEPT !.pc = "row", !.todo = {u \in Users : Expired(u)}]
          \in DeactivateRun
    BY DEF DeactivateIdle, DeactivateRun
  <2>q. QED BY <2>1, <1>1, <1>t DEF DeactivateRead, DeactivateFound, TypeOK
<1>2. CASE DeactivateRow(i)
  <2>1. PICK u \in deact[i].todo :
          /\ plan' = [plan EXCEPT ![u].isActive = FALSE]
          /\ deact' = [deact EXCEPT ![i].pc = "imap", ![i].todo = @ \ {u}, ![i].user = u]
    BY <1>2 DEF DeactivateRow
  <2>2. u \in Users /\ plan[u] \in Plan
    BY <2>1, <1>t DEF TypeOK, DeactivateRun, IInv, DeactivationsAreCurrent
  <2>3. plan' \in [Users -> Plan \cup {None}]
    BY <2>1, <2>2, <1>t DEF TypeOK, Plan
  <2>4. [deact[i] EXCEPT !.pc = "imap", !.todo = @ \ {u}, !.user = u] \in DeactivateRun
    BY <2>2, <1>t DEF TypeOK, DeactivateRun
  <2>5. deact' = [deact EXCEPT ![i] =
                    [deact[i] EXCEPT !.pc = "imap", !.todo = @ \ {u}, !.user = u]]
    BY <2>1, <1>t DEF TypeOK
  <2>6. deact' \in [Deactivators -> DeactivateRun]
    BY <2>4, <2>5, <1>t DEF TypeOK
  <2>q. QED BY <2>3, <2>6, <1>2, <1>t DEF DeactivateRow, TypeOK
<1>3. CASE DeactivateImap(i)
  <2>1. deact' \in [Deactivators -> DeactivateRun]
    BY <1>3, <1>t DEF DeactivateImap, TypeOK, DeactivateRun
  <2>q. QED BY <2>1, <1>3, <1>t, SetImapType DEF DeactivateImap, TypeOK
<1>4. CASE DeactivateNotify(i)
  <2>1. session' \in [SessionIds -> Session \cup {None}]
    <3>1. ASSUME NEW s \in SessionIds, NEW h \in HistoryIds,
                 IsLatestHistory(h, deact[i].user),
                 session' = [session EXCEPT ![s] = NewSession(deact[i].user, h)]
          PROVE  session' \in [SessionIds -> Session \cup {None}]
      <4>1. deact[i].user \in Users
        BY <3>1, <1>t DEF TypeOK, IsLatestHistory, History
      <4>q. QED BY <3>1, <4>1, <1>t, NewSessionType DEF TypeOK
    <3>q. QED BY <3>1, <1>4, <1>t DEF DeactivateNotify, TypeOK
  <2>2. deact' \in [Deactivators -> DeactivateRun]
    <3>1. [deact[i] EXCEPT !.pc = "row", !.user = None] \in DeactivateRun
      BY <1>t DEF TypeOK, DeactivateRun
    <3>q. QED BY <3>1, <1>4, <1>t, IdleTypes DEF DeactivateNotify, TypeOK
  <2>q. QED BY <2>1, <2>2, <1>4, <1>t DEF DeactivateNotify, TypeOK
<1>q. QED BY <1>1, <1>2, <1>3, <1>4 DEF DeactivateNext

(* Every step keeps the types.                                             *)
LEMMA TypeStep ==
  ASSUME IInv, [Next]_vars
  PROVE  TypeOK'
<1> USE DEF jobs, tables
<1>t. TypeOK BY DEF IInv
<1>1. CASE UNCHANGED vars
  BY <1>1, <1>t DEF vars, TypeOK
<1>2. ASSUME NEW r \in Requests, UserNext(r) PROVE TypeOK'
  BY <1>2, RequestType
<1>3. ASSUME NEW u \in Users, DisconnectImap(u) \/ ConnectUser(u) PROVE TypeOK'
  BY <1>3, <1>t, SetImapType DEF DisconnectImap, ConnectUser, TypeOK
<1>4. ASSUME NEW u \in Users, TrialReminder(u) PROVE TypeOK'
  <2>1. session' \in [SessionIds -> Session \cup {None}]
    BY <1>4, <1>t, NewSessionType DEF TrialReminder, TypeOK
  <2>q. QED BY <2>1, <1>4, <1>t DEF TrialReminder, TypeOK
<1>5. ASSUME NEW s \in SessionIds, CloseSession(s) PROVE TypeOK'
  <2>1. session' \in [SessionIds -> Session \cup {None}]
    BY <1>5, <1>t DEF CloseSession, TypeOK, Session
  <2>q. QED BY <2>1, <1>5, <1>t DEF CloseSession, TypeOK
<1>6. ASSUME NEW i \in Activators, ActivateNext(i) PROVE TypeOK'
  BY <1>6, ActivateType
<1>7. ASSUME NEW i \in Enablers, EnableRead(i) \/ EnableNext(i) PROVE TypeOK'
  BY <1>7, EnableType
<1>8. ASSUME NEW i \in Deactivators, DeactivateNext(i) PROVE TypeOK'
  BY <1>8, DeactivateType
<1>9. CASE JobFails
  <2>1. faults' \in 0..MaxFaults
    BY <1>9, <1>t, BoundsAssumption DEF JobFails, TypeOK
  <2>2. /\ act' \in [Activators -> ActivateRun]
        /\ enable' \in [Enablers -> SUBSET Users]
        /\ deact' \in [Deactivators -> DeactivateRun]
    BY <1>9, <1>t, IdleTypes DEF JobFails, TypeOK
  <2>q. QED BY <2>1, <2>2, <1>9, <1>t DEF JobFails, TypeOK
<1>10. CASE Tick
  BY <1>10, <1>t, BoundsAssumption DEF Tick, TypeOK
<1>11. CASE Restart
  <2>1. faults' \in 0..MaxFaults
    BY <1>11, <1>t, BoundsAssumption DEF Restart, TypeOK
  <2>q. QED BY <2>1, <1>11, <1>t, IdleTypes DEF Restart, TypeOK
<1>q. QED
  BY <1>1, <1>2, <1>3, <1>4, <1>5, <1>6, <1>7, <1>8, <1>9, <1>10, <1>11 DEF Next

-----------------------------------------------------------------------------
(* Which actions write which variable.                                     *)
LEMMA HistWriters ==
  ASSUME [Next]_vars
  PROVE  \/ UNCHANGED hist
         \/ \E r \in Requests : \/ BuyCreateHistory(r)
                               \/ UpgradeHistory(r)
                               \/ StoreSession(r)
                               \/ \E s \in SessionIds : WebhookMarkPaid(r, s)
  BY DEF Next, vars, tables, jobs, UserNext, BuyPlan, BuyTrialPlan, BuyTrialImap,
         UpgradePlan, CreateCheckout, WebhookReadHistory, WebhookCreatePlan, WebhookLog,
         SetImapConfiguration, SaveImapConfiguration, RequestFails, DisconnectImap,
         ConnectUser, TrialReminder, CloseSession, ActivateNext, ActivateReadPlans,
         ActivateReadHistories, ActivateCreate, ActivateImap, EnableRead, EnableNext,
         DeactivateNext, DeactivateRead, DeactivateFound, DeactivateRow, DeactivateImap,
         DeactivateNotify, JobFails, Tick, Restart

LEMMA SessionWriters ==
  ASSUME [Next]_vars
  PROVE  \/ UNCHANGED session
         \/ \E r \in Requests : \/ CreateCheckout(r)
                               \/ \E s \in SessionIds : WebhookMarkPaid(r, s)
         \/ \E i \in Deactivators : DeactivateNotify(i)
         \/ \E u \in Users : TrialReminder(u)
         \/ \E s \in SessionIds : CloseSession(s)
  BY DEF Next, vars, tables, jobs, UserNext, BuyPlan, BuyCreateHistory, BuyTrialPlan,
         BuyTrialImap, UpgradePlan, UpgradeHistory, StoreSession, WebhookReadHistory,
         WebhookCreatePlan, WebhookLog, SetImapConfiguration, SaveImapConfiguration,
         RequestFails, DisconnectImap, ConnectUser, ActivateNext, ActivateReadPlans,
         ActivateReadHistories, ActivateCreate, ActivateImap, EnableRead, EnableNext,
         DeactivateNext, DeactivateRead, DeactivateFound, DeactivateRow, DeactivateImap,
         JobFails, Tick, Restart

LEMMA PlanWriters ==
  ASSUME [Next]_vars
  PROVE  \/ UNCHANGED plan
         \/ \E r \in Requests : BuyTrialPlan(r) \/ WebhookCreatePlan(r)
         \/ \E i \in Activators : ActivateCreate(i)
         \/ \E i \in Deactivators : DeactivateRow(i)
  BY DEF Next, vars, tables, jobs, UserNext, BuyPlan, BuyCreateHistory, BuyTrialImap,
         UpgradePlan, UpgradeHistory, CreateCheckout, StoreSession, WebhookMarkPaid,
         HandleCompleted, WebhookReadHistory, WebhookLog, SetImapConfiguration,
         SaveImapConfiguration, RequestFails, DisconnectImap, ConnectUser, TrialReminder,
         CloseSession, ActivateNext, ActivateReadPlans, ActivateReadHistories,
         ActivateImap, EnableRead, EnableNext, DeactivateNext, DeactivateRead,
         DeactivateFound, DeactivateImap, DeactivateNotify, JobFails, Tick, Restart

LEMMA TimeWriters ==
  ASSUME [Next]_vars
  PROVE  UNCHANGED now \/ Tick
  BY DEF Next, vars, tables, jobs, UserNext, BuyPlan, BuyCreateHistory, BuyTrialPlan,
         BuyTrialImap, UpgradePlan, UpgradeHistory, CreateCheckout, StoreSession,
         WebhookMarkPaid, HandleCompleted, WebhookReadHistory, WebhookCreatePlan,
         WebhookLog, SetImapConfiguration, SaveImapConfiguration, RequestFails,
         DisconnectImap, ConnectUser, TrialReminder, CloseSession, ActivateNext,
         ActivateReadPlans, ActivateReadHistories, ActivateCreate, ActivateImap,
         EnableRead, EnableNext, DeactivateNext, DeactivateRead, DeactivateFound,
         DeactivateRow, DeactivateImap, DeactivateNotify, JobFails, Restart

LEMMA ImapWriters ==
  ASSUME [Next]_vars
  PROVE  \/ UNCHANGED imap
         \/ \E u, flag : SetImap(u, flag)
         \/ \E r \in Requests : SaveImapConfiguration(r)
  BY DEF Next, vars, tables, jobs, UserNext, BuyPlan, BuyCreateHistory, BuyTrialPlan,
         BuyTrialImap, UpgradePlan, UpgradeHistory, CreateCheckout, StoreSession,
         WebhookMarkPaid, HandleCompleted, WebhookReadHistory, WebhookCreatePlan,
         WebhookLog, SetImapConfiguration, RequestFails, DisconnectImap, ConnectUser,
         TrialReminder, CloseSession, ActivateNext, ActivateReadPlans,
         ActivateReadHistories, ActivateCreate, ActivateImap, EnableRead, EnableNext,
         DeactivateNext, DeactivateRead, DeactivateFound, DeactivateRow, DeactivateImap,
         DeactivateNotify, JobFails, Tick, Restart

LEMMA RequestWriters ==
  ASSUME [Next]_vars
  PROVE  \/ UNCHANGED req
         \/ \E r \in Requests : UserNext(r)
         \/ Restart
  BY DEF Next, vars, tables, jobs, DisconnectImap, ConnectUser, TrialReminder,
         CloseSession, ActivateNext, ActivateReadPlans, ActivateReadHistories,
         ActivateCreate, ActivateImap, EnableRead, EnableNext, DeactivateNext,
         DeactivateRead, DeactivateFound, DeactivateRow, DeactivateImap,
         DeactivateNotify, JobFails, Tick

LEMMA ActivationWriters ==
  ASSUME [Next]_vars
  PROVE  \/ UNCHANGED act
         \/ \E i \in Activators : ActivateNext(i)
         \/ JobFails \/ Restart
  BY DEF Next, vars, tables, jobs, UserNext, BuyPlan, BuyCreateHistory, BuyTrialPlan,
         BuyTrialImap, UpgradePlan, UpgradeHistory, CreateCheckout, StoreSession,
         WebhookMarkPaid, HandleCompleted, WebhookReadHistory, WebhookCreatePlan,
         WebhookLog, SetImapConfiguration, SaveImapConfiguration, RequestFails,
         DisconnectImap, ConnectUser, TrialReminder, CloseSession, EnableRead,
         EnableNext, DeactivateNext, DeactivateRead, DeactivateFound, DeactivateRow,
         DeactivateImap, DeactivateNotify, Tick

LEMMA DeactivationWriters ==
  ASSUME [Next]_vars
  PROVE  \/ UNCHANGED deact
         \/ \E i \in Deactivators : DeactivateNext(i)
         \/ JobFails \/ Restart
  BY DEF Next, vars, tables, jobs, UserNext, BuyPlan, BuyCreateHistory, BuyTrialPlan,
         BuyTrialImap, UpgradePlan, UpgradeHistory, CreateCheckout, StoreSession,
         WebhookMarkPaid, HandleCompleted, WebhookReadHistory, WebhookCreatePlan,
         WebhookLog, SetImapConfiguration, SaveImapConfiguration, RequestFails,
         DisconnectImap, ConnectUser, TrialReminder, CloseSession, EnableRead,
         EnableNext, ActivateNext, ActivateReadPlans, ActivateReadHistories,
         ActivateCreate, ActivateImap, Tick

-----------------------------------------------------------------------------
(* No step deletes a row or changes what identifies it.                    *)
HistGrows ==
    \A h \in HistoryIds : hist[h] # None =>
        hist'[h] # None /\ hist'[h].user = hist[h].user

SessionGrows ==
    \A s \in SessionIds : session[s] # None =>
        /\ session'[s] # None
        /\ session'[s].user = session[s].user
        /\ session'[s].hist = session[s].hist
        /\ session[s].state = "paid" => session'[s].state = "paid"

PlanGrows ==
    \A u \in Users : plan[u] # None =>
        /\ plan'[u] # None
        /\ plan'[u].hist = plan[u].hist
        /\ plan'[u].grant = plan[u].grant
        /\ plan'[u].expiredAt = plan[u].expiredAt

LEMMA HistStep ==
  ASSUME IInv, [Next]_vars
  PROVE  HistGrows
<1>t. TypeOK BY DEF IInv
<1>t2. TypeOK' BY TypeStep
<1>1. CASE UNCHANGED hist
  BY <1>1 DEF HistGrows
<1>2. ASSUME NEW r \in Requests, BuyCreateHistory(r) PROVE HistGrows
  BY <1>2, <1>t, NoneAssumption DEF BuyCreateHistory, IsNext, HistGrows, TypeOK
<1>3. ASSUME NEW r \in Requests, UpgradeHistory(r) PROVE HistGrows
  <2>1. RequestHoldsHistory(r)
    BY <1>3 DEF UpgradeHistory, IInv, RequestsAreCurrent, RequestIsCurrent
  <2>2. hist'[req[r].hist] = [hist[req[r].hist] EXCEPT
            !.offer = req[r].offer, !.paymentStatus = "PENDING", !.stripeSessionId = None]
    BY <1>3, <2>1, <1>t DEF UpgradeHistory, RequestHoldsHistory, TypeOK
  <2>3. hist[req[r].hist] \in History
    BY <2>1, <1>t DEF RequestHoldsHistory, TypeOK
  <2>4. hist'[req[r].hist] \in History /\ hist'[req[r].hist].user = hist[req[r].hist].user
    <3>1. RequestHoldsOffer(r)
      BY <1>3 DEF UpgradeHistory, IInv, RequestsAreCurrent, RequestIsCurrent
    <3>q. QED BY <2>2, <2>3, <3>1 DEF History, RequestHoldsOffer
  <2>q. QED BY <1>3, <2>1, <2>4, <1>t, NoneAssumption
            DEF UpgradeHistory, HistGrows, TypeOK
<1>4. ASSUME NEW r \in Requests, StoreSession(r) PROVE HistGrows
  <2>1. RequestHoldsHistory(r)
    BY <1>4 DEF StoreSession, IInv, RequestsAreCurrent, RequestIsCurrent
  <2>2. hist[req[r].hist] \in History
    BY <2>1, <1>t DEF RequestHoldsHistory, TypeOK
  <2>3. hist'[req[r].hist] = [hist[req[r].hist] EXCEPT !.stripeSessionId = req[r].session]
    BY <1>4, <2>1, <1>t DEF StoreSession, RequestHoldsHistory, TypeOK
  <2>4. hist'[req[r].hist] \in History /\ hist'[req[r].hist].user = hist[req[r].hist].user
    <3>1. req[r].session \in SessionIds
      BY <1>4 DEF StoreSession, IInv, RequestsAreCurrent, RequestIsCurrent, RequestHoldsSession
    <3>q. QED BY <2>2, <2>3, <3>1 DEF History
  <2>q. QED BY <1>4, <2>1, <2>4, <1>t, NoneAssumption DEF StoreSession, HistGrows, TypeOK
<1>5. ASSUME NEW r \in Requests, NEW s \in SessionIds, WebhookMarkPaid(r, s)
      PROVE  HistGrows
  BY <1>5, <1>t, NoneAssumption
     DEF WebhookMarkPaid, HandleCompleted, HistGrows, TypeOK, History
<1>q. QED BY <1>1, <1>2, <1>3, <1>4, <1>5, HistWriters

LEMMA SessionStep ==
  ASSUME IInv, [Next]_vars
  PROVE  SessionGrows
<1>t. TypeOK BY DEF IInv
<1>1. CASE UNCHANGED session
  BY <1>1 DEF SessionGrows
<1>2. ASSUME NEW r \in Requests, CreateCheckout(r) PROVE SessionGrows
  BY <1>2, <1>t DEF CreateCheckout, IsNext, SessionGrows, TypeOK
<1>3. ASSUME NEW r \in Requests, NEW s \in SessionIds, WebhookMarkPaid(r, s)
      PROVE  SessionGrows
  <2>1. session[s] \in Session
    BY <1>3, <1>t DEF WebhookMarkPaid, TypeOK
  <2>2. session'[s] = [session[s] EXCEPT !.deliveries = @ + 1]
    BY <1>3, <1>t DEF WebhookMarkPaid, HandleCompleted, TypeOK
  <2>3. session'[s] \in Session
    BY <1>3, <2>1, <2>2, BoundsAssumption DEF WebhookMarkPaid, HandleCompleted, Session
  <2>q. QED BY <1>3, <2>1, <2>2, <2>3, <1>t, NoneAssumption
            DEF WebhookMarkPaid, HandleCompleted, SessionGrows, TypeOK, Session
<1>4. ASSUME NEW i \in Deactivators, DeactivateNotify(i) PROVE SessionGrows
  BY <1>4, <1>t DEF DeactivateNotify, IsNext, SessionGrows, TypeOK
<1>5. ASSUME NEW u \in Users, TrialReminder(u) PROVE SessionGrows
  BY <1>5, <1>t DEF TrialReminder, IsNext, SessionGrows, TypeOK
<1>6. ASSUME NEW s \in SessionIds, CloseSession(s) PROVE SessionGrows
  <2>1. session[s] \in Session
    BY <1>6, <1>t DEF CloseSession, TypeOK
  <2>2. PICK outcome \in {"paid", "expired"} :
          session' = [session EXCEPT ![s].state = outcome]
    BY <1>6 DEF CloseSession
  <2>3. session'[s] = [session[s] EXCEPT !.state = outcome]
    BY <2>2, <1>t DEF TypeOK
  <2>4. session'[s] \in Session
    BY <2>1, <2>3 DEF Session
  <2>q. QED BY <1>6, <2>1, <2>2, <2>3, <2>4, <1>t, NoneAssumption
            DEF CloseSession, SessionGrows, TypeOK, Session
<1>q. QED BY <1>1, <1>2, <1>3, <1>4, <1>5, <1>6, SessionWriters

LEMMA PlanStep ==
  ASSUME IInv, [Next]_vars
  PROVE  PlanGrows
<1>t. TypeOK BY DEF IInv
<1>1. CASE UNCHANGED plan
  BY <1>1 DEF PlanGrows
<1>2. ASSUME NEW r \in Requests, BuyTrialPlan(r) \/ WebhookCreatePlan(r)
      PROVE  PlanGrows
  BY <1>2, <1>t DEF BuyTrialPlan, WebhookCreatePlan, PlanGrows, TypeOK
<1>3. ASSUME NEW i \in Activators, ActivateCreate(i) PROVE PlanGrows
  BY <1>3, <1>t DEF ActivateCreate, PlanGrows, TypeOK
<1>4. ASSUME NEW i \in Deactivators, DeactivateRow(i) PROVE PlanGrows
  <2>1. PICK u \in deact[i].todo : plan' = [plan EXCEPT ![u].isActive = FALSE]
    BY <1>4 DEF DeactivateRow
  <2>2. u \in Users /\ plan[u] \in Plan
    BY <2>1, <1>t DEF TypeOK, DeactivateRun, IInv, DeactivationsAreCurrent
  <2>3. plan'[u] = [plan[u] EXCEPT !.isActive = FALSE]
    BY <2>1, <2>2, <1>t DEF TypeOK
  <2>4. plan'[u] \in Plan
    BY <2>2, <2>3 DEF Plan
  <2>q. QED BY <2>1, <2>2, <2>3, <2>4, <1>t, NoneAssumption DEF PlanGrows, TypeOK, Plan
<1>q. QED BY <1>1, <1>2, <1>3, <1>4, PlanWriters

LEMMA TimeStep ==
  ASSUME IInv, [Next]_vars
  PROVE  now \in Nat /\ now' \in Nat /\ now <= now'
<1>1. now \in Nat
  BY BoundsAssumption DEF IInv, TypeOK
<1>q. QED BY <1>1, TimeWriters DEF Tick

-----------------------------------------------------------------------------
(* The rows keep referring to each other.                                  *)
LEMMA RecordedSessionsStep ==
  ASSUME IInv, [Next]_vars
  PROVE  RecordedSessionsMatch'
<1> USE DEF RecordedSessionsMatch
<1>t. TypeOK BY DEF IInv
<1>s. SessionGrows BY SessionStep
<1>i. RecordedSessionsMatch BY DEF IInv
<1>k. \A h \in HistoryIds : hist'[h] = hist[h] =>
        (hist'[h] # None /\ hist'[h].stripeSessionId # None =>
            /\ session'[hist'[h].stripeSessionId] # None
            /\ session'[hist'[h].stripeSessionId].hist = h)
  BY <1>t, <1>s, <1>i DEF SessionGrows, TypeOK, History
<1>1. CASE UNCHANGED hist
  BY <1>1, <1>k
<1>2. ASSUME NEW r \in Requests, BuyCreateHistory(r) PROVE RecordedSessionsMatch'
  BY <1>2, <1>k, <1>t DEF BuyCreateHistory, TypeOK
<1>3. ASSUME NEW r \in Requests, UpgradeHistory(r) PROVE RecordedSessionsMatch'
  <2>1. RequestHoldsHistory(r)
    BY <1>3 DEF UpgradeHistory, IInv, RequestsAreCurrent, RequestIsCurrent
  <2>2. hist[req[r].hist] \in History
    BY <2>1, <1>t DEF RequestHoldsHistory, TypeOK
  <2>3. hist'[req[r].hist].stripeSessionId = None
    BY <1>3, <2>1, <2>2, <1>t DEF UpgradeHistory, RequestHoldsHistory, TypeOK, History
  <2>q. QED BY <1>3, <2>1, <2>3, <1>k, <1>t DEF UpgradeHistory, TypeOK
<1>4. ASSUME NEW r \in Requests, StoreSession(r) PROVE RecordedSessionsMatch'
  <2>1. RequestHoldsHistory(r) /\ RequestHoldsSession(r)
    BY <1>4 DEF StoreSession, IInv, RequestsAreCurrent, RequestIsCurrent
  <2>2. hist[req[r].hist] \in History
    BY <2>1, <1>t DEF RequestHoldsHistory, TypeOK
  <2>3. hist'[req[r].hist].stripeSessionId = req[r].session
    BY <1>4, <2>1, <2>2, <1>t DEF StoreSession, RequestHoldsHistory, TypeOK, History
  <2>4. UNCHANGED session
    BY <1>4 DEF StoreSession
  <2>q. QED BY <1>4, <2>1, <2>3, <2>4, <1>k, <1>t
            DEF StoreSession, TypeOK, RequestHoldsSession
<1>5. ASSUME NEW r \in Requests, NEW s \in SessionIds, WebhookMarkPaid(r, s)
      PROVE  RecordedSessionsMatch'
  <2> SUFFICES ASSUME NEW h \in HistoryIds,
                      hist'[h] # None,
                      hist'[h].stripeSessionId # None,
                      hist'[h] # hist[h]
               PROVE  /\ session'[hist'[h].stripeSessionId] # None
                      /\ session'[hist'[h].stripeSessionId].hist = h
    BY <1>k
  <2>1. /\ hist[h] # None
        /\ hist'[h] = [hist[h] EXCEPT !.paymentStatus = "PAID"]
    BY <1>5, <1>t DEF WebhookMarkPaid, HandleCompleted, TypeOK
  <2>2. hist[h] \in History
    BY <2>1, <1>t DEF TypeOK
  <2>3. hist'[h].stripeSessionId = hist[h].stripeSessionId
    BY <2>1, <2>2 DEF History
  <2>4. hist[h].stripeSessionId \in SessionIds
    BY <2>2, <2>3 DEF History
  <2>q. QED BY <2>1, <2>3, <2>4, <1>s, <1>i DEF SessionGrows
<1>q. QED BY <1>1, <1>2, <1>3, <1>4, <1>5, HistWriters

LEMMA SessionsMatchStep ==
  ASSUME IInv, [Next]_vars
  PROVE  SessionsMatch'
<1> USE DEF SessionsMatch
<1>t. TypeOK BY DEF IInv
<1>h. HistGrows BY HistStep
<1>g. SessionGrows BY SessionStep
<1>i. SessionsMatch BY DEF IInv
<1>k. \A s \in SessionIds : session[s] # None =>
        (session'[s] # None /\ session'[s].hist # None =>
            /\ hist'[session'[s].hist] # None
            /\ hist'[session'[s].hist].user = session'[s].user)
  BY <1>t, <1>h, <1>g, <1>i DEF HistGrows, SessionGrows, TypeOK, Session
<1>1. CASE UNCHANGED session
  BY <1>1, <1>k
<1>2. ASSUME NEW r \in Requests, CreateCheckout(r) PROVE SessionsMatch'
  <2>1. RequestHoldsHistory(r)
    BY <1>2 DEF CreateCheckout, IInv, RequestsAreCurrent, RequestIsCurrent
  <2>2. UNCHANGED hist
    BY <1>2 DEF CreateCheckout
  <2>q. QED BY <1>2, <2>1, <2>2, <1>k, <1>t
            DEF CreateCheckout, NewSession, RequestHoldsHistory, TypeOK
<1>3. ASSUME NEW r \in Requests, NEW s \in SessionIds, WebhookMarkPaid(r, s)
      PROVE  SessionsMatch'
  BY <1>3, <1>k, <1>t DEF WebhookMarkPaid, HandleCompleted, TypeOK
<1>4. ASSUME NEW i \in Deactivators, DeactivateNotify(i) PROVE SessionsMatch'
  <2>1. UNCHANGED hist
    BY <1>4 DEF DeactivateNotify
  <2>q. QED BY <1>4, <2>1, <1>k, <1>t
            DEF DeactivateNotify, NewSession, IsLatestHistory, TypeOK
<1>5. ASSUME NEW u \in Users, TrialReminder(u) PROVE SessionsMatch'
  BY <1>5, <1>k, <1>t DEF TrialReminder, NewSession, TypeOK
<1>6. ASSUME NEW s \in SessionIds, CloseSession(s) PROVE SessionsMatch'
  BY <1>6, <1>k, <1>t DEF CloseSession, TypeOK
<1>q. QED BY <1>1, <1>2, <1>3, <1>4, <1>5, <1>6, SessionWriters

(* A payment status becomes PAID only through the session it recorded,     *)
(* and that session names its history.                                     *)
LEMMA PaidStep ==
  ASSUME IInv, [Next]_vars
  PROVE  PaidHasCompletedCheckout'
<1>t. TypeOK BY DEF IInv
<1>s. SessionGrows BY SessionStep
<1>i. PaidHasCompletedCheckout BY DEF IInv
<1> DEFINE Checkout(h) == \E s \in SessionIds : /\ session'[s] # None
                                              /\ session'[s].hist = h
                                              /\ session'[s].state = "paid"
<1>k. \A h \in HistoryIds : hist[h] # None /\ hist[h].paymentStatus = "PAID" => Checkout(h)
  BY <1>s, <1>i DEF SessionGrows, PaidHasCompletedCheckout
<1> SUFFICES ASSUME NEW h \in HistoryIds,
                    hist'[h] # None,
                    hist'[h].paymentStatus = "PAID"
             PROVE  Checkout(h)
  BY DEF PaidHasCompletedCheckout
<1> HIDE DEF Checkout
<1>1. CASE UNCHANGED hist
  BY <1>1, <1>k
<1>2. ASSUME NEW r \in Requests, BuyCreateHistory(r) PROVE Checkout(h)
  BY <1>2, <1>k, <1>t DEF BuyCreateHistory, TypeOK
<1>3. ASSUME NEW r \in Requests, UpgradeHistory(r) PROVE Checkout(h)
  <2>1. RequestHoldsHistory(r)
    BY <1>3 DEF UpgradeHistory, IInv, RequestsAreCurrent, RequestIsCurrent
  <2>2. hist[req[r].hist] \in History
    BY <2>1, <1>t DEF RequestHoldsHistory, TypeOK
  <2>3. hist'[req[r].hist].paymentStatus = "PENDING"
    BY <1>3, <2>1, <2>2, <1>t DEF UpgradeHistory, RequestHoldsHistory, TypeOK, History
  <2>q. QED BY <1>3, <2>1, <2>3, <1>k, <1>t DEF UpgradeHistory, TypeOK
<1>4. ASSUME NEW r \in Requests, StoreSession(r) PROVE Checkout(h)
  <2>1. RequestHoldsHistory(r)
    BY <1>4 DEF StoreSession, IInv, RequestsAreCurrent, RequestIsCurrent
  <2>2. hist[req[r].hist] \in History
    BY <2>1, <1>t DEF RequestHoldsHistory, TypeOK
  <2>3. hist'[req[r].hist].paymentStatus = hist[req[r].hist].paymentStatus
    BY <1>4, <2>1, <2>2, <1>t DEF StoreSession, RequestHoldsHistory, TypeOK, History
  <2>q. QED BY <1>4, <2>1, <2>3, <1>k, <1>t DEF StoreSession, TypeOK, RequestHoldsHistory
<1>5. ASSUME NEW r \in Requests, NEW s \in SessionIds, WebhookMarkPaid(r, s)
      PROVE  Checkout(h)
  <2>1. CASE hist'[h] = hist[h]
    BY <2>1, <1>k
  <2>2. CASE hist'[h] # hist[h]
    <3>1. hist[h] # None /\ hist[h].stripeSessionId = s
      BY <1>5, <2>2, <1>t DEF WebhookMarkPaid, HandleCompleted, TypeOK
    <3>2. session[s].hist = h /\ session[s] # None /\ session[s].state = "paid"
      BY <1>5, <3>1, NoneAssumption DEF WebhookMarkPaid, IInv, RecordedSessionsMatch
    <3>q. QED BY <3>2, <1>s DEF SessionGrows, Checkout
  <2>q. QED BY <2>1, <2>2
<1>q. QED BY <1>1, <1>2, <1>3, <1>4, <1>5, HistWriters

(* A plan row is granted only by a handler that holds the user's history   *)
(* and, for the webhook, a paid session of that history.                   *)
LEMMA GrantStep ==
  ASSUME IInv, [Next]_vars
  PROVE  GrantIsBacked'
<1>t. TypeOK BY DEF IInv
<1>n. now \in Nat BY TimeStep
<1>h. HistGrows BY HistStep
<1>s. SessionGrows BY SessionStep
<1>p. PlanGrows BY PlanStep
<1>i. GrantIsBacked BY DEF IInv
<1> DEFINE Backed(u, h, g) ==
      /\ hist'[h] # None
      /\ hist'[h].user = u
      /\ g = "webhook" => \E s \in SessionIds : /\ session'[s] # None
                                                /\ session'[s].user = u
                                                /\ session'[s].hist = h
                                                /\ session'[s].state = "paid"
<1>k. \A u \in Users : plan[u] # None => Backed(u, plan'[u].hist, plan'[u].grant)
  <2> SUFFICES ASSUME NEW u \in Users, plan[u] # None
               PROVE  Backed(u, plan[u].hist, plan[u].grant)
    BY <1>p DEF PlanGrows
  <2>1. plan[u].hist \in HistoryIds
    BY <1>t DEF TypeOK, Plan
  <2>q. QED BY <2>1, <1>h, <1>s, <1>i DEF HistGrows, SessionGrows, GrantIsBacked
<1> SUFFICES ASSUME NEW u \in Users, plan'[u] # None, plan[u] = None
             PROVE  Backed(u, plan'[u].hist, plan'[u].grant)
  BY <1>k DEF GrantIsBacked
<1>1. ASSUME NEW r \in Requests, BuyTrialPlan(r)
      PROVE  Backed(u, plan'[u].hist, plan'[u].grant)
  <2>1. RequestHoldsHistory(r)
    BY <1>1 DEF BuyTrialPlan, IInv, RequestsAreCurrent, RequestIsCurrent
  <2>2. u = User(r) /\ plan'[u].hist = req[r].hist /\ plan'[u].grant = "buyPlan"
    BY <1>1, <1>t, UserType DEF BuyTrialPlan, TypeOK, NewPlan
  <2>q. QED BY <2>1, <2>2, <1>h DEF RequestHoldsHistory, HistGrows
<1>2. ASSUME NEW r \in Requests, WebhookCreatePlan(r)
      PROVE  Backed(u, plan'[u].hist, plan'[u].grant)
  <2>1. /\ RequestHoldsHistory(r)
        /\ RequestHoldsSession(r)
        /\ session[req[r].session].user = User(r)
        /\ session[req[r].session].state = "paid"
    BY <1>2 DEF WebhookCreatePlan, IInv, RequestsAreCurrent, RequestIsCurrent
  <2>2. u = User(r) /\ plan'[u].hist = req[r].hist
    BY <1>2, <1>t, UserType DEF WebhookCreatePlan, TypeOK, NewPlan
  <2>3. hist'[req[r].hist] # None /\ hist'[req[r].hist].user = u
    BY <2>1, <2>2, <1>h DEF RequestHoldsHistory, HistGrows
  <2>4. \E s \in SessionIds : /\ session'[s] # None
                             /\ session'[s].user = u
                             /\ session'[s].hist = req[r].hist
                             /\ session'[s].state = "paid"
    BY <2>1, <2>2, <1>s DEF RequestHoldsSession, SessionGrows
  <2>q. QED BY <2>2, <2>3, <2>4
<1>3. ASSUME NEW i \in Activators, ActivateCreate(i)
      PROVE  Backed(u, plan'[u].hist, plan'[u].grant)
  <2>1. PICK e \in act[i].todo :
          \/ plan' = [plan EXCEPT ![e.user] =
                 NewPlan(e.hist, e.offer, TrialDays[e.offer], "activateFreeTrial")]
          \/ UNCHANGED plan
    BY <1>3 DEF ActivateCreate
  <2>2. e \in TrialEntry
    BY <2>1, <1>t DEF TypeOK, ActivateRun
  <2>3. hist[e.hist] # None /\ hist[e.hist].user = e.user
    BY <2>1 DEF IInv, ActivationsAreCurrent
  <2>4. u = e.user /\ plan'[u].hist = e.hist /\ plan'[u].grant = "activateFreeTrial"
    BY <2>1, <2>2, <1>t DEF TypeOK, NewPlan, TrialEntry
  <2>q. QED BY <2>2, <2>3, <2>4, <1>h DEF HistGrows, TrialEntry
<1>4. ASSUME NEW i \in Deactivators, DeactivateRow(i) PROVE FALSE
  <2>1. PICK v \in deact[i].todo : plan' = [plan EXCEPT ![v].isActive = FALSE]
    BY <1>4 DEF DeactivateRow
  <2>2. v \in Users /\ plan[v] # None
    BY <2>1, <1>t DEF TypeOK, DeactivateRun, IInv, DeactivationsAreCurrent
  <2>q. QED BY <2>1, <2>2, <1>t DEF TypeOK
<1>q. QED BY <1>1, <1>2, <1>3, <1>4, PlanWriters

(* A row is deactivated only from a list of rows that had expired, and the *)
(* list stays true: rows keep their end date.                              *)
LEMMA InactiveStep ==
  ASSUME IInv, [Next]_vars
  PROVE  InactiveOnlyAfterExpiry'
<1>t. TypeOK BY DEF IInv
<1>n. now \in Nat /\ now' \in Nat /\ now <= now' BY TimeStep
<1>p. PlanGrows BY PlanStep
<1>i. InactiveOnlyAfterExpiry BY DEF IInv
<1>k. \A u \in Users : plan'[u] = plan[u] =>
        (plan'[u] # None /\ ~plan'[u].isActive => plan'[u].expiredAt <= now')
  <2> SUFFICES ASSUME NEW u \in Users, plan[u] # None, ~plan[u].isActive
               PROVE  plan[u].expiredAt <= now'
    OBVIOUS
  <2>1. plan[u].expiredAt \in Nat
    BY <1>t DEF TypeOK, Plan
  <2>2. plan[u].expiredAt <= now
    BY <1>i DEF InactiveOnlyAfterExpiry
  <2>q. QED BY <2>1, <2>2, <1>n
<1> SUFFICES ASSUME NEW u \in Users, plan'[u] # None, ~plan'[u].isActive, plan'[u] # plan[u]
             PROVE  plan'[u].expiredAt <= now'
  BY <1>k DEF InactiveOnlyAfterExpiry
<1>1. ASSUME NEW r \in Requests, BuyTrialPlan(r) \/ WebhookCreatePlan(r) PROVE FALSE
  BY <1>1, <1>t, UserType DEF BuyTrialPlan, WebhookCreatePlan, TypeOK, NewPlan
<1>2. ASSUME NEW i \in Activators, ActivateCreate(i) PROVE FALSE
  BY <1>2, <1>t DEF ActivateCreate, TypeOK, NewPlan
<1>3. ASSUME NEW i \in Deactivators, DeactivateRow(i)
      PROVE  plan'[u].expiredAt <= now'
  <2>1. PICK v \in deact[i].todo : plan' = [plan EXCEPT ![v].isActive = FALSE]
    BY <1>3 DEF DeactivateRow
  <2>2. v \in Users /\ plan[v] # None /\ plan[v].expiredAt <= now
    BY <2>1, <1>t DEF TypeOK, DeactivateRun, IInv, DeactivationsAreCurrent
  <2>3. u = v
    BY <2>1, <1>t DEF TypeOK
  <2>4. plan'[u].expiredAt = plan[u].expiredAt /\ plan[u].expiredAt \in Nat
    BY <2>2, <2>3, <1>p, <1>t DEF PlanGrows, TypeOK, Plan
  <2>q. QED BY <2>2, <2>3, <2>4, <1>n
<1>q. QED BY <1>1, <1>2, <1>3, PlanWriters

(* Only setImapConfiguration creates a row, for a user who had a plan when *)
(* it checked; plan rows stay.                                             *)
LEMMA ImapStep ==
  ASSUME IInv, [Next]_vars
  PROVE  ImapRequiresPlan'
<1>t. TypeOK BY DEF IInv
<1>p. PlanGrows BY PlanStep
<1>i. ImapRequiresPlan BY DEF IInv
<1> SUFFICES ASSUME NEW u \in Users, imap[u] = "absent", imap'[u] # "absent"
             PROVE  plan'[u] # None
  BY <1>p, <1>i DEF PlanGrows, ImapRequiresPlan
<1>1. ASSUME NEW v, NEW flag, SetImap(v, flag) PROVE FALSE
  BY <1>1, <1>t DEF SetImap, TypeOK
<1>2. ASSUME NEW r \in Requests, SaveImapConfiguration(r) PROVE plan'[u] # None
  <2>1. plan[User(r)] # None
    BY <1>2 DEF SaveImapConfiguration, IInv, RequestsAreCurrent, RequestIsCurrent
  <2>2. u = User(r)
    BY <1>2, <1>t DEF SaveImapConfiguration, TypeOK
  <2>q. QED BY <2>1, <2>2, <1>p DEF PlanGrows
<1>q. QED BY <1>1, <1>2, ImapWriters

-----------------------------------------------------------------------------
(* What handlers and jobs carry stays true until they use it.              *)
LEMMA DeactivationsStep ==
  ASSUME IInv, [Next]_vars
  PROVE  DeactivationsAreCurrent'
<1>t. TypeOK BY DEF IInv
<1>n. now \in Nat /\ now' \in Nat /\ now <= now' BY TimeStep
<1>p. PlanGrows BY PlanStep
<1>i. DeactivationsAreCurrent BY DEF IInv
<1>k. \A u \in Users : plan[u] # None /\ plan[u].expiredAt <= now =>
        plan'[u] # None /\ plan'[u].expiredAt <= now'
  <2> SUFFICES ASSUME NEW u \in Users, plan[u] # None, plan[u].expiredAt <= now
               PROVE  plan[u].expiredAt <= now'
    BY <1>p DEF PlanGrows
  <2>1. plan[u].expiredAt \in Nat
    BY <1>t DEF TypeOK, Plan
  <2>q. QED BY <2>1, <1>n
<1>w. \A i \in Deactivators : \A u \in deact'[i].todo :
        u \in Users /\ plan[u] # None /\ plan[u].expiredAt <= now
  <2>a. \A i \in Deactivators : \A u \in deact[i].todo :
          u \in Users /\ plan[u] # None /\ plan[u].expiredAt <= now
    BY <1>i, <1>t DEF DeactivationsAreCurrent, TypeOK, DeactivateRun
  <2>1. CASE UNCHANGED deact
    BY <2>1, <2>a
  <2>2. ASSUME NEW j \in Deactivators, DeactivateRead(j)
        PROVE  \A i \in Deactivators : deact'[i].todo \subseteq
                  deact[i].todo \cup {u \in Users : Expired(u)}
    BY <2>2, <1>t DEF DeactivateRead, DeactivateFound, DeactivateIdle, TypeOK
  <2>3. ASSUME NEW j \in Deactivators, DeactivateRow(j) \/ DeactivateImap(j)
        PROVE  \A i \in Deactivators : deact'[i].todo \subseteq deact[i].todo
    <3>1. deact[j] \in DeactivateRun BY <1>t DEF TypeOK
    <3>2. \A i \in Deactivators \ {j} : deact'[i] = deact[i]
      BY <2>3, <1>t DEF DeactivateRow, DeactivateImap, TypeOK
    <3>3. CASE DeactivateRow(j)
      <4>1. PICK u \in deact[j].todo :
              deact' = [deact EXCEPT ![j].pc = "imap", ![j].todo = @ \ {u}, ![j].user = u]
        BY <3>3 DEF DeactivateRow
      <4>2. deact'[j].todo = deact[j].todo \ {u}
        BY <4>1, <3>1, <1>t DEF TypeOK, DeactivateRun
      <4>q. QED BY <4>2, <3>2
    <3>4. CASE DeactivateImap(j)
      <4>1. deact'[j].todo = deact[j].todo
        BY <3>4, <3>1, <1>t DEF DeactivateImap, TypeOK, DeactivateRun
      <4>q. QED BY <4>1, <3>2
    <3>q. QED BY <2>3, <3>3, <3>4
  <2>4. ASSUME NEW j \in Deactivators, DeactivateNotify(j)
        PROVE  \A i \in Deactivators : deact'[i].todo \subseteq deact[i].todo
    BY <2>4, <1>t DEF DeactivateNotify, DeactivateIdle, TypeOK, DeactivateRun
  <2>5. ASSUME JobFails \/ Restart
        PROVE  \A i \in Deactivators : deact'[i].todo \subseteq deact[i].todo
    BY <2>5, <1>t DEF JobFails, Restart, DeactivateIdle, TypeOK
  <2>q. QED BY <2>1, <2>2, <2>3, <2>4, <2>5, <2>a, DeactivationWriters
            DEF DeactivateNext, Expired
<1>q. QED BY <1>k, <1>w DEF DeactivationsAreCurrent

LEMMA ActivationsStep ==
  ASSUME IInv, [Next]_vars
  PROVE  ActivationsAreCurrent'
<1>t. TypeOK BY DEF IInv
<1>h. HistGrows BY HistStep
<1>i. ActivationsAreCurrent BY DEF IInv
<1> DEFINE Current(e) == /\ e.hist \in HistoryIds
                         /\ hist[e.hist] # None
                         /\ hist[e.hist].user = e.user
                         /\ TrialDays[e.offer] > 0
<1>w. \A i \in Activators : \A e \in act'[i].todo : Current(e)
  <2>a. \A i \in Activators : \A e \in act[i].todo : Current(e)
    BY <1>i, <1>t DEF ActivationsAreCurrent, TypeOK, ActivateRun, TrialEntry
  <2>1. CASE UNCHANGED act
    BY <2>1, <2>a
  <2>2. ASSUME NEW j \in Activators, ActivateReadHistories(j)
        PROVE  \A i \in Activators : \A e \in act'[i].todo : Current(e)
    <3> DEFINE found == {h \in HistoryIds : Eligible(h) /\ hist[h].user \notin act[j].excluded}
               entries == {[hist |-> h, user |-> hist[h].user, offer |-> hist[h].offer] :
                             h \in found}
    <3>1. \A e \in entries : Current(e)
      BY DEF Eligible
    <3>2. act'[j].todo \subseteq entries
      BY <2>2, <1>t DEF ActivateReadHistories, ActivateIdle, TypeOK
    <3>3. \A i \in Activators \ {j} : act'[i] = act[i]
      BY <2>2, <1>t DEF ActivateReadHistories, TypeOK
    <3>q. QED BY <3>1, <3>2, <3>3, <2>a
  <2>3. ASSUME NEW j \in Activators, ActivateReadPlans(j) \/ ActivateCreate(j)
        PROVE  \A i \in Activators : act'[i].todo \subseteq act[i].todo
    <3>1. act[j] \in ActivateRun BY <1>t DEF TypeOK
    <3>2. \A i \in Activators \ {j} : act'[i] = act[i]
      BY <2>3, <1>t DEF ActivateReadPlans, ActivateCreate, TypeOK
    <3>3. CASE ActivateReadPlans(j)
      <4>1. act'[j].todo = act[j].todo
        BY <3>3, <3>1, <1>t DEF ActivateReadPlans, TypeOK, ActivateRun
      <4>q. QED BY <4>1, <3>2
    <3>4. CASE ActivateCreate(j)
      <4>1. PICK e \in act[j].todo :
              \/ act' = [act EXCEPT ![j].pc = "imap", ![j].todo = @ \ {e}, ![j].user = e.user]
              \/ act' = [act EXCEPT ![j] = ActivateIdle]
        BY <3>4 DEF ActivateCreate
      <4>2. act'[j].todo \subseteq act[j].todo
        BY <4>1, <3>1, <1>t DEF TypeOK, ActivateRun, ActivateIdle
      <4>q. QED BY <4>2, <3>2
    <3>q. QED BY <2>3, <3>3, <3>4
  <2>4. ASSUME NEW j \in Activators, ActivateImap(j)
        PROVE  \A i \in Activators : act'[i].todo \subseteq act[i].todo
    BY <2>4, <1>t DEF ActivateImap, ActivateIdle, TypeOK, ActivateRun
  <2>5. ASSUME JobFails \/ Restart
        PROVE  \A i \in Activators : act'[i].todo \subseteq act[i].todo
    BY <2>5, <1>t DEF JobFails, Restart, ActivateIdle, TypeOK
  <2> HIDE DEF Current
  <2>q. QED BY <2>1, <2>2, <2>3, <2>4, <2>5, <2>a, ActivationWriters DEF ActivateNext
<1>q. QED BY <1>w, <1>h DEF ActivationsAreCurrent, HistGrows

(* Per handler: the row it just read or wrote is what it carries; rows that *)
(* it carries already cannot go away.                                      *)
LEMMA RequestStep ==
  ASSUME IInv, NEW r \in Requests, UserNext(r), HistGrows, SessionGrows, PlanGrows
  PROVE  RequestIsCurrent(r)'
<1> USE NoneAssumption
<1>t. TypeOK BY DEF IInv
<1>c. RequestIsCurrent(r) BY DEF IInv, RequestsAreCurrent
<1>u. User(r) \in Users BY UserType
<1>y. req[r] \in Request BY <1>t DEF TypeOK
<1>d. ASSUME req'[r].pc = "idle" \/ req'[r].pc = "buyTrialImap" \/ req'[r].pc = "webhookLog"
      PROVE  RequestIsCurrent(r)'
  BY <1>d DEF RequestIsCurrent
<1>e. ASSUME req'[r] = Idle PROVE RequestIsCurrent(r)'
  BY <1>e, <1>d DEF Idle
<1>f. ASSUME Done(r) PROVE RequestIsCurrent(r)'
  BY <1>f, <1>e, <1>t DEF Done, TypeOK
<1>1. ASSUME NEW o \in Offers, BuyPlan(r, o) PROVE RequestIsCurrent(r)'
  <2>1. req'[r].pc = "buyHistory" /\ req'[r].offer = o
    BY <1>1, <1>t DEF BuyPlan, Idle, TypeOK
  <2>q. QED BY <2>1 DEF RequestIsCurrent, RequestHoldsOffer
<1>2. ASSUME NEW o \in Offers, UpgradePlan(r, o) PROVE RequestIsCurrent(r)'
  <2>1. PICK h \in HistoryIds :
          /\ IsLatestHistory(h, User(r))
          /\ req' = [req EXCEPT ![r] =
                    [Idle EXCEPT !.pc = "upgradeHistory", !.offer = o, !.hist = h]]
    BY <1>2 DEF UpgradePlan
  <2>2. req'[r].pc = "upgradeHistory" /\ req'[r].offer = o /\ req'[r].hist = h
    BY <2>1, <1>t DEF Idle, TypeOK
  <2>3. hist'[h] # None /\ hist'[h].user = User(r)
    BY <2>1 DEF HistGrows, IsLatestHistory
  <2>q. QED BY <2>2, <2>3 DEF RequestIsCurrent, RequestHoldsOffer, RequestHoldsHistory
<1>3. CASE BuyCreateHistory(r)
  <2>1. CASE Done(r)
    BY <2>1, <1>f
  <2>2. ASSUME NEW h \in HistoryIds,
               hist' = [hist EXCEPT ![h] = [user |-> User(r), offer |-> req[r].offer,
                            paymentStatus |-> "PENDING", stripeSessionId |-> None]],
               req' = [req EXCEPT
                         ![r].pc = IF TrialDays[req[r].offer] > 0
                                   THEN "buyTrialPlan" ELSE "checkout",
                         ![r].hist = h]
        PROVE  RequestIsCurrent(r)'
    <3>1. /\ req'[r].offer = req[r].offer
          /\ req'[r].hist = h
          /\ req'[r].pc = IF TrialDays[req[r].offer] > 0 THEN "buyTrialPlan" ELSE "checkout"
      BY <2>2, <1>t, <1>y DEF TypeOK, Request
    <3>2. req[r].offer \in Offers
      BY <1>3, <1>c DEF BuyCreateHistory, RequestIsCurrent, RequestHoldsOffer
    <3>3. hist'[h] # None /\ hist'[h].user = User(r)
      <4>1. hist'[h] = [user |-> User(r), offer |-> req[r].offer,
                        paymentStatus |-> "PENDING", stripeSessionId |-> None]
        BY <2>2, <1>t DEF TypeOK
      <4>2. hist'[h] \in History
        BY <4>1, <3>2, <1>u DEF History
      <4>q. QED BY <4>1, <4>2
    <3>q. QED BY <3>1, <3>2, <3>3
          DEF RequestIsCurrent, RequestHoldsOffer, RequestHoldsHistory
  <2>q. QED BY <1>3, <2>1, <2>2 DEF BuyCreateHistory
<1>4. CASE BuyTrialPlan(r)
  BY <1>4, <1>d, <1>f, <1>t, <1>y DEF BuyTrialPlan, Step, TypeOK, Request
<1>5. CASE BuyTrialImap(r)
  BY <1>5, <1>f DEF BuyTrialImap
<1>6. CASE UpgradeHistory(r)
  <2>1. req'[r].pc = "checkout" /\ req'[r].hist = req[r].hist
    BY <1>6, <1>t, <1>y DEF UpgradeHistory, Step, TypeOK, Request
  <2>2. RequestHoldsHistory(r)
    BY <1>6, <1>c DEF UpgradeHistory, RequestIsCurrent
  <2>q. QED BY <2>1, <2>2 DEF RequestIsCurrent, RequestHoldsHistory, HistGrows
<1>7. CASE CreateCheckout(r)
  <2>1. CASE Done(r)
    BY <2>1, <1>f
  <2>2. ASSUME NEW s \in SessionIds,
               session' = [session EXCEPT ![s] = NewSession(User(r), req[r].hist)],
               req' = [req EXCEPT ![r].pc = "storeSession", ![r].session = s]
        PROVE  RequestIsCurrent(r)'
    <3>1. /\ req'[r].pc = "storeSession"
          /\ req'[r].session = s
          /\ req'[r].hist = req[r].hist
      BY <2>2, <1>t, <1>y DEF TypeOK, Request
    <3>2. RequestHoldsHistory(r)
      BY <1>7, <1>c DEF CreateCheckout, RequestIsCurrent
    <3>3. session'[s] = NewSession(User(r), req[r].hist)
      BY <2>2, <1>t DEF TypeOK
    <3>4. session'[s] # None /\ session'[s].hist = req[r].hist
      BY <3>2, <3>3, <1>u, NewSessionType DEF NewSession, RequestHoldsHistory
    <3>q. QED BY <3>1, <3>2, <3>4
          DEF RequestIsCurrent, RequestHoldsHistory, RequestHoldsSession, HistGrows
  <2>q. QED BY <1>7, <2>1, <2>2 DEF CreateCheckout
<1>8. CASE StoreSession(r)
  BY <1>8, <1>f DEF StoreSession
<1>9. ASSUME NEW s \in SessionIds, WebhookMarkPaid(r, s) PROVE RequestIsCurrent(r)'
  <2>1. CASE session[s].hist = None
    BY <2>1, <1>9, <1>e DEF WebhookMarkPaid, HandleCompleted
  <2>2. CASE session[s].hist # None
    <3>1. req'[r].pc = "webhookHistory" /\ req'[r].session = s /\ req'[r].hist = session[s].hist
      <4>1. req' = [req EXCEPT ![r] =
                      [Idle EXCEPT !.pc = "webhookHistory", !.hist = session[s].hist,
                                   !.session = s]]
        BY <2>2, <1>9 DEF WebhookMarkPaid, HandleCompleted
      <4>q. QED BY <4>1, <1>t DEF Idle, TypeOK
    <3>2. session[s] # None /\ session[s].user = User(r) /\ session[s].state = "paid"
      BY <1>9 DEF WebhookMarkPaid, HandleCompleted
    <3>3. /\ session[s].hist \in HistoryIds
          /\ hist[session[s].hist] # None
          /\ hist[session[s].hist].user = User(r)
      BY <2>2, <3>2, <1>t DEF TypeOK, Session, IInv, SessionsMatch
    <3>4. RequestHoldsHistory(r)'
      BY <3>1, <3>3 DEF RequestHoldsHistory, HistGrows
    <3>5. /\ RequestHoldsSession(r)'
          /\ session'[s].user = User(r)
          /\ session'[s].state = "paid"
      BY <3>1, <3>2 DEF RequestHoldsSession, SessionGrows
    <3>q. QED BY <3>1, <3>4, <3>5 DEF RequestIsCurrent
  <2>q. QED BY <2>1, <2>2
<1>10. CASE WebhookReadHistory(r)
  <2>1. /\ RequestHoldsHistory(r)
        /\ RequestHoldsSession(r)
        /\ session[req[r].session].user = User(r)
        /\ session[req[r].session].state = "paid"
    BY <1>10, <1>c DEF WebhookReadHistory, RequestIsCurrent
  <2>2. /\ req'[r].pc = "webhookPlan"
        /\ req'[r].offer = hist[req[r].hist].offer
        /\ req'[r].hist = req[r].hist
        /\ req'[r].session = req[r].session
    BY <1>10, <1>t, <1>y DEF WebhookReadHistory, TypeOK, Request
  <2>3. hist[req[r].hist].offer \in Offers
    BY <2>1, <1>t DEF RequestHoldsHistory, TypeOK, History
  <2>q. QED BY <2>1, <2>2, <2>3
        DEF RequestIsCurrent, RequestHoldsOffer, RequestHoldsHistory, RequestHoldsSession,
            HistGrows, SessionGrows
<1>11. CASE WebhookCreatePlan(r)
  BY <1>11, <1>d, <1>f, <1>t, <1>y DEF WebhookCreatePlan, Step, TypeOK, Request
<1>12. CASE WebhookLog(r)
  BY <1>12, <1>f DEF WebhookLog
<1>13. CASE SetImapConfiguration(r)
  <2>1. req'[r].pc = "imapSave"
    BY <1>13, <1>t DEF SetImapConfiguration, Idle, TypeOK
  <2>2. plan'[User(r)] # None
    BY <1>13, <1>u DEF SetImapConfiguration, Entitled, PlanGrows
  <2>q. QED BY <2>1, <2>2 DEF RequestIsCurrent
<1>14. CASE SaveImapConfiguration(r)
  BY <1>14, <1>f DEF SaveImapConfiguration
<1>15. CASE RequestFails(r)
  BY <1>15, <1>f DEF RequestFails
<1>q. QED
  BY <1>1, <1>2, <1>3, <1>4, <1>5, <1>6, <1>7, <1>8, <1>9, <1>10, <1>11, <1>12,
     <1>13, <1>14, <1>15 DEF UserNext

LEMMA OtherRequests ==
  ASSUME TypeOK, NEW r \in Requests, UserNext(r), NEW q \in Requests, q # r
  PROVE  req'[q] = req[q]
  BY DEF TypeOK, UserNext, BuyPlan, BuyCreateHistory, BuyTrialPlan, BuyTrialImap,
         UpgradePlan, UpgradeHistory, CreateCheckout, StoreSession, WebhookMarkPaid,
         HandleCompleted, WebhookReadHistory, WebhookCreatePlan, WebhookLog,
         SetImapConfiguration, SaveImapConfiguration, RequestFails, Step, Done

LEMMA RequestsStep ==
  ASSUME IInv, [Next]_vars
  PROVE  RequestsAreCurrent'
<1>t. TypeOK BY DEF IInv
<1>g. HistGrows /\ SessionGrows /\ PlanGrows BY HistStep, SessionStep, PlanStep
<1>k. ASSUME NEW q \in Requests, req'[q] = req[q] PROVE RequestIsCurrent(q)'
  <2>1. RequestIsCurrent(q) BY DEF IInv, RequestsAreCurrent
  <2>2. User(q) \in Users BY UserType
  <2>q. QED BY <2>1, <2>2, <1>k, <1>g
        DEF RequestIsCurrent, RequestHoldsOffer, RequestHoldsHistory, RequestHoldsSession,
            HistGrows, SessionGrows, PlanGrows
<1>1. CASE UNCHANGED req
  BY <1>1, <1>k DEF RequestsAreCurrent
<1>2. ASSUME NEW r \in Requests, UserNext(r) PROVE RequestsAreCurrent'
  <2>1. RequestIsCurrent(r)'
    BY <1>2, <1>g, RequestStep
  <2>2. ASSUME NEW q \in Requests, q # r PROVE RequestIsCurrent(q)'
    BY <1>2, <1>k, <1>t, <2>2, OtherRequests
  <2>q. QED BY <2>1, <2>2 DEF RequestsAreCurrent
<1>3. CASE Restart
  BY <1>3 DEF Restart, Idle, RequestsAreCurrent, RequestIsCurrent
<1>q. QED BY <1>1, <1>2, <1>3, RequestWriters

-----------------------------------------------------------------------------
LEMMA InvariantInit == Init => IInv
<1> SUFFICES ASSUME Init PROVE IInv
  OBVIOUS
<1>1. TypeOK
  BY TypeInit
<1>2. /\ RecordedSessionsMatch
      /\ SessionsMatch
      /\ InactiveOnlyAfterExpiry
      /\ PaidHasCompletedCheckout
      /\ GrantIsBacked
      /\ ImapRequiresPlan
  BY DEF Init, RecordedSessionsMatch, SessionsMatch, InactiveOnlyAfterExpiry,
         PaidHasCompletedCheckout, GrantIsBacked, ImapRequiresPlan
<1>3. RequestsAreCurrent
  BY DEF Init, RequestsAreCurrent, RequestIsCurrent, Idle
<1>4. ActivationsAreCurrent /\ DeactivationsAreCurrent
  BY DEF Init, ActivationsAreCurrent, DeactivationsAreCurrent, ActivateIdle, DeactivateIdle
<1>q. QED BY <1>1, <1>2, <1>3, <1>4 DEF IInv

LEMMA InvariantStep == IInv /\ [Next]_vars => IInv'
<1> SUFFICES ASSUME IInv, [Next]_vars PROVE IInv'
  OBVIOUS
<1>q. QED
  BY TypeStep, RecordedSessionsStep, SessionsMatchStep, RequestsStep, ActivationsStep,
     DeactivationsStep, InactiveStep, PaidStep, GrantStep, ImapStep
  DEF IInv

(* The rows of the three tables and what every handler and job carries     *)
(* stay consistent in every reachable state.                               *)
THEOREM Invariance == Spec => []IInv
  BY InvariantInit, InvariantStep, PTL DEF Spec

(* Every variable keeps its type.                                          *)
THEOREM TypeCorrect == Spec => []TypeOK
  BY Invariance, PTL DEF IInv

(* The midnight job deactivates only what has expired, however old its     *)
(* list is (deactivateExpiredSubscriptions).                               *)
THEOREM NoEarlyDeactivation == Spec => []InactiveOnlyAfterExpiry
  BY Invariance, PTL DEF IInv

(* PAID means that a checkout for this history was completed (handleWebhook,*)
(* upgradePlan).                                                           *)
THEOREM PaidIsPaid == Spec => []PaidHasCompletedCheckout
  BY Invariance, PTL DEF IInv

(* No user is granted access on another user's history or without the      *)
(* payment it claims (buyPlan, handleWebhook, activateFreeTrial).          *)
THEOREM GrantsAreBacked == Spec => []GrantIsBacked
  BY Invariance, PTL DEF IInv

(* An IMAP configuration belongs to somebody who had a plan                *)
(* (setImapConfiguration).                                                 *)
THEOREM ImapHasPlan == Spec => []ImapRequiresPlan
  BY Invariance, PTL DEF IInv

-----------------------------------------------------------------------------
(* The refinement of Entitlement: granting inserts the row of one user who *)
(* has none, with an end date after now.                                   *)
LEMMA GrantsAccess ==
  ASSUME TypeOK, NEW u \in Users, plan[u] = None, now \in Nat,
         NEW h \in HistoryIds, NEW o \in Offers, NEW d \in Nat \ {0}, NEW g \in Grants,
         plan' = [plan EXCEPT ![u] = NewPlan(h, o, d, g)],
         UNCHANGED now
  PROVE  Access!Grant(u)
<1>1. NewPlan(h, o, d, g) # None
  BY NewPlanType, NoneAssumption
<1>2. plan'[u] = NewPlan(h, o, d, g)
  BY DEF TypeOK
<1>3. plan'[u].isActive /\ plan'[u].expiredAt = now + d
  BY <1>2 DEF NewPlan
<1>4. access'[u] = [state |-> "active", until |-> now + d]
  BY <1>1, <1>2, <1>3 DEF access
<1>5. access[u].state = "none"
  BY DEF access
<1>6. \A v \in Users \ {u} : access'[v] = access[v]
  BY DEF access, TypeOK
<1>7. access'[u] = [state |-> "active", until |-> access'[u].until]
  BY <1>4
<1>8. access' = [access EXCEPT ![u] = access'[u]]
  <2>1. /\ access = [v \in Users |-> access[v]]
        /\ access' = [v \in Users |-> access'[v]]
    BY DEF access
  <2>q. QED BY <2>1, <1>6
<1>9. access' = [access EXCEPT ![u] = [state |-> "active", until |-> access'[u].until]]
  BY <1>7, <1>8
<1>10. access'[u].until \in Nat /\ access'[u].until > now
  BY <1>4
<1>q. QED BY <1>5, <1>9, <1>10 DEF Access!Grant

LEMMA AccessStep ==
  ASSUME IInv, [Next]_vars
  PROVE  [Access!Next]_(Access!entVars)
<1>t. TypeOK BY DEF IInv
<1>n. now \in Nat BY TimeStep
<1>1. CASE UNCHANGED plan /\ UNCHANGED now
  BY <1>1 DEF Access!entVars, access
<1>2. CASE Tick
  BY <1>2 DEF Tick, tables, Access!Next, Access!Pass, access
<1>3. ASSUME NEW r \in Requests, BuyTrialPlan(r), plan' # plan PROVE Access!Next
  <2>1. /\ RequestHoldsOffer(r)
        /\ RequestHoldsHistory(r)
        /\ TrialDays[req[r].offer] > 0
    BY <1>3 DEF BuyTrialPlan, IInv, RequestsAreCurrent, RequestIsCurrent
  <2>2. TrialDays[req[r].offer] \in Nat \ {0}
    BY <2>1, OffersAssumption DEF RequestHoldsOffer
  <2>q. QED BY <1>3, <1>t, <1>n, <2>1, <2>2, UserType, GrantsAccess
            DEF BuyTrialPlan, RequestHoldsOffer, RequestHoldsHistory, Grants, Access!Next
<1>4. ASSUME NEW r \in Requests, WebhookCreatePlan(r), plan' # plan PROVE Access!Next
  <2>1. RequestHoldsOffer(r) /\ RequestHoldsHistory(r)
    BY <1>4 DEF WebhookCreatePlan, IInv, RequestsAreCurrent, RequestIsCurrent
  <2>2. PeriodDays[req[r].offer] \in Nat \ {0}
    BY <2>1, OffersAssumption DEF RequestHoldsOffer
  <2>q. QED BY <1>4, <1>t, <1>n, <2>1, <2>2, UserType, GrantsAccess
            DEF WebhookCreatePlan, RequestHoldsOffer, RequestHoldsHistory, Grants, Access!Next
<1>5. ASSUME NEW i \in Activators, ActivateCreate(i), plan' # plan PROVE Access!Next
  <2>1. PICK e \in act[i].todo :
          /\ plan[e.user] = None
          /\ plan' = [plan EXCEPT ![e.user] =
                NewPlan(e.hist, e.offer, TrialDays[e.offer], "activateFreeTrial")]
    BY <1>5 DEF ActivateCreate
  <2>2. e.user \in Users /\ e.hist \in HistoryIds /\ e.offer \in Offers
    BY <2>1, <1>t DEF TypeOK, ActivateRun, TrialEntry
  <2>3. TrialDays[e.offer] \in Nat \ {0}
    BY <2>1, <2>2, OffersAssumption DEF IInv, ActivationsAreCurrent
  <2>4. UNCHANGED now
    BY <1>5 DEF ActivateCreate
  <2>5. Access!Grant(e.user)
    BY <2>1, <2>2, <2>3, <2>4, <1>t, <1>n, GrantsAccess DEF Grants
  <2>q. QED BY <2>2, <2>5 DEF Access!Next
<1>6. ASSUME NEW i \in Deactivators, DeactivateRow(i), plan' # plan PROVE Access!Next
  <2>1. PICK u \in deact[i].todo : plan' = [plan EXCEPT ![u].isActive = FALSE]
    BY <1>6 DEF DeactivateRow
  <2>2. u \in Users /\ plan[u] # None /\ plan[u].expiredAt <= now
    BY <2>1, <1>t DEF TypeOK, DeactivateRun, IInv, DeactivationsAreCurrent
  <2>3. plan[u] \in Plan
    BY <2>2, <1>t DEF TypeOK
  <2>4. plan'[u] = [plan[u] EXCEPT !.isActive = FALSE]
    BY <2>1, <2>2, <1>t DEF TypeOK
  <2>5. plan[u].isActive
    <3>1. ASSUME ~plan[u].isActive PROVE FALSE
      <4>1. plan[u].isActive = FALSE
        BY <3>1, <2>3 DEF Plan
      <4>2. plan'[u] = plan[u]
        BY <2>3, <2>4, <4>1 DEF Plan
      <4>3. plan' = plan
        BY <2>1, <4>2, <1>t DEF TypeOK
      <4>q. QED BY <4>3, <1>6
    <3>q. QED BY <3>1
  <2>6. plan'[u] \in Plan /\ ~plan'[u].isActive /\ plan'[u].expiredAt = plan[u].expiredAt
    BY <2>3, <2>4 DEF Plan
  <2>7. access[u] = [state |-> "active", until |-> plan[u].expiredAt]
    BY <2>2, <2>5 DEF access
  <2>8. access'[u] = [state |-> "lapsed", until |-> plan[u].expiredAt]
    BY <2>2, <2>6, NoneAssumption DEF access
  <2>9. \A v \in Users \ {u} : access'[v] = access[v]
    BY <2>1, <1>t DEF access, TypeOK
  <2>10. access' = [access EXCEPT ![u].state = "lapsed"]
    BY <2>7, <2>8, <2>9 DEF access
  <2>11. Access!Lapse(u)
    BY <2>2, <2>7, <2>10, <1>6 DEF Access!Lapse, DeactivateRow
  <2>q. QED BY <2>2, <2>11 DEF Access!Next
<1>q. QED BY <1>1, <1>2, <1>3, <1>4, <1>5, <1>6, PlanWriters, TimeWriters

(* The tables implement the promise of access: a grant is made once, with  *)
(* its end date, and lapses only after it.                                 *)
THEOREM Implementation == Spec => ImplementsEntitlement
<1>1. Init => Access!Init
  BY DEF Init, Access!Init, access
<1>2. IInv /\ [Next]_vars => [Access!Next]_(Access!entVars)
  BY AccessStep
<1>q. QED BY <1>1, <1>2, Invariance, PTL DEF Spec, ImplementsEntitlement, Access!Spec

(* For a user: the end date of a grant never moves, and access that has    *)
(* lapsed never comes back, not by a redelivered webhook, a second trial   *)
(* or an upgrade.                                                          *)
THEOREM AccessIsFinal == Spec => Access!GrantsAreFinal
<1>1. IInv /\ [Next]_vars =>
        [\A u \in Users :
           /\ access[u].state # "none" => access'[u].until = access[u].until
           /\ access[u].state = "lapsed" => access'[u].state = "lapsed"]_(Access!entVars)
  <2> SUFFICES ASSUME IInv, [Next]_vars, NEW u \in Users
               PROVE  \/ UNCHANGED Access!entVars
                      \/ /\ access[u].state # "none" => access'[u].until = access[u].until
                         /\ access[u].state = "lapsed" => access'[u].state = "lapsed"
    OBVIOUS
  <2>1. access = [v \in Users |-> access[v]]
    BY DEF access
  <2>2. CASE UNCHANGED Access!entVars
    BY <2>2
  <2>3. ASSUME NEW v \in Users, Access!Grant(v)
        PROVE  access[u].state # "none" => access'[u] = access[u]
    BY <2>1, <2>3 DEF Access!Grant
  <2>4. ASSUME NEW v \in Users, Access!Lapse(v)
        PROVE  /\ access'[u].until = access[u].until
               /\ access[u].state = "lapsed" => access'[u].state = "lapsed"
    <3>1. access' = [access EXCEPT ![v].state = "lapsed"]
      BY <2>4 DEF Access!Lapse
    <3>2. access[v] = [state |-> access[v].state, until |-> access[v].until]
      BY DEF access
    <3>3. access'[v] = [state |-> "lapsed", until |-> access[v].until]
      BY <2>1, <3>1, <3>2
    <3>4. u # v => access'[u] = access[u]
      BY <2>1, <3>1
    <3>q. QED BY <3>3, <3>4
  <2>5. CASE Access!Pass
    BY <2>5 DEF Access!Pass
  <2>q. QED BY <2>2, <2>3, <2>4, <2>5, AccessStep DEF Access!Next
<1>q. QED BY <1>1, Invariance, PTL DEF Spec, Access!GrantsAreFinal
=============================================================================

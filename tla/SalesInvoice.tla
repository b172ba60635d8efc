---------------------------- MODULE SalesInvoice ----------------------------
(***************************************************************************)
(* Invoices that users write: drafts, publication, the monthly limit,      *)
(* deletion, and the payment link, whose payment the Stripe webhook        *)
(* records.                                                                *)
(*                                                                         *)
(* As in Subscription, an action is one awaited call.  Amounts, addresses  *)
(* and texts are left out.                                                 *)
(***************************************************************************)
EXTENDS Naturals, FiniteSets

CONSTANTS
    Users,
    Numbers,        \* invoice numbers, prefix included
    Fold,           \* a number without regard to case
    DueDates,       \* due dates a user may give, or None
    Contents,       \* what a request may hold of Parts
    Limit,          \* perMonthInvoiceCount of the active plan, or None
    MonthLength,    \* days of a month
    Handlers,       \* how many requests run at a time
    None,           \* SQL NULL, an absent row, an unused field
    MaxInvoices,    \* bound on rows ever inserted
    MaxSessions,    \* bound on checkout sessions
    MaxFaults,      \* bound on failed calls, restarts and redeliveries
    MaxTime         \* bound on the clock

(* What an invoice is made of, in tables of its own: serviceAndItem and    *)
(* businessData.                                                           *)
Parts == {"items", "data"}

InvoiceIds == 1..MaxInvoices
SessionIds == 1..MaxSessions

ASSUME InvoiceAssumption ==
    /\ {MaxInvoices, MaxSessions, MaxFaults, MaxTime} \subseteq Nat
    /\ MonthLength \in Nat \ {0}
    /\ DueDates \subseteq Nat \cup {None}
    /\ Contents \subseteq SUBSET Parts
    /\ Limit \in [Users -> Nat \cup {None}]
    /\ Numbers \subseteq DOMAIN Fold
    /\ IsFiniteSet(Handlers) /\ Handlers # {}

(* A row, with the parts it has.  paidAt says whether the webhook recorded *)
(* a payment.  origin and links are not stored: the handler that inserted  *)
(* the row, and the wishes for a payment link it was published with.       *)
Invoice == [user : Users, no : Numbers, day : Nat, due : Nat \cup {None},
            isDrafted : BOOLEAN, isPaid : BOOLEAN, paidAt : BOOLEAN,
            stripeSessionId : SessionIds \cup {None}, parts : SUBSET Parts,
            origin : {"create", "saveToDraft"}, links : SUBSET BOOLEAN]

(* A checkout session at Stripe; invoice is metadata.invoiceId.  The link  *)
(* is not mailed, open, paid, and the webhook answered: done, or failed if *)
(* the handler swallowed an error.                                         *)
Session == [invoice : InvoiceIds, hook : {"idle", "found"},
            state : {"unsent", "open", "expired", "paid", "done", "failed"}]

(* A handler in flight; pc names the awaited call it makes next.           *)
Request == [pc : {"idle", "number", "insert", "publish", "session", "record", "mail",
                  "update", "items", "data", "row"},
            kind : {"create", "saveToDraft", "draftToInvoice", "update", "delete",
                    "deleteFromDraft"},
            user : Users \cup {None}, no : Numbers \cup {None}, due : Nat \cup {None},
            link : BOOLEAN, invoice : InvoiceIds \cup {None},
            session : SessionIds \cup {None}]

Idle == [pc |-> "idle", kind |-> "create", user |-> None, no |-> None, due |-> None,
         link |-> FALSE, invoice |-> None, session |-> None]

ASSUME NoneAssumption == None \notin Nat \cup Invoice \cup Session

VARIABLES
    now,        \* the clock, in days
    month,      \* first day of the month
    invoice,    \* the table
    deleted,    \* ids of rows that were deleted; ids are not used twice
    session,    \* at Stripe
    req,        \* handlers in flight
    faults      \* failures so far

vars == <<now, month, invoice, deleted, session, req, faults>>

TypeOK ==
    /\ now \in 0..MaxTime
    /\ month \in 0..now
    /\ invoice \in [InvoiceIds -> Invoice \cup {None}]
    /\ deleted \subseteq {i \in InvoiceIds : invoice[i] = None}
    /\ session \in [SessionIds -> Session \cup {None}]
    /\ req \in [Handlers -> Request]
    /\ faults \in 0..MaxFaults

Init ==
    /\ now = 0
    /\ month = 0
    /\ invoice = [i \in InvoiceIds |-> None]
    /\ deleted = {}
    /\ session = [s \in SessionIds |-> None]
    /\ req = [h \in Handlers |-> Idle]
    /\ faults = 0

-----------------------------------------------------------------------------
Row(i) == i \in InvoiceIds /\ invoice[i] # None
IsNextId(i) == i \notin deleted /\ invoice[i] = None
               /\ \A j \in 1..(i - 1) : j \in deleted \/ invoice[j] # None
IsNextSession(s) == session[s] = None /\ \A t \in 1..(s - 1) : session[t] # None

Step(h, pc) == req' = [req EXCEPT ![h].pc = pc]
Done(h) == req' = [req EXCEPT ![h] = Idle]

(* findFirst compares without regard to case; the column is unique as it   *)
(* is written.                                                             *)
NumberExists(n) == \E i \in InvoiceIds : Row(i) /\ Fold[invoice[i].no] = Fold[n]
NumberTaken(n, except) == \E i \in InvoiceIds \ {except} : Row(i) /\ invoice[i].no = n

(* endOfMonth is the first instant of the last day of the month, so what   *)
(* is inserted on that day is not counted.                                 *)
EndOfMonth == month + MonthLength - 1
Counted(u) == {i \in InvoiceIds : /\ Row(i)
                                  /\ invoice[i].user = u
                                  /\ month <= invoice[i].day
                                  /\ invoice[i].day < EndOfMonth}

(* Mutant: one more than the limit.                                        *)
LimitExceeded(u) == Limit[u] # None /\ Cardinality(Counted(u)) > Limit[u]

LimitReached(u) == Limit[u] # None /\ Cardinality(Counted(u)) >= Limit[u]

(* Mutant: the wish for a payment link is not looked at.                   *)
PaidUnlessOverdue(due, link) == due = None \/ ~(due < now)

(* isPaid of an invoice that is published now.                             *)
PaidWhenPublished(due, link) == ~link /\ (due = None \/ ~(due < now))

(* A session is created only for a link and a due date in the future.      *)
NeedsSession(due, link) == link /\ due # None /\ due > now

-----------------------------------------------------------------------------
(* create                                                                  *)

(* The limit is checked first ...                                          *)
Create(h, u) ==
    /\ req[h] = Idle
    /\ ~LimitReached(u)
    /\ \E n \in Numbers, due \in DueDates, link \in BOOLEAN :
        req' = [req EXCEPT ![h] = [Idle EXCEPT !.pc = "number", !.kind = "create", !.user = u,
                                      !.no = n, !.due = due, !.link = link]]
    /\ UNCHANGED <<now, month, invoice, deleted, session, faults>>

SaveToDraft(h, u) ==
    /\ req[h] = Idle
    /\ \E n \in Numbers, due \in DueDates :
        req' = [req EXCEPT ![h] = [Idle EXCEPT !.pc = "number", !.kind = "saveToDraft",
                                      !.user = u, !.no = n, !.due = due]]
    /\ UNCHANGED <<now, month, invoice, deleted, session, faults>>

(* ... then, as for a draft, the number.                                   *)
FindNumber(h) ==
    /\ req[h].pc = "number"
    /\ IF NumberExists(req[h].no) THEN Done(h) ELSE Step(h, "insert")
    /\ UNCHANGED <<now, month, invoice, deleted, session, faults>>

(* Mutant: a draft has no isPaid.                                          *)
NewUndecidedInvoice(q, parts) ==
    [user |-> q.user, no |-> q.no, day |-> now, due |-> q.due,
     isDrafted |-> q.kind = "saveToDraft",
     isPaid |-> IF q.kind = "create" THEN PaidWhenPublished(q.due, q.link) ELSE None,
     paidAt |-> FALSE, stripeSessionId |-> None, parts |-> parts,
     origin |-> q.kind, links |-> IF q.kind = "create" THEN {q.link} ELSE {}]

NewInvoice(q, parts) ==
    [user |-> q.user, no |-> q.no, day |-> now, due |-> q.due,
     isDrafted |-> q.kind = "saveToDraft",
     isPaid |-> q.kind = "create" /\ PaidWhenPublished(q.due, q.link),
     paidAt |-> FALSE, stripeSessionId |-> None, parts |-> parts,
     origin |-> q.kind, links |-> IF q.kind = "create" THEN {q.link} ELSE {}]

(* The unique column refuses a number inserted meanwhile.                  *)
InsertInvoice(h) ==
    /\ req[h].pc = "insert"
    /\ \/ \E i \in InvoiceIds, parts \in Contents :
            /\ IsNextId(i)
            /\ ~NumberTaken(req[h].no, None)
            /\ invoice' = [invoice EXCEPT ![i] = NewInvoice(req[h], parts)]
            /\ req' = [req EXCEPT ![h] =
                 IF req[h].kind # "create" THEN Idle
                 ELSE [@ EXCEPT !.invoice = i,
                          !.pc = IF NeedsSession(req[h].due, req[h].link)
                                 THEN "session" ELSE "mail"]]
       \/ /\ NumberTaken(req[h].no, None) \/ ~\E i \in InvoiceIds : IsNextId(i)
          /\ Done(h)
          /\ UNCHANGED invoice
    /\ UNCHANGED <<now, month, deleted, session, faults>>

-----------------------------------------------------------------------------
(* draftToInvoice                                                          *)

DraftToInvoice(h, i) ==
    /\ req[h] = Idle
    /\ Row(i) /\ invoice[i].isDrafted
    /\ \E link \in BOOLEAN :
        req' = [req EXCEPT ![h] = [Idle EXCEPT !.pc = "publish", !.kind = "draftToInvoice",
                                      !.due = invoice[i].due, !.link = link, !.invoice = i]]
    /\ UNCHANGED <<now, month, invoice, deleted, session, faults>>

(* The row is written by its id, draft or not.                             *)
Publish(h) ==
    /\ req[h].pc = "publish"
    /\ LET i == req[h].invoice
       IN  IF Row(i)
           THEN /\ invoice' = [invoice EXCEPT ![i].isDrafted = FALSE,
                       ![i].isPaid = PaidWhenPublished(req[h].due, req[h].link),
                       ![i].links = @ \cup {req[h].link}]
                /\ IF NeedsSession(req[h].due, req[h].link) THEN Step(h, "session") ELSE Done(h)
           ELSE Done(h) /\ UNCHANGED invoice
    /\ UNCHANGED <<now, month, deleted, session, faults>>

-----------------------------------------------------------------------------
(* The payment link, for create and draftToInvoice.                        *)

CreateLink(h, state) ==
    /\ req[h].pc = "session"
    /\ \/ \E s \in SessionIds :
            /\ IsNextSession(s)
            /\ session' = [session EXCEPT ![s] =
                             [invoice |-> req[h].invoice, hook |-> "idle", state |-> state]]
            /\ req' = [req EXCEPT ![h].pc = "record", ![h].session = s]
       \/ /\ \A s \in SessionIds : session[s] # None
          /\ Done(h)
          /\ UNCHANGED session
    /\ UNCHANGED <<now, month, invoice, deleted, faults>>

(* Mutant: the customer is mailed the link before the row is written.      *)
CreateSentSession(h) == CreateLink(h, "open")

CreateSession(h) == CreateLink(h, "unsent")

RecordSession(h) ==
    /\ req[h].pc = "record"
    /\ LET i == req[h].invoice
       IN  IF Row(i)
           THEN /\ invoice' = [invoice EXCEPT ![i].stripeSessionId = req[h].session,
                                             ![i].isPaid = FALSE]
                /\ Step(h, "mail")
           ELSE Done(h) /\ UNCHANGED invoice
    /\ UNCHANGED <<now, month, deleted, session, faults>>

(* The customer gets the link.                                             *)
SendMail(h) ==
    /\ req[h].pc = "mail"
    /\ Done(h)
    /\ IF req[h].session # None
       THEN session' = [session EXCEPT ![req[h].session].state =
                           IF @ = "unsent" THEN "open" ELSE @]
       ELSE UNCHANGED session
    /\ UNCHANGED <<now, month, invoice, deleted, faults>>

-----------------------------------------------------------------------------
(* update and the two kinds of delete                                      *)

Update(h, u, i) ==
    /\ req[h] = Idle
    /\ Row(i) /\ invoice[i].user = u
    /\ \E n \in Numbers, due \in DueDates :
        req' = [req EXCEPT ![h] = [Idle EXCEPT !.pc = "update", !.kind = "update", !.user = u,
                                      !.no = n, !.due = due, !.invoice = i]]
    /\ UNCHANGED <<now, month, invoice, deleted, session, faults>>

(* It overwrites the number, without a look whether it exists in another   *)
(* case, and adds to the items.                                            *)
UpdateInvoice(h) ==
    /\ req[h].pc = "update"
    /\ Done(h)
    /\ LET i == req[h].invoice
       IN  IF Row(i) /\ ~NumberTaken(req[h].no, i)
           THEN \E parts \in Contents :
                  invoice' = [invoice EXCEPT ![i].no = req[h].no, ![i].due = req[h].due,
                                             ![i].parts = @ \cup parts]
           ELSE UNCHANGED invoice
    /\ UNCHANGED <<now, month, deleted, session, faults>>

Delete(h, u, i) ==
    /\ req[h] = Idle
    /\ Row(i) /\ invoice[i].user = u
    /\ req' = [req EXCEPT ![h] = [Idle EXCEPT !.pc = "items", !.kind = "delete",
                                     !.user = u, !.invoice = i]]
    /\ UNCHANGED <<now, month, invoice, deleted, session, faults>>

DeleteItems(h) ==
    /\ req[h].pc = "items"
    /\ Step(h, "data")
    /\ IF Row(req[h].invoice)
       THEN invoice' = [invoice EXCEPT ![req[h].invoice].parts = @ \ {"items"}]
       ELSE UNCHANGED invoice
    /\ UNCHANGED <<now, month, deleted, session, faults>>

DeleteBusinessData(h) ==
    /\ req[h].pc = "data"
    /\ Step(h, "row")
    /\ IF Row(req[h].invoice)
       THEN invoice' = [invoice EXCEPT ![req[h].invoice].parts = @ \ {"data"}]
       ELSE UNCHANGED invoice
    /\ UNCHANGED <<now, month, deleted, session, faults>>

(* Any invoice, whoever wrote it.                                          *)
DeleteFromDraft(h, i) ==
    /\ req[h] = Idle
    /\ Row(i)
    /\ req' = [req EXCEPT ![h] = [Idle EXCEPT !.pc = "row", !.kind = "deleteFromDraft",
                                     !.invoice = i]]
    /\ UNCHANGED <<now, month, invoice, deleted, session, faults>>

(* A foreign key keeps a row that has items or business data.              *)
DeleteRow(h) ==
    /\ req[h].pc = "row"
    /\ Done(h)
    /\ LET i == req[h].invoice
       IN  IF Row(i) /\ invoice[i].parts = {}
           THEN invoice' = [invoice EXCEPT ![i] = None] /\ deleted' = deleted \cup {i}
           ELSE UNCHANGED <<invoice, deleted>>
    /\ UNCHANGED <<now, month, session, faults>>

-----------------------------------------------------------------------------
(* The customer, and the webhook.                                          *)

CustomerPays(s) ==
    /\ session[s] # None /\ session[s].state = "open"
    /\ session' = [session EXCEPT ![s].state = "paid"]
    /\ UNCHANGED <<now, month, invoice, deleted, req, faults>>

(* An expired session reaches the log only.                                *)
SessionExpires(s) ==
    /\ session[s] # None /\ session[s].state = "open"
    /\ session' = [session EXCEPT ![s].state = "expired"]
    /\ UNCHANGED <<now, month, invoice, deleted, req, faults>>

(* checkout.session.completed is delivered until it is answered, and       *)
(* sometimes again.  A missing row is answered as well.                    *)
WebhookFind(s) ==
    /\ session[s] # None /\ session[s].hook = "idle"
    /\ \/ session[s].state = "paid" /\ UNCHANGED faults
       \/ /\ session[s].state = "done"
          /\ faults < MaxFaults
          /\ faults' = faults + 1
    /\ session' = [session EXCEPT ![s] =
                     IF Row(@.invoice) THEN [@ EXCEPT !.hook = "found"]
                     ELSE [@ EXCEPT !.state = "done"]]
    /\ UNCHANGED <<now, month, invoice, deleted, req>>

WebhookMarks(s, wanted) ==
    /\ session[s] # None /\ session[s].hook = "found"
    /\ LET i == session[s].invoice
       IN  IF Row(i) /\ wanted
           THEN /\ invoice' = [invoice EXCEPT ![i].isPaid = TRUE, ![i].paidAt = TRUE,
                                             ![i].stripeSessionId = s]
                /\ session' = [session EXCEPT ![s].hook = "idle", ![s].state = "done"]
           ELSE /\ session' = [session EXCEPT ![s].hook = "idle",
                                 ![s].state = IF Row(i) THEN "done" ELSE "failed"]
                /\ UNCHANGED invoice
    /\ UNCHANGED <<now, month, deleted, req, faults>>

(* Mutant: the invoice is looked up by the session it names.               *)
WebhookMarkNamed(s) ==
    WebhookMarks(s, session[s].invoice \in InvoiceIds /\ Row(session[s].invoice)
                    /\ invoice[session[s].invoice].stripeSessionId = s)

(* The update of a row that was deleted meanwhile fails.                   *)
WebhookMarkPaid(s) == WebhookMarks(s, TRUE)

-----------------------------------------------------------------------------
(* Failures.                                                               *)

RequestFails(h) ==
    /\ req[h] # Idle
    /\ faults < MaxFaults
    /\ faults' = faults + 1
    /\ Done(h)
    /\ UNCHANGED <<now, month, invoice, deleted, session>>

(* An error of the webhook is swallowed and answered.                      *)
WebhookFails(s) ==
    /\ session[s] # None
    /\ session[s].state = "paid"
    /\ faults < MaxFaults
    /\ faults' = faults + 1
    /\ session' = [session EXCEPT ![s].hook = "idle", ![s].state = "failed"]
    /\ UNCHANGED <<now, month, invoice, deleted, req>>

Restart ==
    /\ faults < MaxFaults
    /\ faults' = faults + 1
    /\ req' = [h \in Handlers |-> Idle]
    /\ session' = [s \in SessionIds |->
                     IF session[s] = None THEN None ELSE [session[s] EXCEPT !.hook = "idle"]]
    /\ UNCHANGED <<now, month, invoice, deleted>>

Tick ==
    /\ now < MaxTime
    /\ now' = now + 1
    /\ month' = IF now' = month + MonthLength THEN now' ELSE month
    /\ UNCHANGED <<invoice, deleted, session, req, faults>>

WebhookStep(s) == WebhookFind(s) \/ WebhookMarkPaid(s)

Next ==
    \/ \E h \in Handlers, u \in Users : \/ Create(h, u)
                                        \/ SaveToDraft(h, u)
                                        \/ \E i \in InvoiceIds : \/ Update(h, u, i)
                                                                 \/ Delete(h, u, i)
    \/ \E h \in Handlers, i \in InvoiceIds : DraftToInvoice(h, i) \/ DeleteFromDraft(h, i)
    \/ \E h \in Handlers : \/ FindNumber(h)
                           \/ InsertInvoice(h)
                           \/ Publish(h)
                           \/ CreateSession(h)
                           \/ RecordSession(h)
                           \/ SendMail(h)
                           \/ UpdateInvoice(h)
                           \/ DeleteItems(h)
                           \/ DeleteBusinessData(h)
                           \/ DeleteRow(h)
                           \/ RequestFails(h)
    \/ \E s \in SessionIds : \/ CustomerPays(s)
                             \/ SessionExpires(s)
                             \/ WebhookStep(s)
                             \/ WebhookFails(s)
    \/ Restart
    \/ Tick

Spec == Init /\ [][Next]_vars

(* Stripe delivers an event until it is answered.                          *)
FairSpec == Spec /\ \A s \in SessionIds : WF_vars(WebhookStep(s))

-----------------------------------------------------------------------------
(* Properties.                                                             *)

Completed(s) == session[s] # None /\ session[s].state \in {"paid", "done", "failed"}

(* A payment is recorded only for a completed checkout of the invoice, and *)
(* an invoice that was only ever published with a payment link is not      *)
(* called paid before, whatever drafts, updates and publications overlap.  *)
PaidThroughLink ==
    \A i \in InvoiceIds : Row(i) /\ (\/ invoice[i].paidAt
                                     \/ /\ invoice[i].isPaid
                                        /\ invoice[i].links = {TRUE}) =>
        \E s \in SessionIds : Completed(s) /\ session[s].invoice = i

(* The limit is checked two calls before the insert (line 65), so requests *)
(* at the same time may exceed it, but by less than their number: the      *)
(* invoices created in the month and those under way never do by more.     *)
Created(u) == {i \in Counted(u) : invoice[i].origin = "create"}
Creating(u) == {h \in Handlers : /\ req[h].kind = "create"
                                 /\ req[h].user = u
                                 /\ req[h].pc \in {"number", "insert"}}

CreateKeepsLimit ==
    \A u \in Users : Limit[u] # None =>
        Cardinality(Created(u)) + Cardinality(Creating(u)) < Limit[u] + Cardinality(Handlers)

(* A recorded payment is undone only by a publication of a draft that      *)
(* another one published first (line 482), never by create, whose          *)
(* customer is mailed the link after the last write.                       *)
Publishing(h, i) ==
    /\ req[h].kind = "draftToInvoice"
    /\ req[h].invoice = i
    /\ req[h].pc \in {"publish", "record"}

PaidIsUndoneOnlyByRepublication ==
    [][\A i \in InvoiceIds :
         (/\ Row(i) /\ invoice[i].paidAt /\ invoice[i].isPaid
          /\ invoice'[i] # None /\ ~invoice'[i].isPaid)
         => \E h \in Handlers : Publishing(h, i) /\ req'[h] # req[h]]_vars

(* Every completed checkout is recorded in the end, through restarts and   *)
(* redeliveries, unless the invoice is deleted or the handler swallowed an *)
(* error, which it answers all the same.                                   *)
Paid(s) == session[s] # None /\ session[s].state = "paid"
Settled(s) ==
    /\ session[s] # None
    /\ \/ session[s].state = "failed"
       \/ ~Row(session[s].invoice)
       \/ invoice[session[s].invoice].paidAt

PaymentIsRecorded == \A s \in SessionIds : Paid(s) ~> Settled(s)

(* "Monthly invoice limit reached. Upgrade your plan to create more        *)
(* invoices": one request at a time does not create more in a month.       *)
MonthlyLimit ==
    \A u \in Users : Limit[u] # None =>
        Cardinality({i \in InvoiceIds : /\ Row(i)
                                        /\ invoice[i].user = u
                                        /\ invoice[i].origin = "create"
                                        /\ month <= invoice[i].day}) <= Limit[u]

-----------------------------------------------------------------------------
(* The strengthening that is inductive.                                    *)

(* What a handler carries from one call to the next.                       *)
RequestIsWhole(q) ==
    /\ q.pc = "idle" => q = Idle
    /\ q.pc \in {"number", "insert"} =>
         /\ q.kind \in {"create", "saveToDraft"}
         /\ q.user \in Users /\ q.no \in Numbers
         /\ q.invoice = None /\ q.session = None
    /\ q.pc = "publish" => q.kind = "draftToInvoice"
    /\ q.pc \in {"session", "record", "mail"} => q.kind \in {"create", "draftToInvoice"}
    /\ q.pc = "record" => q.session \in SessionIds
    /\ q.pc \in {"publish", "session"} => q.session = None
    /\ q.pc \in {"update", "items", "data", "row"} =>
         q.kind \notin {"create", "draftToInvoice"} /\ q.session = None
    /\ q.pc = "update" => q.no \in Numbers
    /\ q.pc \notin {"idle", "number", "insert"} => q.invoice \in InvoiceIds

RequestsAreWhole == \A h \in Handlers : RequestIsWhole(req[h])

RowsAreOfThePast == \A i \in InvoiceIds : Row(i) => invoice[i].day <= now

(* An id in use is not given out again.                                    *)
WasInserted(i) == Row(i) \/ i \in deleted

ReferencesWereInserted ==
    /\ \A h \in Handlers : req[h].invoice # None => WasInserted(req[h].invoice)
    /\ \A s \in SessionIds : session[s] # None => WasInserted(session[s].invoice)

SessionsAreTheHandlers ==
    \A h \in Handlers : req[h].session # None =>
        /\ session[req[h].session] # None
        /\ session[req[h].session].invoice = req[h].invoice

HooksFollowPayment ==
    \A s \in SessionIds : session[s] # None /\ session[s].hook = "found" =>
        session[s].state \in {"paid", "done"}

(* A created invoice never was a draft, so nobody publishes it.            *)
CreatedIsNoDraft ==
    /\ \A i \in InvoiceIds : Row(i) /\ invoice[i].origin = "create" => ~invoice[i].isDrafted
    /\ \A h \in Handlers :
         req[h].kind = "draftToInvoice" /\ Row(req[h].invoice) =>
             invoice[req[h].invoice].origin = "saveToDraft"

(* Until its handler ends, nobody else has a created invoice or a session  *)
(* for it, and the customer does not have the link.                        *)
HoldsAlone(h) ==
    LET i == req[h].invoice
    IN  /\ invoice[i].origin = "create"
        /\ \A g \in Handlers : req[g].kind = "create" /\ req[g].invoice = i => g = h
        /\ \A s \in SessionIds : session[s] # None /\ session[s].invoice = i =>
             s = req[h].session /\ session[s].state = "unsent"

CreatesHoldAlone ==
    \A h \in Handlers : req[h].kind = "create" /\ Row(req[h].invoice) => HoldsAlone(h)

IInv ==
    /\ TypeOK
    /\ RequestsAreWhole
    /\ RowsAreOfThePast
    /\ ReferencesWereInserted
    /\ SessionsAreTheHandlers
    /\ HooksFollowPayment
    /\ CreatedIsNoDraft
    /\ CreatesHoldAlone
    /\ PaidThroughLink
    /\ CreateKeepsLimit
=============================================================================

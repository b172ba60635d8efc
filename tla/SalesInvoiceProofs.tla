------------------------- MODULE SalesInvoiceProofs -------------------------
(***************************************************************************)
(* Proofs of the safety of module SalesInvoice, for every value of its     *)
(* constants.  What a step does to a table is stated once, by the lemmas   *)
(* ...Change; the invariant follows from these forms.                      *)
(***************************************************************************)
EXTENDS SalesInvoice, FiniteSetTheorems, TLAPS

(* The handler h goes on with q.                                           *)
Writes(h, q) ==
    /\ q \in Request
    /\ RequestIsWhole(q)
    /\ req' = [req EXCEPT ![h] = q]

(* A handler begins, with nothing or with a row it looked up, ...          *)
Begins(h, q) ==
    /\ req[h] = Idle
    /\ q.session = None
    /\ q.invoice # None => Row(q.invoice)
    /\ q.kind = "create" => q.invoice = None /\ ~LimitReached(q.user)
    /\ q.kind = "draftToInvoice" => invoice[q.invoice].isDrafted
    /\ UNCHANGED <<month, invoice, deleted, session>>

(* ... moves to another call, ...                                          *)
Continues(h, q) ==
    /\ req[h] # Idle
    /\ q.kind = req[h].kind /\ q.user = req[h].user
    /\ q.invoice = req[h].invoice /\ q.session = req[h].session
    /\ q.pc \in {"number", "insert"} => req[h].pc \in {"number", "insert"}

(* ... inserts its invoice, or opens its session.                          *)
Inserts(h, i) ==
    /\ req[h].pc = "insert"
    /\ IsNextId(i)
    /\ \E parts \in Contents : invoice' = [invoice EXCEPT ![i] = NewInvoice(req[h], parts)]
    /\ req'[h].pc \notin {"number", "insert"}
    /\ \A g \in Handlers \ {h} : req'[g] = req[g]
    /\ UNCHANGED <<now, month, deleted, session>>

InsertsFor(h, q) ==
    /\ q.invoice \in InvoiceIds
    /\ Inserts(h, q.invoice)
    /\ q.kind = "create" /\ req[h].kind = "create"
    /\ q.session = None
    /\ q.pc \notin {"number", "insert"}

OpensFor(h, q) ==
    /\ q.kind = req[h].kind /\ q.user = req[h].user /\ q.invoice = req[h].invoice
    /\ req[h].pc = "session" /\ q.pc = "record"
    /\ q.session \in SessionIds
    /\ session[q.session] = None
    /\ session' = [session EXCEPT ![q.session] =
                     [invoice |-> q.invoice, hook |-> "idle", state |-> "unsent"]]
    /\ UNCHANGED <<invoice, deleted>>

Moves(h, q) ==
    /\ Writes(h, q)
    /\ q = Idle \/ Begins(h, q) \/ Continues(h, q) \/ InsertsFor(h, q) \/ OpensFor(h, q)

LEMMA IdleFacts == Idle \in Request /\ RequestIsWhole(Idle)
  BY DEF Idle, Request, RequestIsWhole

LEMMA DoneChange ==
  ASSUME NEW h \in Handlers, Done(h)
  PROVE  Moves(h, Idle)
  BY IdleFacts DEF Done, Moves, Writes

LEMMA StepChange ==
  ASSUME TypeOK, RequestsAreWhole, NEW h \in Handlers, NEW pc, Step(h, pc),
         \/ req[h].pc = "number" /\ pc = "insert"
         \/ req[h].pc = "publish" /\ pc = "session"
         \/ req[h].pc = "record" /\ pc = "mail"
         \/ req[h].pc = "items" /\ pc = "data"
         \/ req[h].pc = "data" /\ pc = "row"
  PROVE  \E q \in Request : Moves(h, q)
<1> DEFINE q == [req[h] EXCEPT !.pc = pc]
<1>1. req[h] \in Request /\ RequestIsWhole(req[h])
  BY DEF TypeOK, RequestsAreWhole
<1>2. req' = [req EXCEPT ![h] = q]
  BY DEF Step, TypeOK
<1>3. pc \in {"insert", "session", "mail", "data", "row"} OBVIOUS
<1>4. q \in Request
  BY <1>1, <1>3 DEF Request
<1>5. /\ q.pc = pc
      /\ q.kind = req[h].kind /\ q.user = req[h].user /\ q.no = req[h].no
      /\ q.invoice = req[h].invoice /\ q.session = req[h].session
  BY <1>1 DEF Request
<1> HIDE DEF q
<1>6. RequestIsWhole(q)
  BY <1>1, <1>5 DEF RequestIsWhole
<1>7. req[h] # Idle
  BY DEF Idle
<1>8. Continues(h, q)
  BY <1>5, <1>7 DEF Continues
<1>q. QED BY <1>2, <1>4, <1>6, <1>8 DEF Moves, Writes

(* What each kind of request begins with.                                  *)
LEMMA BeginChange ==
  ASSUME TypeOK, NEW h \in Handlers,
         \/ \E u \in Users : Create(h, u) \/ SaveToDraft(h, u)
         \/ \E u \in Users, i \in InvoiceIds : Update(h, u, i) \/ Delete(h, u, i)
         \/ \E i \in InvoiceIds : DraftToInvoice(h, i) \/ DeleteFromDraft(h, i)
  PROVE  \E q \in Request : Moves(h, q)
<1>d. DueDates \subseteq Nat \cup {None} BY InvoiceAssumption
<1>i. \A i \in InvoiceIds : Row(i) => invoice[i] \in Invoice
  BY DEF TypeOK, Row
<1>1. ASSUME NEW u \in Users, Create(h, u) PROVE \E q \in Request : Moves(h, q)
  <2>1. PICK n \in Numbers, due \in DueDates, link \in BOOLEAN :
          req' = [req EXCEPT ![h] = [Idle EXCEPT !.pc = "number", !.kind = "create", !.user = u,
                                      !.no = n, !.due = due, !.link = link]]
    BY <1>1 DEF Create
  <2> DEFINE q == [Idle EXCEPT !.pc = "number", !.kind = "create", !.user = u,
                                      !.no = n, !.due = due, !.link = link]
  <2>2. q \in Request /\ q.user = u /\ q.invoice = None /\ q.session = None /\ RequestIsWhole(q)
    BY <1>d DEF Idle, Request, RequestIsWhole
  <2>3. q.kind = "create" BY DEF Idle
  <2>4. req' = [req EXCEPT ![h] = q] BY <2>1
  <2> HIDE DEF q
  <2>5. Begins(h, q)
    BY <2>2, <2>3, <1>1 DEF Begins, Create
  <2>q. QED BY <2>2, <2>4, <2>5 DEF Moves, Writes
<1>2. ASSUME NEW u \in Users, SaveToDraft(h, u) PROVE \E q \in Request : Moves(h, q)
  <2>1. PICK n \in Numbers, due \in DueDates :
          req' = [req EXCEPT ![h] = [Idle EXCEPT !.pc = "number", !.kind = "saveToDraft",
                                      !.user = u, !.no = n, !.due = due]]
    BY <1>2 DEF SaveToDraft
  <2> DEFINE q == [Idle EXCEPT !.pc = "number", !.kind = "saveToDraft",
                                      !.user = u, !.no = n, !.due = due]
  <2>2. /\ q \in Request /\ RequestIsWhole(q)
        /\ q.kind = "saveToDraft" /\ q.invoice = None /\ q.session = None
    BY <1>d DEF Idle, Request, RequestIsWhole
  <2> HIDE DEF q
  <2>3. Begins(h, q)
    BY <2>2, <1>2 DEF Begins, SaveToDraft
  <2>q. QED BY <2>1, <2>2, <2>3 DEF Moves, Writes, q
<1>3. ASSUME NEW u \in Users, NEW i \in InvoiceIds, Update(h, u, i)
      PROVE  \E q \in Request : Moves(h, q)
  <2>1. PICK n \in Numbers, due \in DueDates :
          req' = [req EXCEPT ![h] = [Idle EXCEPT !.pc = "update", !.kind = "update", !.user = u,
                                      !.no = n, !.due = due, !.invoice = i]]
    BY <1>3 DEF Update
  <2> DEFINE q == [Idle EXCEPT !.pc = "update", !.kind = "update", !.user = u,
                                      !.no = n, !.due = due, !.invoice = i]
  <2>2. /\ q \in Request /\ RequestIsWhole(q)
        /\ q.kind = "update" /\ q.invoice = i /\ q.session = None
    BY <1>d DEF Idle, Request, RequestIsWhole
  <2> HIDE DEF q
  <2>3. Begins(h, q)
    BY <2>2, <1>3 DEF Begins, Update
  <2>q. QED BY <2>1, <2>2, <2>3 DEF Moves, Writes, q
<1>4. ASSUME NEW u \in Users, NEW i \in InvoiceIds, Delete(h, u, i)
      PROVE  \E q \in Request : Moves(h, q)
  <2> DEFINE q == [Idle EXCEPT !.pc = "items", !.kind = "delete", !.user = u, !.invoice = i]
  <2>1. req' = [req EXCEPT ![h] = q]
    BY <1>4 DEF Delete
  <2>2. /\ q \in Request /\ RequestIsWhole(q)
        /\ q.kind = "delete" /\ q.invoice = i /\ q.session = None
    BY DEF Idle, Request, RequestIsWhole
  <2> HIDE DEF q
  <2>3. Begins(h, q)
    BY <2>2, <1>4 DEF Begins, Delete
  <2>q. QED BY <2>1, <2>2, <2>3 DEF Moves, Writes
<1>5. ASSUME NEW i \in InvoiceIds, DraftToInvoice(h, i) PROVE \E q \in Request : Moves(h, q)
  <2>1. PICK link \in BOOLEAN :
          req' = [req EXCEPT ![h] = [Idle EXCEPT !.pc = "publish", !.kind = "draftToInvoice",
                                      !.due = invoice[i].due, !.link = link, !.invoice = i]]
    BY <1>5 DEF DraftToInvoice
  <2> DEFINE q == [Idle EXCEPT !.pc = "publish", !.kind = "draftToInvoice",
                                      !.due = invoice[i].due, !.link = link, !.invoice = i]
  <2>2. invoice[i].due \in Nat \cup {None}
    BY <1>5, <1>i DEF DraftToInvoice, Invoice
  <2>3. /\ q \in Request /\ RequestIsWhole(q)
        /\ q.kind = "draftToInvoice" /\ q.invoice = i /\ q.session = None
    BY <2>2 DEF Idle, Request, RequestIsWhole
  <2> HIDE DEF q
  <2>4. Begins(h, q)
    BY <2>3, <1>5 DEF Begins, DraftToInvoice
  <2>q. QED BY <2>1, <2>3, <2>4 DEF Moves, Writes, q
<1>6. ASSUME NEW i \in InvoiceIds, DeleteFromDraft(h, i) PROVE \E q \in Request : Moves(h, q)
  <2> DEFINE q == [Idle EXCEPT !.pc = "row", !.kind = "deleteFromDraft", !.invoice = i]
  <2>1. req' = [req EXCEPT ![h] = q]
    BY <1>6 DEF DeleteFromDraft
  <2>2. /\ q \in Request /\ RequestIsWhole(q)
        /\ q.kind = "deleteFromDraft" /\ q.invoice = i /\ q.session = None
    BY DEF Idle, Request, RequestIsWhole
  <2> HIDE DEF q
  <2>3. Begins(h, q)
    BY <2>2, <1>6 DEF Begins, DeleteFromDraft
  <2>q. QED BY <2>1, <2>2, <2>3 DEF Moves, Writes
<1>q. QED BY <1>1, <1>2, <1>3, <1>4, <1>5, <1>6

(* The one new row: an invoice, with the parts of the request.             *)
LEMMA NewInvoiceType ==
  ASSUME NEW q \in Request, RequestIsWhole(q), q.pc = "insert", NEW parts \in Contents,
         now \in Nat
  PROVE  /\ NewInvoice(q, parts) \in Invoice
         /\ NewInvoice(q, parts).user = q.user
         /\ NewInvoice(q, parts).day = now
         /\ NewInvoice(q, parts).origin = q.kind
         /\ q.kind = "create" => ~NewInvoice(q, parts).isDrafted
         /\ ~NewInvoice(q, parts).paidAt
         /\ ~(NewInvoice(q, parts).isPaid /\ NewInvoice(q, parts).links = {TRUE})
<1>1. parts \in SUBSET Parts BY InvoiceAssumption
<1>2. /\ q.kind \in {"create", "saveToDraft"} /\ q.user \in Users /\ q.no \in Numbers
      /\ q.due \in Nat \cup {None} /\ q.link \in BOOLEAN
  BY DEF Request, RequestIsWhole
<1>3. PaidWhenPublished(q.due, q.link) \in BOOLEAN
  BY DEF PaidWhenPublished
<1>4. q.link => ~PaidWhenPublished(q.due, q.link)
  BY DEF PaidWhenPublished
<1> DEFINE paid == q.kind = "create" /\ PaidWhenPublished(q.due, q.link)
           links == IF q.kind = "create" THEN {q.link} ELSE {}
<1>5. paid \in BOOLEAN BY <1>3
<1>6. links \in SUBSET BOOLEAN BY <1>2
<1>7. ~(paid /\ links = {TRUE}) BY <1>2, <1>4
<1>8. NewInvoice(q, parts) =
         [user |-> q.user, no |-> q.no, day |-> now, due |-> q.due,
          isDrafted |-> q.kind = "saveToDraft", isPaid |-> paid, paidAt |-> FALSE,
          stripeSessionId |-> None, parts |-> parts, origin |-> q.kind, links |-> links]
  BY DEF NewInvoice
<1> HIDE DEF paid, links
<1>9. NewInvoice(q, parts) \in Invoice
  BY <1>1, <1>2, <1>5, <1>6, <1>8 DEF Invoice
<1>10. /\ NewInvoice(q, parts).isPaid = paid /\ NewInvoice(q, parts).links = links
       /\ NewInvoice(q, parts).paidAt = FALSE
       /\ NewInvoice(q, parts).isDrafted = (q.kind = "saveToDraft")
       /\ NewInvoice(q, parts).user = q.user /\ NewInvoice(q, parts).day = now
       /\ NewInvoice(q, parts).origin = q.kind
  BY <1>8
<1>q. QED BY <1>7, <1>9, <1>10

LEMMA InsertChange ==
  ASSUME TypeOK, RequestsAreWhole, NEW h \in Handlers, InsertInvoice(h)
  PROVE  /\ \E q \in Request : Moves(h, q)
         /\ \/ UNCHANGED invoice
            \/ \E i \in InvoiceIds : Inserts(h, i)
<1>1. req[h] \in Request /\ RequestIsWhole(req[h]) /\ req[h].pc = "insert"
  BY DEF TypeOK, RequestsAreWhole, InsertInvoice
<1>2. CASE Done(h) /\ UNCHANGED invoice
  BY <1>2, DoneChange, IdleFacts
<1>3. ASSUME NEW i \in InvoiceIds, NEW parts \in Contents, IsNextId(i),
             invoice' = [invoice EXCEPT ![i] = NewInvoice(req[h], parts)],
             req' = [req EXCEPT ![h] =
                 IF req[h].kind # "create" THEN Idle
                 ELSE [@ EXCEPT !.invoice = i,
                          !.pc = IF NeedsSession(req[h].due, req[h].link)
                                 THEN "session" ELSE "mail"]]
      PROVE  \E q \in Request : Moves(h, q) /\ Inserts(h, i)
  <2>1. ASSUME req'[h].pc \notin {"number", "insert"} PROVE Inserts(h, i)
    BY <1>3, <1>1, <2>1 DEF Inserts, InsertInvoice, TypeOK
  <2>2. CASE req[h].kind # "create"
    <3>1. req' = [req EXCEPT ![h] = Idle]
      BY <1>3, <2>2
    <3>2. req'[h].pc \notin {"number", "insert"}
      BY <3>1 DEF TypeOK, Idle
    <3>q. QED BY <2>1, <3>1, <3>2, IdleFacts DEF Moves, Writes
  <2>3. CASE req[h].kind = "create"
    <3> DEFINE pc == IF NeedsSession(req[h].due, req[h].link) THEN "session" ELSE "mail"
               q == [req[h] EXCEPT !.invoice = i, !.pc = pc]
    <3>1. pc \in {"session", "mail"} OBVIOUS
    <3>2. req' = [req EXCEPT ![h] = q]
      BY <1>3, <2>3 DEF TypeOK
    <3> HIDE DEF pc
    <3>3. q \in Request
      BY <1>1, <3>1 DEF Request
    <3>4. /\ q.pc = pc /\ q.kind = "create" /\ q.invoice = i
          /\ q.session = req[h].session /\ req[h].session = None
      BY <1>1, <2>3 DEF Request, RequestIsWhole
    <3> HIDE DEF q
    <3>5. RequestIsWhole(q)
      BY <3>1, <3>4 DEF RequestIsWhole
    <3>6. Inserts(h, i)
      BY <2>1, <3>1, <3>2, <3>4 DEF TypeOK
    <3>7. InsertsFor(h, q)
      BY <2>3, <3>1, <3>4, <3>6 DEF InsertsFor
    <3>q. QED BY <3>7, <3>2, <3>3, <3>5, <3>6 DEF Moves, Writes
  <2>q. QED BY <2>2, <2>3
<1>q. QED BY <1>2, <1>3 DEF InsertInvoice

LEMMA OpenChange ==
  ASSUME TypeOK, RequestsAreWhole, NEW h \in Handlers, CreateSession(h)
  PROVE  /\ \E q \in Request : Moves(h, q)
         /\ \/ UNCHANGED session
            \/ \E q \in Request : Writes(h, q) /\ OpensFor(h, q)
<1>1. req[h] \in Request /\ RequestIsWhole(req[h]) /\ req[h].pc = "session"
  BY DEF TypeOK, RequestsAreWhole, CreateSession, CreateLink
<1>2. CASE Done(h) /\ UNCHANGED session
  BY <1>2, DoneChange, IdleFacts
<1>3. ASSUME NEW s \in SessionIds, IsNextSession(s),
             session' = [session EXCEPT ![s] =
                             [invoice |-> req[h].invoice, hook |-> "idle", state |-> "unsent"]],
             req' = [req EXCEPT ![h].pc = "record", ![h].session = s]
      PROVE  \E q \in Request : Writes(h, q) /\ OpensFor(h, q)
  <2> DEFINE q == [req[h] EXCEPT !.pc = "record", !.session = s]
  <2>1. req' = [req EXCEPT ![h] = q]
    BY <1>1, <1>3 DEF TypeOK, Request
  <2>2. q \in Request
    BY <1>1 DEF Request
  <2>3. /\ q.pc = "record" /\ q.session = s
        /\ q.kind = req[h].kind /\ q.user = req[h].user /\ q.invoice = req[h].invoice
    BY <1>1 DEF Request
  <2> HIDE DEF q
  <2>4. RequestIsWhole(q)
    BY <1>1, <2>3 DEF RequestIsWhole
  <2>5. OpensFor(h, q)
    BY <1>1, <1>3, <2>3 DEF OpensFor, IsNextSession, CreateSession, CreateLink
  <2>q. QED BY <2>1, <2>2, <2>4, <2>5 DEF Writes
<1>q. QED BY <1>2, <1>3 DEF CreateSession, CreateLink, Moves

(* Every step leaves the handlers alone, restarts them, or moves one.      *)
LEMMA RequestChange ==
  ASSUME TypeOK, RequestsAreWhole, Next
  PROVE  \/ UNCHANGED req
         \/ Restart
         \/ \E h \in Handlers, q \in Request : Moves(h, q)
<1>1. ASSUME NEW h \in Handlers,
             \/ FindNumber(h) \/ Publish(h) \/ RecordSession(h) \/ SendMail(h)
             \/ UpdateInvoice(h) \/ DeleteItems(h) \/ DeleteBusinessData(h)
             \/ DeleteRow(h) \/ RequestFails(h)
      PROVE  \E q \in Request : Moves(h, q)
  <2>1. Done(h) => \E q \in Request : Moves(h, q)
    BY DoneChange, IdleFacts
  <2>2. CASE FindNumber(h)
    BY <2>1, <2>2, StepChange DEF FindNumber
  <2>3. CASE Publish(h)
    BY <2>1, <2>3, StepChange DEF Publish
  <2>4. CASE RecordSession(h)
    BY <2>1, <2>4, StepChange DEF RecordSession
  <2>5. CASE SendMail(h) \/ UpdateInvoice(h) \/ DeleteRow(h) \/ RequestFails(h)
    BY <2>1, <2>5 DEF SendMail, UpdateInvoice, DeleteRow, RequestFails
  <2>6. CASE DeleteItems(h) \/ DeleteBusinessData(h)
    BY <2>6, StepChange DEF DeleteItems, DeleteBusinessData
  <2>q. QED BY <1>1, <2>2, <2>3, <2>4, <2>5, <2>6
<1>2. ASSUME NEW s \in SessionIds,
             CustomerPays(s) \/ SessionExpires(s) \/ WebhookStep(s) \/ WebhookFails(s)
      PROVE  UNCHANGED req
  BY <1>2 DEF CustomerPays, SessionExpires, WebhookStep, WebhookFind, WebhookMarkPaid,
              WebhookMarks, WebhookFails
<1>3. Tick => UNCHANGED req
  BY DEF Tick
<1>q. QED BY <1>1, <1>2, <1>3, BeginChange, InsertChange, OpenChange DEF Next

LEMMA WholeStep ==
  ASSUME TypeOK, RequestsAreWhole, [Next]_vars
  PROVE  req' \in [Handlers -> Request] /\ RequestsAreWhole'
<1>1. req \in [Handlers -> Request]
  BY DEF TypeOK
<1>2. CASE UNCHANGED req
  BY <1>1, <1>2 DEF RequestsAreWhole
<1>3. CASE Restart
  BY <1>3, IdleFacts DEF Restart, RequestsAreWhole
<1>4. ASSUME NEW h \in Handlers, NEW q \in Request, Moves(h, q)
      PROVE  req' \in [Handlers -> Request] /\ RequestsAreWhole'
  BY <1>1, <1>4 DEF Moves, Writes, RequestsAreWhole
<1>q. QED BY <1>2, <1>3, <1>4, RequestChange DEF vars

-----------------------------------------------------------------------------
(* The table of invoices: besides the insert, a row is overwritten or      *)
(* deleted.  Owner, day and origin stay, no invoice becomes a draft, and   *)
(* only a completed checkout makes one paid that awaits its payment.       *)
ClaimsPayment(row) == row.paidAt \/ (row.isPaid /\ row.links = {TRUE})

CheckedOut(i) == \E s \in SessionIds : Completed(s) /\ session[s].invoice = i

Overwrites(i, row) ==
    /\ Row(i) /\ row \in Invoice
    /\ invoice' = [invoice EXCEPT ![i] = row]
    /\ row.user = invoice[i].user /\ row.day = invoice[i].day
    /\ row.origin = invoice[i].origin
    /\ row.isDrafted => invoice[i].isDrafted
    /\ ClaimsPayment(row) => ClaimsPayment(invoice[i]) \/ CheckedOut(i)
    /\ UNCHANGED <<now, month, deleted>>

Deletes(i) ==
    /\ Row(i)
    /\ invoice' = [invoice EXCEPT ![i] = None]
    /\ deleted' = deleted \cup {i}
    /\ UNCHANGED <<now, month, session>>

LEMMA RowType ==
  ASSUME TypeOK, NEW i, Row(i)
  PROVE  i \in InvoiceIds /\ invoice[i] \in Invoice
  BY DEF TypeOK, Row

LEMMA PublishChange ==
  ASSUME TypeOK, NEW h \in Handlers, Publish(h), ~UNCHANGED invoice
  PROVE  \E i \in InvoiceIds, row \in Invoice : Overwrites(i, row)
<1> DEFINE i == req[h].invoice
           paid == PaidWhenPublished(req[h].due, req[h].link)
           old == invoice[i]
           links == old.links \cup {req[h].link}
           row == [old EXCEPT !.isDrafted = FALSE, !.isPaid = paid, !.links = links]
<1>1. Row(i) BY DEF Publish
<1>2. i \in InvoiceIds /\ old \in Invoice BY <1>1, RowType
<1>3. req[h].link \in BOOLEAN BY DEF TypeOK, Request
<1>4. paid \in BOOLEAN BY DEF PaidWhenPublished
<1>5. links \in SUBSET BOOLEAN BY <1>2, <1>3 DEF Invoice
<1>6. ~(paid /\ links = {TRUE})
  BY <1>3 DEF PaidWhenPublished
<1>7. invoice' = [invoice EXCEPT ![i].isDrafted = FALSE, ![i].isPaid = paid,
                                 ![i].links = @ \cup {req[h].link}]
  BY <1>1 DEF Publish
<1> HIDE DEF paid
<1>8. invoice' = [invoice EXCEPT ![i] = row]
  BY <1>2, <1>7 DEF TypeOK, Invoice
<1> HIDE DEF links
<1>9. /\ row \in Invoice
      /\ row.user = old.user /\ row.day = old.day /\ row.origin = old.origin
      /\ row.isDrafted = FALSE /\ row.paidAt = old.paidAt
      /\ row.isPaid = paid /\ row.links = links
  BY <1>2, <1>4, <1>5 DEF Invoice
<1> HIDE DEF row
<1>10. ClaimsPayment(row) => ClaimsPayment(old)
  BY <1>6, <1>9 DEF ClaimsPayment
<1>q. QED BY <1>1, <1>2, <1>8, <1>9, <1>10 DEF Overwrites, Publish

LEMMA RecordChange ==
  ASSUME TypeOK, RequestsAreWhole, NEW h \in Handlers, RecordSession(h), ~UNCHANGED invoice
  PROVE  \E i \in InvoiceIds, row \in Invoice : Overwrites(i, row)
<1> DEFINE i == req[h].invoice
           row == [invoice[i] EXCEPT !.stripeSessionId = req[h].session, !.isPaid = FALSE]
<1>1. Row(i) BY DEF RecordSession
<1>2. i \in InvoiceIds /\ invoice[i] \in Invoice BY <1>1, RowType
<1>3. req[h].session \in SessionIds
  BY DEF RecordSession, RequestsAreWhole, RequestIsWhole
<1>4. invoice' = [invoice EXCEPT ![i] = row]
  BY <1>1, <1>2 DEF RecordSession, TypeOK, Invoice
<1>5. /\ row \in Invoice
      /\ row.user = invoice[i].user /\ row.day = invoice[i].day
      /\ row.origin = invoice[i].origin /\ row.isDrafted = invoice[i].isDrafted
      /\ row.paidAt = invoice[i].paidAt /\ row.isPaid = FALSE
  BY <1>2, <1>3 DEF Invoice
<1> HIDE DEF row
<1>6. ClaimsPayment(row) => ClaimsPayment(invoice[i])
  BY <1>5 DEF ClaimsPayment
<1>q. QED BY <1>1, <1>2, <1>4, <1>5, <1>6 DEF Overwrites, RecordSession

LEMMA UpdateChange ==
  ASSUME TypeOK, RequestsAreWhole, NEW h \in Handlers, UpdateInvoice(h), ~UNCHANGED invoice
  PROVE  \E i \in InvoiceIds, row \in Invoice : Overwrites(i, row)
<1> DEFINE i == req[h].invoice
<1>1. Row(i) BY DEF UpdateInvoice
<1>2. i \in InvoiceIds /\ invoice[i] \in Invoice BY <1>1, RowType
<1>3. req[h].no \in Numbers /\ req[h].due \in Nat \cup {None}
  BY DEF UpdateInvoice, RequestsAreWhole, RequestIsWhole, TypeOK, Request
<1>4. PICK parts \in Contents :
         invoice' = [invoice EXCEPT ![i].no = req[h].no, ![i].due = req[h].due,
                                    ![i].parts = @ \cup parts]
  BY DEF UpdateInvoice
<1> DEFINE row == [invoice[i] EXCEPT !.no = req[h].no, !.due = req[h].due,
                                     !.parts = invoice[i].parts \cup parts]
<1>5. invoice' = [invoice EXCEPT ![i] = row]
  BY <1>2, <1>4 DEF TypeOK, Invoice
<1>6. parts \in SUBSET Parts BY InvoiceAssumption
<1>7. /\ row \in Invoice
      /\ row.user = invoice[i].user /\ row.day = invoice[i].day
      /\ row.origin = invoice[i].origin /\ row.isDrafted = invoice[i].isDrafted
      /\ row.paidAt = invoice[i].paidAt /\ row.isPaid = invoice[i].isPaid
      /\ row.links = invoice[i].links
  BY <1>2, <1>3, <1>6 DEF Invoice
<1> HIDE DEF row
<1>8. ClaimsPayment(row) => ClaimsPayment(invoice[i])
  BY <1>7 DEF ClaimsPayment
<1>q. QED BY <1>1, <1>2, <1>5, <1>7, <1>8 DEF Overwrites, UpdateInvoice

LEMMA PartsChange ==
  ASSUME TypeOK, NEW h \in Handlers, DeleteItems(h) \/ DeleteBusinessData(h),
         ~UNCHANGED invoice
  PROVE  \E i \in InvoiceIds, row \in Invoice : Overwrites(i, row)
<1> DEFINE i == req[h].invoice
<1>1. Row(i) BY DEF DeleteItems, DeleteBusinessData
<1>2. i \in InvoiceIds /\ invoice[i] \in Invoice BY <1>1, RowType
<1>3. PICK p \in {"items", "data"} :
         invoice' = [invoice EXCEPT ![i].parts = @ \ {p}]
  BY <1>1 DEF DeleteItems, DeleteBusinessData
<1> DEFINE row == [invoice[i] EXCEPT !.parts = @ \ {p}]
<1>4. invoice' = [invoice EXCEPT ![i] = row]
  BY <1>2, <1>3 DEF TypeOK, Invoice
<1>5. /\ row \in Invoice
      /\ row.user = invoice[i].user /\ row.day = invoice[i].day
      /\ row.origin = invoice[i].origin /\ row.isDrafted = invoice[i].isDrafted
      /\ row.paidAt = invoice[i].paidAt /\ row.isPaid = invoice[i].isPaid
      /\ row.links = invoice[i].links
  BY <1>2 DEF Invoice
<1> HIDE DEF row
<1>6. ClaimsPayment(row) => ClaimsPayment(invoice[i])
  BY <1>5 DEF ClaimsPayment
<1>q. QED BY <1>1, <1>2, <1>4, <1>5, <1>6 DEF Overwrites, DeleteItems, DeleteBusinessData

LEMMA MarkChange ==
  ASSUME TypeOK, HooksFollowPayment, NEW s \in SessionIds, WebhookMarkPaid(s),
         ~UNCHANGED invoice
  PROVE  \E i \in InvoiceIds, row \in Invoice : Overwrites(i, row)
<1> DEFINE i == session[s].invoice
           row == [invoice[i] EXCEPT !.isPaid = TRUE, !.paidAt = TRUE, !.stripeSessionId = s]
<1>1. Row(i) BY DEF WebhookMarkPaid, WebhookMarks
<1>2. i \in InvoiceIds /\ invoice[i] \in Invoice BY <1>1, RowType
<1>3. invoice' = [invoice EXCEPT ![i] = row]
  BY <1>1, <1>2 DEF WebhookMarkPaid, WebhookMarks, TypeOK, Invoice
<1>4. /\ row \in Invoice
      /\ row.user = invoice[i].user /\ row.day = invoice[i].day
      /\ row.origin = invoice[i].origin /\ row.isDrafted = invoice[i].isDrafted
  BY <1>2 DEF Invoice
<1> HIDE DEF row
<1>5. CheckedOut(i)
  BY DEF CheckedOut, Completed, HooksFollowPayment, WebhookMarkPaid, WebhookMarks
<1>q. QED BY <1>1, <1>2, <1>3, <1>4, <1>5 DEF Overwrites, WebhookMarkPaid, WebhookMarks

LEMMA InvoiceChange ==
  ASSUME TypeOK, RequestsAreWhole, HooksFollowPayment, Next
  PROVE  \/ UNCHANGED <<invoice, deleted>>
         \/ \E h \in Handlers, i \in InvoiceIds : Inserts(h, i)
         \/ \E i \in InvoiceIds, row \in Invoice : Overwrites(i, row)
         \/ \E i \in InvoiceIds : Deletes(i)
<1>1. ASSUME NEW h \in Handlers, NEW u \in Users, Create(h, u) \/ SaveToDraft(h, u)
      PROVE  UNCHANGED <<invoice, deleted>>
  BY <1>1 DEF Create, SaveToDraft
<1>2. ASSUME NEW h \in Handlers, NEW u \in Users, NEW i \in InvoiceIds,
             Update(h, u, i) \/ Delete(h, u, i)
      PROVE  UNCHANGED <<invoice, deleted>>
  BY <1>2 DEF Update, Delete
<1>3. ASSUME NEW h \in Handlers, NEW i \in InvoiceIds,
             DraftToInvoice(h, i) \/ DeleteFromDraft(h, i)
      PROVE  UNCHANGED <<invoice, deleted>>
  BY <1>3 DEF DraftToInvoice, DeleteFromDraft
<1>4. ASSUME NEW h \in Handlers,
             FindNumber(h) \/ CreateSession(h) \/ SendMail(h) \/ RequestFails(h)
      PROVE  UNCHANGED <<invoice, deleted>>
  BY <1>4 DEF FindNumber, CreateSession, CreateLink, SendMail, RequestFails
<1>5. ASSUME NEW h \in Handlers, InsertInvoice(h)
      PROVE  UNCHANGED <<invoice, deleted>> \/ \E i \in InvoiceIds : Inserts(h, i)
  BY <1>5, InsertChange DEF InsertInvoice
<1>6. ASSUME NEW h \in Handlers, DeleteRow(h)
      PROVE  UNCHANGED <<invoice, deleted>> \/ \E i \in InvoiceIds : Deletes(i)
  BY <1>6 DEF DeleteRow, Deletes, Row
<1>7. ASSUME NEW h \in Handlers,
             \/ Publish(h) \/ RecordSession(h) \/ UpdateInvoice(h)
             \/ DeleteItems(h) \/ DeleteBusinessData(h)
      PROVE  \/ UNCHANGED <<invoice, deleted>>
             \/ \E i \in InvoiceIds, row \in Invoice : Overwrites(i, row)
  <2>1. UNCHANGED deleted
    BY <1>7 DEF Publish, RecordSession, UpdateInvoice, DeleteItems, DeleteBusinessData
  <2>q. QED BY <1>7, <2>1, PublishChange, RecordChange, UpdateChange, PartsChange
<1>8. ASSUME NEW s \in SessionIds, WebhookMarkPaid(s)
      PROVE  \/ UNCHANGED <<invoice, deleted>>
             \/ \E i \in InvoiceIds, row \in Invoice : Overwrites(i, row)
  BY <1>8, MarkChange DEF WebhookMarkPaid, WebhookMarks
<1>9. ASSUME NEW s \in SessionIds,
             CustomerPays(s) \/ SessionExpires(s) \/ WebhookFind(s) \/ WebhookFails(s)
      PROVE  UNCHANGED <<invoice, deleted>>
  BY <1>9 DEF CustomerPays, SessionExpires, WebhookFind, WebhookFails
<1>10. CASE Restart \/ Tick
  BY <1>10 DEF Restart, Tick
<1>q. QED BY <1>1, <1>2, <1>3, <1>4, <1>5, <1>6, <1>7, <1>8, <1>9, <1>10
          DEF Next, WebhookStep

-----------------------------------------------------------------------------
(* The sessions: one is opened, by OpensFor, or turns to another state.  A *)
(* completed one stays completed, and only the mail of its handler sends   *)
(* it.                                                                     *)
Turns(s, row) ==
    /\ session[s] # None /\ row \in Session
    /\ session' = [session EXCEPT ![s] = row]
    /\ row.invoice = session[s].invoice
    /\ Completed(s) => row.state \in {"paid", "done", "failed"}
    /\ row.hook = "found" => row.state \in {"paid", "done"}
    /\ session[s].state = "unsent" =>
         \/ row.state = "unsent"
         \/ \E h \in Handlers : /\ req[h].pc = "mail" /\ req[h].session = s
                                /\ req' = [req EXCEPT ![h] = Idle]

LEMMA SessionType ==
  ASSUME TypeOK, NEW s \in SessionIds, session[s] # None
  PROVE  session[s] \in Session
  BY DEF TypeOK

LEMMA MailChange ==
  ASSUME TypeOK, SessionsAreTheHandlers, HooksFollowPayment,
         NEW h \in Handlers, SendMail(h), ~UNCHANGED session
  PROVE  \E s \in SessionIds, row \in Session : Turns(s, row)
<1> DEFINE s == req[h].session
           state == IF session[s].state = "unsent" THEN "open" ELSE session[s].state
           row == [session[s] EXCEPT !.state = state]
<1>1. s \in SessionIds /\ session[s] # None
  BY DEF SendMail, TypeOK, Request, SessionsAreTheHandlers
<1>2. session[s] \in Session BY <1>1, SessionType
<1>3. session' = [session EXCEPT ![s] = row]
  BY <1>1, <1>2 DEF SendMail, TypeOK, Session
<1>4. state \in {"unsent", "open", "expired", "paid", "done", "failed"}
  BY <1>2 DEF Session
<1>5. session[s].state # "unsent" => state = session[s].state
  OBVIOUS
<1> HIDE DEF state
<1>6. /\ row \in Session /\ row.invoice = session[s].invoice
      /\ row.hook = session[s].hook /\ row.state = state
  BY <1>2, <1>4 DEF Session
<1> HIDE DEF row
<1>7. req' = [req EXCEPT ![h] = Idle] /\ req[h].pc = "mail"
  BY DEF SendMail, Done
<1>8. Completed(s) => row.state \in {"paid", "done", "failed"}
  BY <1>5, <1>6 DEF Completed
<1>9. row.hook = "found" => row.state \in {"paid", "done"}
  BY <1>1, <1>5, <1>6 DEF HooksFollowPayment
<1>q. QED BY <1>1, <1>3, <1>6, <1>7, <1>8, <1>9 DEF Turns

LEMMA CheckoutChange ==
  ASSUME TypeOK, HooksFollowPayment, NEW s \in SessionIds,
         \/ CustomerPays(s) \/ SessionExpires(s)
         \/ WebhookStep(s) \/ WebhookFails(s)
  PROVE  \E row \in Session : Turns(s, row)
<1>1. session[s] # None /\ session[s] \in Session
  BY SessionType DEF CustomerPays, SessionExpires, WebhookStep, WebhookFind,
                     WebhookMarkPaid, WebhookMarks, WebhookFails
<1>2. ASSUME NEW hook \in {"idle", "found"},
             NEW state \in {"expired", "paid", "done", "failed"},
             session' = [session EXCEPT ![s] =
                           [session[s] EXCEPT !.hook = hook, !.state = state]],
             Completed(s) => state \in {"paid", "done", "failed"},
             hook = "found" => state \in {"paid", "done"},
             session[s].state # "unsent"
      PROVE  \E row \in Session : Turns(s, row)
  <2> DEFINE row == [session[s] EXCEPT !.hook = hook, !.state = state]
  <2>1. /\ row \in Session /\ row.invoice = session[s].invoice
        /\ row.hook = hook /\ row.state = state
    BY <1>1, <1>2 DEF Session
  <2>2. session' = [session EXCEPT ![s] = row] BY <1>2
  <2> HIDE DEF row
  <2>q. QED BY <1>1, <1>2, <2>1, <2>2 DEF Turns
<1>3. session \in [SessionIds -> Session \cup {None}] BY DEF TypeOK
<1>4. ASSUME CustomerPays(s) PROVE \E row \in Session : Turns(s, row)
  <2>1. session' = [session EXCEPT ![s] =
                      [session[s] EXCEPT !.hook = session[s].hook, !.state = "paid"]]
    BY <1>1, <1>3, <1>4 DEF CustomerPays, Session
  <2>2. session[s].hook \in {"idle", "found"} /\ session[s].state = "open"
    BY <1>1, <1>4 DEF CustomerPays, Session
  <2>q. QED BY <1>1, <1>2, <2>1, <2>2 DEF Completed
<1>5. ASSUME SessionExpires(s) PROVE \E row \in Session : Turns(s, row)
  <2>1. session' = [session EXCEPT ![s] =
                      [session[s] EXCEPT !.hook = session[s].hook, !.state = "expired"]]
    BY <1>1, <1>3, <1>5 DEF SessionExpires, Session
  <2>2. session[s].hook \in {"idle", "found"} /\ session[s].state = "open"
    BY <1>1, <1>5 DEF SessionExpires, Session
  <2>3. session[s].hook # "found"
    BY <1>1, <2>2 DEF HooksFollowPayment
  <2>q. QED BY <1>1, <1>2, <2>1, <2>2, <2>3 DEF Completed
<1>6. ASSUME WebhookFind(s) PROVE \E row \in Session : Turns(s, row)
  <2>1. session[s].hook = "idle" /\ session[s].state \in {"paid", "done"}
    BY <1>6 DEF WebhookFind
  <2>2. CASE Row(session[s].invoice)
    <3>1. session' = [session EXCEPT ![s] =
                        [session[s] EXCEPT !.hook = "found", !.state = session[s].state]]
      BY <1>1, <1>3, <1>6, <2>2 DEF WebhookFind, Session
    <3>q. QED BY <1>2, <2>1, <3>1
  <2>3. CASE ~Row(session[s].invoice)
    <3>1. session' = [session EXCEPT ![s] =
                        [session[s] EXCEPT !.hook = "idle", !.state = "done"]]
      BY <1>1, <1>3, <1>6, <2>1, <2>3 DEF WebhookFind, Session
    <3>q. QED BY <1>2, <2>1, <3>1
  <2>q. QED BY <2>2, <2>3
<1>7. ASSUME WebhookMarkPaid(s) PROVE \E row \in Session : Turns(s, row)
  <2>1. PICK state \in {"done", "failed"} :
          session' = [session EXCEPT ![s].hook = "idle", ![s].state = state]
    BY <1>7 DEF WebhookMarkPaid, WebhookMarks
  <2>2. session' = [session EXCEPT ![s] =
                      [session[s] EXCEPT !.hook = "idle", !.state = state]]
    BY <1>1, <1>3, <2>1 DEF Session
  <2>3. session[s].state \in {"paid", "done"}
    BY <1>7 DEF WebhookMarkPaid, WebhookMarks, HooksFollowPayment
  <2>q. QED BY <1>2, <2>2, <2>3
<1>8. ASSUME WebhookFails(s) PROVE \E row \in Session : Turns(s, row)
  <2>1. session' = [session EXCEPT ![s] =
                      [session[s] EXCEPT !.hook = "idle", !.state = "failed"]]
    BY <1>1, <1>3, <1>8 DEF WebhookFails, Session
  <2>2. session[s].state = "paid"
    BY <1>8 DEF WebhookFails
  <2>q. QED BY <1>2, <2>1, <2>2
<1>q. QED BY <1>4, <1>5, <1>6, <1>7, <1>8 DEF WebhookStep

LEMMA SessionChange ==
  ASSUME TypeOK, RequestsAreWhole, SessionsAreTheHandlers, HooksFollowPayment, Next
  PROVE  \/ UNCHANGED session
         \/ Restart
         \/ \E h \in Handlers, q \in Request : Writes(h, q) /\ OpensFor(h, q)
         \/ \E s \in SessionIds, row \in Session : Turns(s, row)
<1>1. ASSUME NEW h \in Handlers, NEW u \in Users, Create(h, u) \/ SaveToDraft(h, u)
      PROVE  UNCHANGED session
  BY <1>1 DEF Create, SaveToDraft
<1>2. ASSUME NEW h \in Handlers, NEW u \in Users, NEW i \in InvoiceIds,
             Update(h, u, i) \/ Delete(h, u, i)
      PROVE  UNCHANGED session
  BY <1>2 DEF Update, Delete
<1>3. ASSUME NEW h \in Handlers, NEW i \in InvoiceIds,
             DraftToInvoice(h, i) \/ DeleteFromDraft(h, i)
      PROVE  UNCHANGED session
  BY <1>3 DEF DraftToInvoice, DeleteFromDraft
<1>4. ASSUME NEW h \in Handlers,
             \/ FindNumber(h) \/ InsertInvoice(h) \/ Publish(h) \/ RecordSession(h)
             \/ UpdateInvoice(h) \/ DeleteItems(h) \/ DeleteBusinessData(h)
             \/ DeleteRow(h) \/ RequestFails(h)
      PROVE  UNCHANGED session
  BY <1>4 DEF FindNumber, InsertInvoice, Publish, RecordSession, UpdateInvoice,
              DeleteItems, DeleteBusinessData, DeleteRow, RequestFails
<1>5. Tick => UNCHANGED session
  BY DEF Tick
<1>q. QED BY <1>1, <1>2, <1>3, <1>4, <1>5, OpenChange, MailChange, CheckoutChange DEF Next

-----------------------------------------------------------------------------
(* Only the clock moves the time, by a day, and at the end of the month    *)
(* the month.                                                              *)
LEMMA TimeChange ==
  ASSUME TypeOK, [Next]_vars
  PROVE  /\ now' \in 0..MaxTime /\ month' \in 0..now' /\ faults' \in 0..MaxFaults
         /\ now <= now'
         /\ UNCHANGED month \/ (Tick /\ month' = now + 1)
<1>1. /\ now \in Nat /\ month \in Nat /\ faults \in Nat
      /\ now <= MaxTime /\ month <= now /\ faults <= MaxFaults
      /\ MaxTime \in Nat /\ MaxFaults \in Nat
  BY InvoiceAssumption DEF TypeOK
<1>2. ASSUME NEW h \in Handlers, NEW u \in Users, Create(h, u) \/ SaveToDraft(h, u)
      PROVE  UNCHANGED <<now, month, faults>>
  BY <1>2 DEF Create, SaveToDraft
<1>3. ASSUME NEW h \in Handlers, NEW u \in Users, NEW i \in InvoiceIds,
             Update(h, u, i) \/ Delete(h, u, i)
      PROVE  UNCHANGED <<now, month, faults>>
  BY <1>3 DEF Update, Delete
<1>4. ASSUME NEW h \in Handlers, NEW i \in InvoiceIds,
             DraftToInvoice(h, i) \/ DeleteFromDraft(h, i)
      PROVE  UNCHANGED <<now, month, faults>>
  BY <1>4 DEF DraftToInvoice, DeleteFromDraft
<1>5. ASSUME NEW h \in Handlers,
             \/ FindNumber(h) \/ InsertInvoice(h) \/ Publish(h) \/ CreateSession(h)
             \/ RecordSession(h) \/ SendMail(h) \/ UpdateInvoice(h) \/ DeleteItems(h)
             \/ DeleteBusinessData(h) \/ DeleteRow(h)
      PROVE  UNCHANGED <<now, month, faults>>
  BY <1>5 DEF FindNumber, InsertInvoice, Publish, CreateSession, CreateLink, RecordSession,
              SendMail, UpdateInvoice, DeleteItems, DeleteBusinessData, DeleteRow
<1>6. ASSUME NEW h \in Handlers, RequestFails(h)
      PROVE  UNCHANGED <<now, month>> /\ faults' \in 0..MaxFaults
  BY <1>1, <1>6 DEF RequestFails
<1>7. ASSUME NEW s \in SessionIds,
             CustomerPays(s) \/ SessionExpires(s) \/ WebhookMarkPaid(s)
      PROVE  UNCHANGED <<now, month, faults>>
  BY <1>7 DEF CustomerPays, SessionExpires, WebhookMarkPaid, WebhookMarks
<1>8. ASSUME NEW s \in SessionIds, WebhookFind(s) \/ WebhookFails(s)
      PROVE  UNCHANGED <<now, month>> /\ faults' \in 0..MaxFaults
  BY <1>1, <1>8 DEF WebhookFind, WebhookFails
<1>9. CASE Restart
  BY <1>1, <1>9 DEF Restart
<1>10. CASE Tick
  BY <1>1, <1>10 DEF Tick
<1>11. CASE UNCHANGED <<now, month, faults>>
  BY <1>1, <1>11
<1>12. CASE UNCHANGED <<now, month>> /\ faults' \in 0..MaxFaults
  BY <1>1, <1>12
<1>q. QED BY <1>2, <1>3, <1>4, <1>5, <1>6, <1>7, <1>8, <1>9, <1>10, <1>11, <1>12
          DEF Next, WebhookStep, vars

(* What holds at all times of ids, rows and sessions.                      *)
LEMMA InsertedType ==
  ASSUME TypeOK, RequestsAreWhole, NEW h \in Handlers, NEW i \in InvoiceIds,
         Inserts(h, i)
  PROVE  \E row \in Invoice :
            /\ invoice' = [invoice EXCEPT ![i] = row]
            /\ row.user = req[h].user /\ row.day = now /\ row.origin = req[h].kind
            /\ row.origin = "create" => ~row.isDrafted
            /\ ~ClaimsPayment(row)
            /\ ~WasInserted(i)
<1>1. PICK parts \in Contents : invoice' = [invoice EXCEPT ![i] = NewInvoice(req[h], parts)]
  BY DEF Inserts
<1>2. req[h] \in Request /\ RequestIsWhole(req[h]) /\ req[h].pc = "insert" /\ now \in Nat
  BY DEF TypeOK, RequestsAreWhole, Inserts
<1>3. ~WasInserted(i)
  BY DEF Inserts, IsNextId, WasInserted, Row
<1>4. ~ClaimsPayment(NewInvoice(req[h], parts))
  BY <1>2, NewInvoiceType DEF ClaimsPayment
<1>q. QED BY <1>1, <1>2, <1>3, <1>4, NewInvoiceType

Kept(i) ==
    /\ WasInserted(i)'
    /\ Row(i)' => /\ Row(i)
                  /\ invoice'[i].user = invoice[i].user
                  /\ invoice'[i].day = invoice[i].day
                  /\ invoice'[i].origin = invoice[i].origin
                  /\ invoice'[i].isDrafted => invoice[i].isDrafted
                  /\ ClaimsPayment(invoice'[i]) => ClaimsPayment(invoice[i]) \/ CheckedOut(i)

LEMMA RowsAreKept ==
  ASSUME TypeOK, RequestsAreWhole, HooksFollowPayment, [Next]_vars,
         NEW i \in InvoiceIds, WasInserted(i)
  PROVE  Kept(i)
<1>t. invoice \in [InvoiceIds -> Invoice \cup {None}]
      /\ deleted \subseteq {j \in InvoiceIds : invoice[j] = None}
  BY DEF TypeOK
<1>1. CASE UNCHANGED <<invoice, deleted>>
  BY <1>1 DEF Kept, WasInserted, Row
<1>2. ASSUME NEW h \in Handlers, NEW j \in InvoiceIds, Inserts(h, j)
      PROVE  UNCHANGED deleted /\ invoice'[i] = invoice[i]
  BY <1>2, <1>t, InsertedType DEF Inserts
<1>3. ASSUME NEW j \in InvoiceIds, NEW row \in Invoice, Overwrites(j, row), j # i
      PROVE  UNCHANGED deleted /\ invoice'[i] = invoice[i]
  BY <1>3, <1>t DEF Overwrites
<1>4. ASSUME UNCHANGED deleted, invoice'[i] = invoice[i]
      PROVE  Kept(i)
  BY <1>4 DEF Kept, WasInserted, Row
<1>5. ASSUME NEW row \in Invoice, Overwrites(i, row) PROVE Kept(i)
  <2>1. invoice'[i] = row
    BY <1>5, <1>t DEF Overwrites
  <2>q. QED BY <1>5, <2>1, NoneAssumption DEF Kept, Overwrites, WasInserted, Row
<1>6. ASSUME NEW j \in InvoiceIds, Deletes(j) PROVE Kept(i)
  BY <1>6, <1>t DEF Kept, Deletes, WasInserted, Row
<1>q. QED BY <1>1, <1>2, <1>3, <1>4, <1>5, <1>6, InvoiceChange DEF vars

(* A row that was not there before is inserted.                            *)
LEMMA NewRow ==
  ASSUME TypeOK, RequestsAreWhole, HooksFollowPayment, [Next]_vars,
         NEW i \in InvoiceIds, ~WasInserted(i), Row(i)'
  PROVE  \E h \in Handlers : Inserts(h, i)
<1>1. invoice[i] = None BY DEF WasInserted, Row
<1>2. \A h \in Handlers, j \in InvoiceIds : Inserts(h, j) => j = i
  BY <1>1, InsertedType DEF Row, TypeOK
<1>3. \A j \in InvoiceIds, row \in Invoice : ~Overwrites(j, row)
  BY <1>1 DEF Overwrites, Row, TypeOK
<1>4. \A j \in InvoiceIds : ~Deletes(j)
  BY <1>1 DEF Deletes, Row, TypeOK
<1>q. QED BY <1>1, <1>2, <1>3, <1>4, InvoiceChange DEF vars, Row

(* A session keeps its invoice and stays completed.                        *)
LEMMA SessionsGrow ==
  ASSUME TypeOK, RequestsAreWhole, SessionsAreTheHandlers, HooksFollowPayment, [Next]_vars,
         NEW s \in SessionIds, session[s] # None
  PROVE  /\ session'[s] # None
         /\ session'[s].invoice = session[s].invoice
         /\ Completed(s) => Completed(s)'
<1>t. session \in [SessionIds -> Session \cup {None}] BY DEF TypeOK
<1>1. CASE UNCHANGED session
  BY <1>1 DEF Completed
<1>2. CASE Restart
  <2>1. session'[s] = [session[s] EXCEPT !.hook = "idle"]
    BY <1>2 DEF Restart
  <2>2. /\ session'[s] \in Session
        /\ session'[s].invoice = session[s].invoice
        /\ session'[s].state = session[s].state
    BY <1>t, <2>1 DEF Session
  <2>q. QED BY <2>2, NoneAssumption DEF Completed
<1>3. ASSUME NEW h \in Handlers, NEW q \in Request, OpensFor(h, q)
      PROVE  session'[s] = session[s]
  BY <1>3, <1>t DEF OpensFor
<1>4. ASSUME NEW t \in SessionIds, NEW row \in Session, Turns(t, row)
      PROVE  /\ session'[s] # None
             /\ session'[s].invoice = session[s].invoice
             /\ Completed(s) => Completed(s)'
  <2>1. CASE t # s
    <3>1. session'[s] = session[s]
      BY <1>4, <1>t, <2>1 DEF Turns
    <3>q. QED BY <3>1 DEF Completed
  <2>2. CASE t = s
    <3>1. session'[s] = row
      BY <1>4, <1>t, <2>2 DEF Turns
    <3>q. QED BY <1>4, <2>2, <3>1, NoneAssumption DEF Turns, Completed
  <2>q. QED BY <2>1, <2>2
<1>q. QED BY <1>1, <1>2, <1>3, <1>4, SessionChange DEF vars, Completed

(* The session a handler opens.                                            *)
LEMMA OpenedSession ==
  ASSUME TypeOK, NEW h \in Handlers, NEW q \in Request, Writes(h, q), OpensFor(h, q)
  PROVE  LET row == [invoice |-> q.invoice, hook |-> "idle", state |-> "unsent"]
         IN  /\ row \in Session /\ row # None
             /\ q.invoice \in InvoiceIds
             /\ session' = [session EXCEPT ![q.session] = row]
<1>1. q.invoice \in InvoiceIds
  BY DEF Writes, RequestIsWhole, OpensFor
<1>2. [invoice |-> q.invoice, hook |-> "idle", state |-> "unsent"] \in Session
  BY <1>1 DEF Session
<1>q. QED BY <1>1, <1>2, NoneAssumption DEF OpensFor

-----------------------------------------------------------------------------
(* Each part of the invariant is kept.                                     *)
LEMMA TypeStep ==
  ASSUME TypeOK, RequestsAreWhole, SessionsAreTheHandlers, HooksFollowPayment, [Next]_vars
  PROVE  TypeOK'
<1>t. /\ invoice \in [InvoiceIds -> Invoice \cup {None}]
      /\ session \in [SessionIds -> Session \cup {None}]
      /\ deleted \subseteq {i \in InvoiceIds : invoice[i] = None}
  BY DEF TypeOK
<1>1. /\ invoice' \in [InvoiceIds -> Invoice \cup {None}]
      /\ deleted' \subseteq {i \in InvoiceIds : invoice'[i] = None}
  <2> DEFINE Goal == /\ invoice' \in [InvoiceIds -> Invoice \cup {None}]
                     /\ deleted' \subseteq {i \in InvoiceIds : invoice'[i] = None}
  <2>1. CASE UNCHANGED <<invoice, deleted>>
    BY <1>t, <2>1
  <2>2. ASSUME NEW h \in Handlers, NEW i \in InvoiceIds, Inserts(h, i) PROVE Goal
    <3>1. PICK row \in Invoice :
            invoice' = [invoice EXCEPT ![i] = row] /\ ~WasInserted(i)
      BY <2>2, InsertedType
    <3>2. UNCHANGED deleted BY <2>2 DEF Inserts
    <3>3. i \notin deleted BY <3>1 DEF WasInserted
    <3>q. QED BY <1>t, <3>1, <3>2, <3>3
  <2>3. ASSUME NEW i \in InvoiceIds, NEW row \in Invoice, Overwrites(i, row) PROVE Goal
    BY <1>t, <2>3 DEF Overwrites, Row
  <2>4. ASSUME NEW i \in InvoiceIds, Deletes(i) PROVE Goal
    BY <1>t, <2>4 DEF Deletes
  <2>q. QED BY <2>1, <2>2, <2>3, <2>4, InvoiceChange DEF vars
<1>2. session' \in [SessionIds -> Session \cup {None}]
  <2>1. CASE Restart
    <3>1. \A s \in SessionIds : session[s] \in Session =>
            [session[s] EXCEPT !.hook = "idle"] \in Session
      BY DEF Session
    <3>2. session' = [s \in SessionIds |->
                        IF session[s] = None THEN None ELSE [session[s] EXCEPT !.hook = "idle"]]
      BY <2>1 DEF Restart
    <3>q. QED BY <1>t, <3>1, <3>2
  <2>2. ASSUME NEW h \in Handlers, NEW q \in Request, Writes(h, q), OpensFor(h, q)
        PROVE  session' \in [SessionIds -> Session \cup {None}]
    BY <1>t, <2>2, OpenedSession
  <2>3. ASSUME NEW s \in SessionIds, NEW row \in Session, Turns(s, row)
        PROVE  session' \in [SessionIds -> Session \cup {None}]
    BY <1>t, <2>3 DEF Turns
  <2>q. QED BY <1>t, <2>1, <2>2, <2>3, SessionChange DEF vars
<1>q. QED BY <1>1, <1>2, TimeChange, WholeStep DEF TypeOK

LEMMA PastStep ==
  ASSUME TypeOK, RequestsAreWhole, HooksFollowPayment, RowsAreOfThePast, [Next]_vars
  PROVE  RowsAreOfThePast'
<1> SUFFICES ASSUME NEW i \in InvoiceIds, Row(i)' PROVE invoice'[i].day <= now'
  BY DEF RowsAreOfThePast
<1>1. now \in Nat /\ now' \in Nat /\ now <= now'
  BY TimeChange, InvoiceAssumption DEF TypeOK
<1>2. CASE WasInserted(i)
  <2>1. Row(i) /\ invoice'[i].day = invoice[i].day
    BY <1>2, RowsAreKept DEF Kept
  <2>2. invoice[i].day \in Nat /\ invoice[i].day <= now
    BY <2>1, RowType DEF Invoice, RowsAreOfThePast
  <2>q. QED BY <1>1, <2>1, <2>2
<1>3. CASE ~WasInserted(i)
  <2>1. PICK h \in Handlers : Inserts(h, i)
    BY <1>3, NewRow
  <2>2. invoice'[i].day = now
    BY <2>1, InsertedType DEF TypeOK
  <2>q. QED BY <1>1, <2>2
<1>q. QED BY <1>2, <1>3

(* What a handler carries was there before, except what it just made.      *)
LEMMA HandlerKeeps ==
  ASSUME TypeOK, RequestsAreWhole, [Next]_vars, NEW h \in Handlers
  PROVE  \/ req'[h] = Idle
         \/ req'[h] = req[h]
         \/ Begins(h, req'[h])
         \/ Continues(h, req'[h])
         \/ InsertsFor(h, req'[h])
         \/ Writes(h, req'[h]) /\ OpensFor(h, req'[h])
<1>1. CASE UNCHANGED req
  BY <1>1
<1>2. CASE Restart
  BY <1>2 DEF Restart
<1>3. ASSUME NEW g \in Handlers, NEW q \in Request, Moves(g, q)
      PROVE  req'[h] = req[h] \/ (req'[h] = q /\ Moves(h, q))
  BY <1>3 DEF Moves, Writes, TypeOK
<1>q. QED BY <1>1, <1>2, <1>3, RequestChange DEF vars, Moves

LEMMA ReferencesStep ==
  ASSUME IInv, [Next]_vars
  PROVE  ReferencesWereInserted'
<1>t. TypeOK /\ RequestsAreWhole /\ SessionsAreTheHandlers /\ HooksFollowPayment
      /\ ReferencesWereInserted
  BY DEF IInv
<1>0. ASSUME NEW i, WasInserted(i) PROVE WasInserted(i)'
  <2>1. i \in InvoiceIds BY <1>0, <1>t DEF WasInserted, Row, TypeOK
  <2>q. QED BY <1>0, <1>t, <2>1, RowsAreKept DEF Kept
<1>1. ASSUME NEW h \in Handlers, req'[h].invoice # None
      PROVE  WasInserted(req[h].invoice)'
  <2>1. CASE req'[h] = Idle
    BY <1>1, <2>1 DEF Idle
  <2>2. CASE req'[h].invoice = req[h].invoice
    BY <1>0, <1>1, <1>t, <2>2 DEF ReferencesWereInserted
  <2>3. CASE Begins(h, req'[h])
    BY <1>0, <1>1, <2>3 DEF Begins, WasInserted
  <2>4. CASE InsertsFor(h, req'[h])
    <3>1. Inserts(h, req'[h].invoice) /\ req'[h].invoice \in InvoiceIds
      BY <2>4 DEF InsertsFor
    <3>2. invoice'[req'[h].invoice] \in Invoice
      BY <1>t, <3>1, InsertedType DEF TypeOK
    <3>q. QED BY <3>1, <3>2, NoneAssumption DEF WasInserted, Row
  <2>q. QED BY <1>t, <2>1, <2>2, <2>3, <2>4, HandlerKeeps DEF Continues, OpensFor
<1>2. ASSUME NEW s \in SessionIds, session'[s] # None
      PROVE  WasInserted(session[s].invoice)'
  <2>1. CASE session[s] # None
    BY <1>0, <1>2, <1>t, <2>1, SessionsGrow DEF ReferencesWereInserted
  <2>2. CASE session[s] = None
    <3>1. ~UNCHANGED session /\ ~Restart
      BY <1>2, <2>2 DEF Restart
    <3>2. ASSUME NEW t \in SessionIds, NEW row \in Session, Turns(t, row) PROVE FALSE
      <4>1. session[t] # None /\ session' = [session EXCEPT ![t] = row]
        BY <3>2 DEF Turns
      <4>2. session'[s] = session[s]
        BY <2>2, <4>1, <1>t DEF TypeOK
      <4>q. QED BY <1>2, <2>2, <4>2
    <3>3. PICK h \in Handlers, q \in Request : Writes(h, q) /\ OpensFor(h, q)
      BY <1>t, <3>1, <3>2, SessionChange DEF vars
    <3>4. session'[s].invoice = q.invoice /\ q.invoice \in InvoiceIds
      <4> DEFINE row == [invoice |-> q.invoice, hook |-> "idle", state |-> "unsent"]
      <4>1. session' = [session EXCEPT ![q.session] = row] /\ q.invoice \in InvoiceIds
        BY <1>t, <3>3, OpenedSession
      <4>2. session'[s] = row
        BY <1>2, <1>t, <2>2, <4>1 DEF TypeOK
      <4>q. QED BY <4>1, <4>2
    <3>5. q.invoice = req[h].invoice /\ q.invoice # None
      BY <3>3, <3>4, NoneAssumption DEF OpensFor, InvoiceIds
    <3>q. QED BY <1>0, <1>t, <3>4, <3>5 DEF ReferencesWereInserted
  <2>q. QED BY <2>1, <2>2
<1>q. QED BY <1>1, <1>2 DEF ReferencesWereInserted

LEMMA HandlersSessionsStep ==
  ASSUME IInv, [Next]_vars
  PROVE  SessionsAreTheHandlers'
<1>t. TypeOK /\ RequestsAreWhole /\ SessionsAreTheHandlers /\ HooksFollowPayment
  BY DEF IInv
<1> SUFFICES ASSUME NEW h \in Handlers, req'[h].session # None
             PROVE  /\ session'[req'[h].session] # None
                    /\ session'[req'[h].session].invoice = req'[h].invoice
  BY DEF SessionsAreTheHandlers
<1>1. CASE req'[h].session = req[h].session /\ req'[h].invoice = req[h].invoice
  <2>1. req[h].session \in SessionIds
    BY <1>1, <1>t DEF TypeOK, Request
  <2>q. QED BY <1>1, <1>t, <2>1, SessionsGrow DEF SessionsAreTheHandlers
<1>2. CASE Writes(h, req'[h]) /\ OpensFor(h, req'[h])
  <2>1. req'[h] \in Request /\ req'[h].session \in SessionIds
    BY <1>2 DEF Writes, OpensFor
  <2> DEFINE row == [invoice |-> req'[h].invoice, hook |-> "idle", state |-> "unsent"]
  <2>2. row # None /\ session' = [session EXCEPT ![req'[h].session] = row]
    BY <1>2, <1>t, <2>1, OpenedSession
  <2>3. session'[req'[h].session] = row
    BY <1>t, <2>1, <2>2 DEF TypeOK
  <2>q. QED BY <2>2, <2>3
<1>3. CASE req'[h] = Idle
  BY <1>3 DEF Idle
<1>q. QED BY <1>1, <1>2, <1>3, <1>t, HandlerKeeps DEF Begins, Continues, InsertsFor

LEMMA HooksStep ==
  ASSUME IInv, [Next]_vars
  PROVE  HooksFollowPayment'
<1>t. TypeOK /\ RequestsAreWhole /\ SessionsAreTheHandlers /\ HooksFollowPayment
  BY DEF IInv
<1> SUFFICES ASSUME NEW s \in SessionIds, session'[s] # None, session'[s].hook = "found"
             PROVE  session'[s].state \in {"paid", "done"}
  BY DEF HooksFollowPayment
<1>1. CASE session'[s] = session[s]
  BY <1>1, <1>t DEF HooksFollowPayment
<1>2. CASE Restart
  <2>1. session'[s] = [session[s] EXCEPT !.hook = "idle"] /\ session[s] \in Session
    BY <1>2, <1>t DEF Restart, TypeOK
  <2>2. session'[s].hook = "idle"
    BY <2>1 DEF Session
  <2>q. QED BY <2>2
<1>3. ASSUME NEW h \in Handlers, NEW q \in Request, Writes(h, q), OpensFor(h, q)
      PROVE  session'[s] = session[s]
  <2>1. session' = [session EXCEPT ![q.session] =
                      [invoice |-> q.invoice, hook |-> "idle", state |-> "unsent"]]
    BY <1>3 DEF OpensFor
  <2>q. QED BY <2>1, <1>t DEF TypeOK
<1>4. ASSUME NEW t \in SessionIds, NEW row \in Session, Turns(t, row), session'[s] # session[s]
      PROVE  session'[s].state \in {"paid", "done"}
  <2>1. session'[s] = row
    BY <1>4, <1>t DEF Turns, TypeOK
  <2>q. QED BY <1>4, <2>1 DEF Turns
<1>q. QED BY <1>1, <1>2, <1>3, <1>4, <1>t, SessionChange DEF vars

LEMMA DraftStep ==
  ASSUME IInv, [Next]_vars
  PROVE  CreatedIsNoDraft'
<1>t. /\ TypeOK /\ RequestsAreWhole /\ HooksFollowPayment
      /\ ReferencesWereInserted /\ CreatedIsNoDraft
  BY DEF IInv
<1>1. ASSUME NEW i \in InvoiceIds, Row(i)', invoice'[i].origin = "create"
      PROVE  ~invoice'[i].isDrafted
  <2>1. CASE WasInserted(i)
    BY <1>1, <1>t, <2>1, RowsAreKept DEF Kept, CreatedIsNoDraft
  <2>2. CASE ~WasInserted(i)
    <3>1. PICK h \in Handlers : Inserts(h, i)
      BY <1>1, <1>t, <2>2, NewRow
    <3>q. QED BY <1>1, <1>t, <3>1, InsertedType DEF TypeOK
  <2>q. QED BY <2>1, <2>2
<1>2. ASSUME NEW h \in Handlers, req'[h].kind = "draftToInvoice", Row(req[h].invoice)'
      PROVE  invoice'[req'[h].invoice].origin = "saveToDraft"
  <2>1. CASE req'[h].kind = req[h].kind /\ req'[h].invoice = req[h].invoice
    <3>1. req[h].invoice \in InvoiceIds /\ req[h].invoice # None
      BY <1>2, <2>1, NoneAssumption DEF Row, InvoiceIds
    <3>2. WasInserted(req[h].invoice)
      BY <1>t, <3>1 DEF ReferencesWereInserted
    <3>q. QED BY <1>2, <1>t, <2>1, <3>1, <3>2, RowsAreKept DEF Kept, CreatedIsNoDraft
  <2>2. CASE Begins(h, req'[h])
    <3> DEFINE i == req'[h].invoice
    <3>1. i \in InvoiceIds /\ i # None
      BY <1>2, NoneAssumption DEF Row, InvoiceIds
    <3>2. Row(i) /\ invoice[i].isDrafted /\ UNCHANGED invoice
      BY <1>2, <2>2, <3>1 DEF Begins
    <3>3. invoice[i].origin \in {"create", "saveToDraft"}
      BY <1>t, <3>2, RowType DEF Invoice
    <3>q. QED BY <1>t, <3>1, <3>2, <3>3 DEF CreatedIsNoDraft
  <2>3. CASE req'[h] = Idle
    BY <1>2, <2>3 DEF Idle
  <2>4. CASE InsertsFor(h, req'[h])
    BY <1>2, <2>4 DEF InsertsFor
  <2>q. QED BY <1>t, <2>1, <2>2, <2>3, <2>4, HandlerKeeps DEF Continues, OpensFor
<1>q. QED BY <1>1, <1>2 DEF CreatedIsNoDraft

(* A created invoice is still held alone.                                  *)
LEMMA AloneStep ==
  ASSUME IInv, [Next]_vars
  PROVE  CreatesHoldAlone'
<1>t. /\ TypeOK /\ RequestsAreWhole /\ SessionsAreTheHandlers /\ HooksFollowPayment
      /\ ReferencesWereInserted /\ CreatedIsNoDraft /\ CreatesHoldAlone
  BY DEF IInv
<1> SUFFICES ASSUME NEW h \in Handlers, req'[h].kind = "create",
                    Row(req[h].invoice)'
             PROVE  HoldsAlone(h)'
  BY DEF CreatesHoldAlone
<1> DEFINE i == req'[h].invoice
<1>i. i \in InvoiceIds /\ i # None /\ invoice'[i] # None
  BY NoneAssumption DEF Row, InvoiceIds
(* Whoever has an id that was given out had it before.                     *)
<1>k. ASSUME NEW g \in Handlers, req'[g].kind = "create", req'[g].invoice = i, WasInserted(i)
      PROVE  /\ req[g].kind = "create" /\ req[g].invoice = i
             /\ req'[g].session = req[g].session \/ (Writes(g, req'[g]) /\ OpensFor(g, req'[g]))
  <2>1. CASE InsertsFor(g, req'[g])
    <3>1. Inserts(g, i) BY <1>k, <2>1 DEF InsertsFor
    <3>q. QED BY <1>i, <1>k, <1>t, <3>1, InsertedType DEF TypeOK
  <2>2. CASE req'[g] = Idle \/ Begins(g, req'[g])
    BY <1>i, <1>k, <2>2 DEF Begins, Idle
  <2>q. QED BY <1>k, <1>t, <2>1, <2>2, HandlerKeeps DEF Continues, OpensFor
<1>1. CASE ~WasInserted(i)
  <2>1. \A g \in Handlers : req[g].invoice # i
    BY <1>1, <1>i, <1>t DEF ReferencesWereInserted
  <2>2. \A s \in SessionIds : session[s] # None => session[s].invoice # i
    BY <1>1, <1>t DEF ReferencesWereInserted
  <2>3. PICK f \in Handlers : Inserts(f, i)
    BY <1>1, <1>i, <1>t, NewRow DEF Row
  <2>4. InsertsFor(h, req'[h])
    <3>1. ~Begins(h, req'[h])
      BY <1>i DEF Begins
    <3>2. req'[h] # Idle
      BY <1>i DEF Idle
    <3>q. QED BY <1>t, <2>1, <3>1, <3>2, HandlerKeeps DEF Continues, OpensFor
  <2>5. Inserts(h, i)
    BY <2>4 DEF InsertsFor
  <2>6. invoice'[i].origin = "create"
    <3>1. req[h].kind = "create" BY <2>4 DEF InsertsFor
    <3>q. QED BY <1>i, <1>t, <2>5, <3>1, InsertedType DEF TypeOK
  <2>7. \A g \in Handlers : req'[g].invoice = i => g = h
    BY <2>1, <2>5 DEF Inserts
  <2>8. UNCHANGED session
    BY <2>5 DEF Inserts
  <2>q. QED BY <2>2, <2>6, <2>7, <2>8 DEF HoldsAlone
<1>2. CASE WasInserted(i)
  <2>1. req[h].kind = "create" /\ req[h].invoice = i
    BY <1>2, <1>k
  <2>2. Row(i) /\ invoice'[i].origin = invoice[i].origin
    BY <1>2, <1>i, <1>t, RowsAreKept DEF Kept, Row
  <2>3. HoldsAlone(h)
    BY <1>t, <2>1, <2>2 DEF CreatesHoldAlone
  <2>4. invoice'[i].origin = "create"
    BY <2>1, <2>2, <2>3 DEF HoldsAlone
  <2>5. \A g \in Handlers : req'[g].kind = "create" /\ req'[g].invoice = i => g = h
    BY <1>2, <1>k, <2>1, <2>3 DEF HoldsAlone
  <2>6. \A g \in Handlers : req[g].pc \in {"session", "mail"} /\ req[g].invoice = i => g = h
    <3> SUFFICES ASSUME NEW g \in Handlers, req[g].pc \in {"session", "mail"},
                        req[g].invoice = i, g # h
                 PROVE  FALSE
      OBVIOUS
    <3>1. req[g].kind \in {"create", "draftToInvoice"}
      BY <1>t DEF RequestsAreWhole, RequestIsWhole
    <3>2. req[g].kind # "create"
      BY <2>1, <2>3 DEF HoldsAlone
    <3>3. invoice[i].origin = "saveToDraft"
      BY <1>t, <2>2, <3>1, <3>2 DEF CreatedIsNoDraft
    <3>q. QED BY <2>2, <2>4, <3>3
  <2>7. ASSUME NEW s \in SessionIds, session'[s] # None, session'[s].invoice = i
        PROVE  s = req'[h].session /\ session'[s].state = "unsent"
    <3>1. CASE session[s] = None
      <4>1. PICK g \in Handlers, q \in Request : Writes(g, q) /\ OpensFor(g, q)
        <5>1. ~UNCHANGED session /\ ~Restart
          BY <2>7, <3>1 DEF Restart
        <5>2. ASSUME NEW t \in SessionIds, NEW row \in Session, Turns(t, row) PROVE FALSE
          <6>1. session[t] # None /\ session' = [session EXCEPT ![t] = row]
            BY <5>2 DEF Turns
          <6>2. session'[s] = session[s]
            BY <3>1, <6>1, <1>t DEF TypeOK
          <6>q. QED BY <2>7, <3>1, <6>2
        <5>q. QED BY <1>t, <5>1, <5>2, SessionChange DEF vars
      <4> DEFINE row == [invoice |-> q.invoice, hook |-> "idle", state |-> "unsent"]
      <4>2. session' = [session EXCEPT ![q.session] = row]
        BY <4>1 DEF OpensFor
      <4>3. s = q.session /\ session'[s] = row
        BY <1>t, <2>7, <3>1, <4>2 DEF TypeOK
      <4>4. req[g].invoice = i /\ req[g].pc = "session"
        BY <2>7, <4>1, <4>3 DEF OpensFor
      <4>5. g = h
        BY <2>6, <4>4
      <4>6. req'[h] = q
        BY <1>t, <4>1, <4>5 DEF Writes, TypeOK
      <4>q. QED BY <4>3, <4>6
    <3>2. CASE session[s] # None
      <4>1. session[s].invoice = i
        BY <1>t, <2>7, <3>2, SessionsGrow
      <4>2. s = req[h].session /\ session[s].state = "unsent"
        BY <2>1, <2>3, <3>2, <4>1 DEF HoldsAlone
      <4>3. req'[h].session = req[h].session
        <5>1. ~OpensFor(h, req'[h])
          BY <1>t, <4>2, NoneAssumption DEF OpensFor, RequestsAreWhole, RequestIsWhole, SessionIds
        <5>q. QED BY <1>2, <1>k, <5>1
      <4>4. session'[s].state = "unsent"
        <5>1. CASE session'[s] = session[s]
          BY <4>2, <5>1
        <5>2. ~Restart
          BY <1>i DEF Restart, Idle
        <5>3. ASSUME NEW g \in Handlers, NEW q \in Request, OpensFor(g, q)
              PROVE  session'[s] = session[s]
          BY <1>t, <3>2, <5>3 DEF OpensFor, TypeOK
        <5>4. ASSUME NEW t \in SessionIds, NEW row \in Session, Turns(t, row),
                     session'[s] # session[s]
              PROVE  session'[s].state = "unsent"
          <6>1. t = s /\ session'[s] = row
            BY <1>t, <5>4 DEF Turns, TypeOK
          <6>2. CASE row.state = "unsent"
            BY <6>1, <6>2
          <6>3. ASSUME NEW g \in Handlers, req[g].pc = "mail", req[g].session = s,
                       req' = [req EXCEPT ![g] = Idle]
                PROVE  FALSE
            <7>1. req[g].invoice = i
              <8>1. s # None BY NoneAssumption DEF SessionIds
              <8>q. QED BY <1>t, <3>2, <4>1, <6>3, <8>1 DEF SessionsAreTheHandlers
            <7>2. g = h BY <2>6, <6>3, <7>1
            <7>3. req'[h] = Idle BY <1>t, <6>3, <7>2 DEF TypeOK
            <7>q. QED BY <1>i, <7>3 DEF Idle
          <6>q. QED BY <4>2, <5>4, <6>1, <6>2, <6>3 DEF Turns
        <5>q. QED BY <1>t, <5>1, <5>2, <5>3, <5>4, SessionChange DEF vars
      <4>q. QED BY <4>2, <4>3, <4>4
    <3>q. QED BY <3>1, <3>2
  <2>q. QED BY <2>4, <2>5, <2>7 DEF HoldsAlone
<1>q. QED BY <1>1, <1>2

LEMMA PaidStep ==
  ASSUME IInv, [Next]_vars
  PROVE  PaidThroughLink'
<1>t. /\ TypeOK /\ RequestsAreWhole /\ SessionsAreTheHandlers /\ HooksFollowPayment
      /\ PaidThroughLink
  BY DEF IInv
<1> SUFFICES ASSUME NEW i \in InvoiceIds, Row(i)', ClaimsPayment(invoice'[i])
             PROVE  CheckedOut(i)'
  BY DEF PaidThroughLink, ClaimsPayment, CheckedOut
<1>1. CheckedOut(i) => CheckedOut(i)'
  BY <1>t, SessionsGrow DEF CheckedOut, Completed
<1>2. CASE WasInserted(i)
  <2>1. Row(i) /\ (ClaimsPayment(invoice[i]) \/ CheckedOut(i))
    BY <1>2, <1>t, RowsAreKept DEF Kept
  <2>2. Row(i) /\ ClaimsPayment(invoice[i]) => CheckedOut(i)
    BY <1>t DEF PaidThroughLink, ClaimsPayment, CheckedOut
  <2>q. QED BY <1>1, <2>1, <2>2
<1>3. CASE ~WasInserted(i)
  <2>1. PICK h \in Handlers : Inserts(h, i)
    BY <1>3, <1>t, NewRow
  <2>q. QED BY <1>t, <2>1, InsertedType DEF TypeOK
<1>q. QED BY <1>2, <1>3

-----------------------------------------------------------------------------
(* The limit.                                                              *)
LEMMA CountedIsFinite ==
  ASSUME NEW u
  PROVE  /\ IsFiniteSet(Counted(u)) /\ IsFiniteSet(Created(u)) /\ IsFiniteSet(Creating(u))
         /\ IsFiniteSet(Created(u)') /\ IsFiniteSet(Creating(u)')
         /\ Cardinality(Created(u)) <= Cardinality(Counted(u))
         /\ Cardinality(Creating(u)) <= Cardinality(Handlers)
         /\ Cardinality(Creating(u)') <= Cardinality(Handlers)
         /\ Cardinality(Counted(u)) \in Nat /\ Cardinality(Created(u)) \in Nat
         /\ Cardinality(Creating(u)) \in Nat /\ Cardinality(Created(u)') \in Nat
         /\ Cardinality(Creating(u)') \in Nat /\ Cardinality(Handlers) \in Nat \ {0}
<1>1. IsFiniteSet(InvoiceIds)
  BY InvoiceAssumption, FS_Interval DEF InvoiceIds
<1>2. /\ Counted(u) \subseteq InvoiceIds /\ Created(u) \subseteq Counted(u)
      /\ Created(u)' \subseteq InvoiceIds
  BY DEF Counted, Created
<1>3. Creating(u) \subseteq Handlers /\ Creating(u)' \subseteq Handlers
  BY DEF Creating
<1>4. IsFiniteSet(Handlers) /\ Handlers # {} BY InvoiceAssumption
<1>5. /\ IsFiniteSet(Counted(u)) /\ IsFiniteSet(Created(u)')
      /\ IsFiniteSet(Creating(u)) /\ IsFiniteSet(Creating(u)')
      /\ Cardinality(Creating(u)) <= Cardinality(Handlers)
      /\ Cardinality(Creating(u)') <= Cardinality(Handlers)
  BY <1>1, <1>2, <1>3, <1>4, FS_Subset
<1>6. IsFiniteSet(Created(u)) /\ Cardinality(Created(u)) <= Cardinality(Counted(u))
  BY <1>2, <1>5, FS_Subset
<1>7. Cardinality(Handlers) \in Nat \ {0}
  BY <1>4, FS_CardinalityType, FS_EmptySet
<1>q. QED BY <1>5, <1>6, <1>7, FS_CardinalityType

LEMMA OneMore ==
  ASSUME NEW S, IsFiniteSet(S), NEW x, NEW T, T \subseteq S \cup {x}
  PROVE  Cardinality(T) <= Cardinality(S) + 1
<1>1. /\ IsFiniteSet(S \cup {x})
      /\ Cardinality(S \cup {x}) = IF x \in S THEN Cardinality(S) ELSE Cardinality(S) + 1
  BY FS_AddElement
<1>2. IsFiniteSet(T) /\ Cardinality(T) <= Cardinality(S \cup {x})
  BY <1>1, FS_Subset
<1>3. /\ Cardinality(S) \in Nat /\ Cardinality(T) \in Nat
      /\ Cardinality(S \cup {x}) \in Nat
  BY <1>1, <1>2, FS_CardinalityType
<1>q. QED BY <1>1, <1>2, <1>3

LEMMA OneLess ==
  ASSUME NEW S, IsFiniteSet(S), NEW x \in S
  PROVE  Cardinality(S \ {x}) = Cardinality(S) - 1
  BY FS_RemoveElement

(* What neither creates nor starts to create keeps the bound.              *)
LEMMA FewerKeepLimit ==
  ASSUME CreateKeepsLimit, NEW u \in Users, Limit[u] # None,
         Created(u)' \subseteq Created(u), Creating(u)' \subseteq Creating(u)
  PROVE  Cardinality(Created(u)') + Cardinality(Creating(u)')
           < Limit[u] + Cardinality(Handlers)
<1>1. /\ Cardinality(Created(u)') <= Cardinality(Created(u))
      /\ Cardinality(Creating(u)') <= Cardinality(Creating(u))
  BY CountedIsFinite, FS_Subset
<1>2. Limit[u] \in Nat BY InvoiceAssumption
<1>q. QED BY <1>1, <1>2, CountedIsFinite DEF CreateKeepsLimit

LEMMA LimitStep ==
  ASSUME IInv, [Next]_vars
  PROVE  CreateKeepsLimit'
<1>t. /\ TypeOK /\ RequestsAreWhole /\ HooksFollowPayment /\ RowsAreOfThePast
      /\ CreateKeepsLimit
  BY DEF IInv
<1> SUFFICES ASSUME NEW u \in Users, Limit[u] # None
             PROVE  Cardinality(Created(u)') + Cardinality(Creating(u)')
                      < Limit[u] + Cardinality(Handlers)
  BY DEF CreateKeepsLimit
<1>l. Limit[u] \in Nat BY InvoiceAssumption
<1>n. now \in Nat
  BY <1>t, InvoiceAssumption DEF TypeOK
(* A new month starts with none, ...                                       *)
<1>1. CASE Tick /\ month' = now + 1
  <2>1. UNCHANGED <<req, invoice>> BY <1>1 DEF Tick
  <2>2. Creating(u)' = Creating(u) BY <2>1 DEF Creating
  <2>3. Created(u)' = {}
    <3> SUFFICES ASSUME NEW i \in InvoiceIds, Row(i), month' <= invoice[i].day PROVE FALSE
      BY <2>1 DEF Created, Counted, Row
    <3>1. invoice[i].day \in Nat /\ invoice[i].day <= now
      BY <1>t, RowType DEF Invoice, RowsAreOfThePast
    <3>q. QED BY <1>1, <1>n, <3>1
  <2>q. QED BY <1>t, <2>2, <2>3, FewerKeepLimit
(* ... in a month an insert is one more and one less, ...                  *)
<1>2. ASSUME UNCHANGED month, NEW h \in Handlers, NEW i \in InvoiceIds, Inserts(h, i)
      PROVE  Cardinality(Created(u)') + Cardinality(Creating(u)')
               < Limit[u] + Cardinality(Handlers)
  <2>1. PICK row \in Invoice :
          /\ invoice' = [invoice EXCEPT ![i] = row]
          /\ row.user = req[h].user /\ row.origin = req[h].kind
    BY <1>2, <1>t, InsertedType
  <2>2. \A j \in InvoiceIds \ {i} : invoice'[j] = invoice[j]
    BY <1>t, <2>1 DEF TypeOK
  <2>3. invoice'[i] = row
    BY <1>t, <2>1 DEF TypeOK
  <2>4. Creating(u)' = Creating(u) \ {h}
    BY <1>2 DEF Inserts, Creating
  <2>5. CASE req[h].kind = "create" /\ req[h].user = u
    <3>1. h \in Creating(u)
      BY <1>2, <2>5 DEF Inserts, Creating
    <3>2. Cardinality(Creating(u)') = Cardinality(Creating(u)) - 1
      <4>1. IsFiniteSet(Creating(u)) BY CountedIsFinite
      <4>q. QED BY <2>4, <3>1, <4>1, OneLess
    <3>3. Created(u)' \subseteq Created(u) \cup {i}
      BY <1>2, <2>2 DEF Created, Counted, Row, EndOfMonth
    <3>4. Cardinality(Created(u)') <= Cardinality(Created(u)) + 1
      <4>1. IsFiniteSet(Created(u)) BY CountedIsFinite
      <4>q. QED BY <3>3, <4>1, OneMore
    <3>q. QED BY <1>l, <1>t, <3>2, <3>4, CountedIsFinite DEF CreateKeepsLimit
  <2>6. CASE ~(req[h].kind = "create" /\ req[h].user = u)
    <3>1. Created(u)' \subseteq Created(u)
      BY <1>2, <2>1, <2>2, <2>3, <2>6 DEF Created, Counted, Row, EndOfMonth
    <3>q. QED BY <1>t, <2>4, <3>1, FewerKeepLimit
  <2>q. QED BY <2>5, <2>6
(* ... and a request begins only below the limit.                          *)
<1>3. ASSUME UNCHANGED month, \A h \in Handlers, i \in InvoiceIds : ~Inserts(h, i)
      PROVE  Cardinality(Created(u)') + Cardinality(Creating(u)')
               < Limit[u] + Cardinality(Handlers)
  <2>1. Created(u)' \subseteq Created(u)
    <3> SUFFICES ASSUME NEW i \in Created(u)' PROVE i \in Created(u)
      OBVIOUS
    <3>1. i \in InvoiceIds /\ Row(i)'
      BY DEF Created, Counted
    <3>2. WasInserted(i)
      BY <1>3, <1>t, <3>1, NewRow
    <3>3. /\ Row(i) /\ invoice'[i].user = invoice[i].user
          /\ invoice'[i].day = invoice[i].day /\ invoice'[i].origin = invoice[i].origin
      BY <1>t, <3>1, <3>2, RowsAreKept DEF Kept
    <3>q. QED BY <1>3, <3>1, <3>3 DEF Created, Counted, EndOfMonth
  <2>2. CASE Creating(u)' \subseteq Creating(u)
    BY <1>t, <2>1, <2>2, FewerKeepLimit
  <2>3. CASE ~(Creating(u)' \subseteq Creating(u))
    <3>1. PICK h \in Handlers : h \in Creating(u)' /\ h \notin Creating(u)
      BY <2>3 DEF Creating
    <3>2. /\ req'[h].kind = "create" /\ req'[h].user = u
          /\ req'[h].pc \in {"number", "insert"}
          /\ ~(/\ req[h].kind = "create" /\ req[h].user = u
               /\ req[h].pc \in {"number", "insert"})
      BY <3>1 DEF Creating
    <3>3. Begins(h, req'[h])
      <4>1. req'[h] # Idle BY <3>2 DEF Idle
      <4>2. ~Continues(h, req'[h]) BY <3>2 DEF Continues
      <4>3. ~InsertsFor(h, req'[h]) BY <3>2 DEF InsertsFor
      <4>4. ~OpensFor(h, req'[h]) BY <3>2 DEF OpensFor
      <4>q. QED BY <1>t, <3>2, <4>1, <4>2, <4>3, <4>4, HandlerKeeps
    <3>4. ~LimitReached(u)
      BY <3>2, <3>3 DEF Begins
    <3>5. Cardinality(Counted(u)) < Limit[u]
      BY <1>l, <3>4, CountedIsFinite DEF LimitReached
    <3>6. Cardinality(Created(u)') <= Cardinality(Created(u))
      BY <2>1, CountedIsFinite, FS_Subset
    <3>q. QED BY <1>l, <3>5, <3>6, CountedIsFinite
  <2>q. QED BY <2>2, <2>3
<1>q. QED BY <1>1, <1>2, <1>3, <1>t, TimeChange

-----------------------------------------------------------------------------
(* The invariant: what handlers carry, what rows and sessions are in which *)
(* states, and the two properties, in every reachable state, for every     *)
(* number of users, invoices, sessions and handlers.                       *)
THEOREM Invariance == Spec => []IInv
<1>1. Init => IInv
  <2> SUFFICES ASSUME Init PROVE IInv
    OBVIOUS
  <2>1. TypeOK
    BY InvoiceAssumption, IdleFacts DEF Init, TypeOK
  <2>2. RequestsAreWhole
    BY IdleFacts DEF Init, RequestsAreWhole
  <2>3. \A i : ~Row(i)
    BY DEF Init, Row
  <2>4. \A h \in Handlers : req[h].invoice = None /\ req[h].session = None
                            /\ req[h].pc = "idle"
    BY DEF Init, Idle
  <2>5. \A s \in SessionIds : session[s] = None
    BY DEF Init
  <2>6. RowsAreOfThePast /\ ReferencesWereInserted /\ SessionsAreTheHandlers
    BY <2>3, <2>4, <2>5
       DEF RowsAreOfThePast, ReferencesWereInserted, SessionsAreTheHandlers
  <2>7. HooksFollowPayment /\ CreatedIsNoDraft /\ CreatesHoldAlone /\ PaidThroughLink
    BY <2>3, <2>5 DEF HooksFollowPayment, CreatedIsNoDraft, CreatesHoldAlone, PaidThroughLink
  <2>8. CreateKeepsLimit
    <3> SUFFICES ASSUME NEW u \in Users, Limit[u] # None
                 PROVE  Cardinality(Created(u)) + Cardinality(Creating(u))
                          < Limit[u] + Cardinality(Handlers)
      BY DEF CreateKeepsLimit
    <3>1. Created(u) = {} BY <2>3 DEF Created, Counted
    <3>2. Creating(u) = {} BY <2>4 DEF Creating
    <3>3. Limit[u] \in Nat BY InvoiceAssumption
    <3>q. QED BY <3>1, <3>2, <3>3, FS_EmptySet, CountedIsFinite
  <2>q. QED BY <2>1, <2>2, <2>6, <2>7, <2>8 DEF IInv
<1>2. IInv /\ [Next]_vars => IInv'
  <2> SUFFICES ASSUME IInv, [Next]_vars PROVE IInv'
    OBVIOUS
  <2>1. /\ TypeOK /\ RequestsAreWhole /\ RowsAreOfThePast /\ SessionsAreTheHandlers
        /\ HooksFollowPayment
    BY DEF IInv
  <2>q. QED BY <2>1, TypeStep, WholeStep, PastStep, ReferencesStep, HandlersSessionsStep,
               HooksStep, DraftStep, AloneStep, PaidStep, LimitStep DEF IInv
<1>q. QED BY <1>1, <1>2, PTL DEF Spec

(* Every variable keeps its type.                                          *)
THEOREM TypeCorrect == Spec => []TypeOK
<1>1. IInv => TypeOK BY DEF IInv
<1>q. QED BY <1>1, Invariance, PTL

(* A payment is recorded only for a completed checkout of the invoice, and *)
(* an invoice published with a link only is not called paid before.        *)
THEOREM PaymentsAreCheckouts == Spec => []PaidThroughLink
<1>1. IInv => PaidThroughLink BY DEF IInv
<1>q. QED BY <1>1, Invariance, PTL

(* However many requests overlap, the invoices of a month exceed the limit *)
(* by less than the number of requests at a time.                          *)
THEOREM LimitIsKept == Spec => []CreateKeepsLimit
<1>1. IInv => CreateKeepsLimit BY DEF IInv
<1>q. QED BY <1>1, Invariance, PTL

(* Only the second publication of a draft undoes a recorded payment: the   *)
(* session of a created invoice is recorded before its customer can pay.   *)
THEOREM OnlyRepublicationUndoes == Spec => PaidIsUndoneOnlyByRepublication
<1> DEFINE Undone(i) == /\ Row(i) /\ invoice[i].paidAt /\ invoice[i].isPaid
                        /\ invoice'[i] # None /\ ~invoice'[i].isPaid
           Republished(i) == \E h \in Handlers : Publishing(h, i) /\ req'[h] # req[h]
<1>1. ASSUME IInv, [Next]_vars, NEW i \in InvoiceIds, Undone(i)
      PROVE  Republished(i)
  <2>t. /\ TypeOK /\ RequestsAreWhole /\ CreatesHoldAlone /\ PaidThroughLink
    BY <1>1 DEF IInv
  <2>c. invoice'[i] # invoice[i]
    BY <1>1
  <2>1. ASSUME NEW h \in Handlers, Publish(h) PROVE Republished(i)
    <3>1. i = req[h].invoice
      BY <2>1, <2>c, <2>t DEF Publish, TypeOK
    <3>2. req[h].kind = "draftToInvoice" /\ req[h].pc = "publish"
      BY <2>1, <2>t DEF Publish, RequestsAreWhole, RequestIsWhole
    <3>3. req'[h].pc # "publish"
      BY <2>1, <2>t DEF Publish, Step, Done, Idle, TypeOK, Request
    <3>q. QED BY <3>1, <3>2, <3>3 DEF Publishing
  <2>2. ASSUME NEW h \in Handlers, RecordSession(h) PROVE Republished(i)
    <3>1. i = req[h].invoice
      BY <2>2, <2>c, <2>t DEF RecordSession, TypeOK
    <3>2. req[h].pc = "record" /\ req[h].kind \in {"create", "draftToInvoice"}
      BY <2>2, <2>t DEF RecordSession, RequestsAreWhole, RequestIsWhole
    <3>3. req'[h].pc # "record"
      BY <2>2, <2>t DEF RecordSession, Step, Done, Idle, TypeOK, Request
    <3>4. req[h].kind # "create"
      <4> SUFFICES ASSUME req[h].kind = "create" PROVE FALSE
        OBVIOUS
      <4>1. HoldsAlone(h) BY <1>1, <2>t, <3>1 DEF CreatesHoldAlone
      <4>2. PICK s \in SessionIds : Completed(s) /\ session[s].invoice = i
        BY <1>1, <2>t DEF PaidThroughLink
      <4>q. QED BY <3>1, <4>1, <4>2 DEF HoldsAlone, Completed
    <3>q. QED BY <3>1, <3>2, <3>3, <3>4 DEF Publishing
(* No other action writes isPaid FALSE.                                    *)
  <2>3. ASSUME NEW h \in Handlers,
               UpdateInvoice(h) \/ DeleteItems(h) \/ DeleteBusinessData(h)
        PROVE  FALSE
    <3>1. i \in InvoiceIds /\ invoice[i] \in Invoice BY <1>1, <2>t, RowType
    <3>2. invoice \in [InvoiceIds -> Invoice \cup {None}] BY <2>t DEF TypeOK
    <3>3. CASE UpdateInvoice(h)
      <4>1. PICK j \in InvoiceIds, parts \in Contents :
              invoice' = [invoice EXCEPT ![j].no = req[h].no, ![j].due = req[h].due,
                                         ![j].parts = @ \cup parts]
        BY <2>c, <3>3, <2>t, RowType DEF UpdateInvoice
      <4>2. invoice'[i].isPaid = invoice[i].isPaid
        BY <3>1, <3>2, <4>1 DEF Invoice
      <4>q. QED BY <1>1, <4>2
    <3>4. CASE DeleteItems(h) \/ DeleteBusinessData(h)
      <4>1. PICK j \in InvoiceIds, p \in {"items", "data"} :
              invoice' = [invoice EXCEPT ![j].parts = @ \ {p}]
        BY <2>c, <3>4, <2>t, RowType DEF DeleteItems, DeleteBusinessData
      <4>2. invoice'[i].isPaid = invoice[i].isPaid
        BY <3>1, <3>2, <4>1 DEF Invoice
      <4>q. QED BY <1>1, <4>2
    <3>q. QED BY <2>3, <3>3, <3>4
  <2>4. ASSUME NEW s \in SessionIds, WebhookMarkPaid(s) PROVE FALSE
    <3>1. Row(i) /\ invoice[i] \in Invoice BY <1>1, <2>t, RowType
    <3>2. invoice'[i].isPaid = TRUE \/ invoice'[i] = invoice[i]
      BY <2>4, <2>t, <3>1 DEF WebhookMarkPaid, WebhookMarks, TypeOK, Invoice
    <3>q. QED BY <1>1, <3>2
  <2>5. ASSUME NEW h \in Handlers, InsertInvoice(h) PROVE FALSE
    <3>1. \A j \in InvoiceIds : Inserts(h, j) => invoice'[i] = invoice[i]
      BY <1>1, <2>t, InsertedType DEF WasInserted, TypeOK
    <3>q. QED BY <2>5, <2>c, <2>t, <3>1, InsertChange
  <2>6. ASSUME NEW h \in Handlers, DeleteRow(h) PROVE FALSE
    BY <1>1, <2>6, <2>c, <2>t DEF DeleteRow, TypeOK
  <2>7. ASSUME NEW h \in Handlers, NEW u \in Users,
               \/ Create(h, u) \/ SaveToDraft(h, u)
               \/ \E j \in InvoiceIds : Update(h, u, j) \/ Delete(h, u, j)
        PROVE  FALSE
    BY <2>7, <2>c DEF Create, SaveToDraft, Update, Delete
  <2>8. ASSUME NEW h \in Handlers, NEW j \in InvoiceIds,
               DraftToInvoice(h, j) \/ DeleteFromDraft(h, j)
        PROVE  FALSE
    BY <2>8, <2>c DEF DraftToInvoice, DeleteFromDraft
  <2>9. ASSUME NEW h \in Handlers,
               FindNumber(h) \/ CreateSession(h) \/ SendMail(h) \/ RequestFails(h)
        PROVE  FALSE
    BY <2>9, <2>c DEF FindNumber, CreateSession, CreateLink, SendMail, RequestFails
  <2>10. ASSUME NEW s \in SessionIds,
                CustomerPays(s) \/ SessionExpires(s) \/ WebhookFind(s) \/ WebhookFails(s)
         PROVE  FALSE
    BY <2>10, <2>c DEF CustomerPays, SessionExpires, WebhookFind, WebhookFails
  <2>11. ~Restart /\ ~Tick /\ ~UNCHANGED vars
    BY <2>c DEF Restart, Tick, vars
  <2>q. QED BY <1>1, <2>1, <2>2, <2>3, <2>4, <2>5, <2>6, <2>7, <2>8, <2>9, <2>10, <2>11
            DEF Next, WebhookStep
<1>2. IInv /\ [Next]_vars => [\A i \in InvoiceIds : Undone(i) => Republished(i)]_vars
  BY <1>1
<1>q. QED BY <1>2, Invariance, PTL DEF Spec, PaidIsUndoneOnlyByRepublication
=============================================================================

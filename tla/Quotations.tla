------------------------------ MODULE Quotations ------------------------------
(***************************************************************************)
(* Quotations (quotations.service.ts): sent at once or kept as a draft and *)
(* sent later; updated and removed meanwhile.  Each sending mails the      *)
(* client twice.  Of a quotation the model keeps the amount.               *)
(***************************************************************************)
EXTENDS Backend

CONSTANTS
    Offered,            \* amounts a quotation may name
    MaxQuotations       \* bound on quotations ever created

QuotationIds == 1..MaxQuotations

ASSUME QuotationsAssumption == MaxQuotations \in Nat

DeliveryStatus == {"SENT", "DRAFT"}
Quotation == [amount : Offered, status : DeliveryStatus]

(* amount is what the request brings or what was found in the row.         *)
QuotationRequest ==
    [pc : {"quote.insert"}, amount : Offered, status : DeliveryStatus]
    \cup [pc : {"quote.sent", "quote.mail", "quote.again", "quote.update", "quote.delete"},
          id : QuotationIds, amount : Offered]

ASSUME QuotationNone == {None, Gone} \cap Quotation = {}

VARIABLES
    quotations,     \* the table quotation
    received,       \* the amounts the client has read, by quotation
    bygone          \* handlers in flight whose quotation changed since they read it

quotes == <<quotations, received, bygone>>

QuotationsTypeOK ==
    /\ quotations \in [QuotationIds -> Quotation \cup {None, Gone}]
    /\ received \in [QuotationIds -> SUBSET Offered]
    /\ bygone \subseteq Handlers
    /\ req \in [Handlers -> QuotationRequest \cup {Idle}]
    /\ faults \in 0..MaxFaults

QuotationsInit ==
    /\ quotations = [q \in QuotationIds |-> None]
    /\ received = [q \in QuotationIds |-> {}]
    /\ bygone = {}

(* The row of q changes under the handlers that have read it.              *)
Overtakes(h, q) ==
    bygone' = bygone \cup {k \in Handlers \ {h} :
                            ~Free(k) /\ ~At(k, "quote.insert") /\ req[k].id = q}

-----------------------------------------------------------------------------
(* create and saveToDraft                                                  *)

CreateQuotation(h, amount, status) ==
    /\ Free(h)
    /\ Begin(h, [pc |-> "quote.insert", amount |-> amount, status |-> status])
    /\ bygone' = bygone \ {h}
    /\ UNCHANGED <<quotations, received>>

InsertQuotation(h) ==
    /\ At(h, "quote.insert")
    /\ \E q \in QuotationIds :
        /\ IsNext(q, quotations)
        /\ quotations' = [quotations EXCEPT ![q] =
                [amount |-> req[h].amount, status |-> req[h].status]]
        /\ IF req[h].status = "DRAFT" THEN Done(h)
           ELSE Begin(h, [pc |-> "quote.mail", id |-> q, amount |-> req[h].amount])
    /\ UNCHANGED <<received, bygone>>

-----------------------------------------------------------------------------
(* draftToSent: also for a quotation that was sent before.  The mail shows *)
(* the row as it was found, not as it was updated.                         *)

DraftToSent(h, q) ==
    /\ Free(h)
    /\ q \in Live(quotations)
    /\ Begin(h, [pc |-> "quote.sent", id |-> q, amount |-> quotations[q].amount])
    /\ bygone' = bygone \ {h}
    /\ UNCHANGED <<quotations, received>>

MarkSent(h) ==
    /\ At(h, "quote.sent")
    /\ IF req[h].id \in Live(quotations)
       THEN /\ quotations' = [quotations EXCEPT ![req[h].id].status = "SENT"]
            /\ Step(h, "quote.mail")
       ELSE Done(h) /\ UNCHANGED quotations
    /\ UNCHANGED <<received, bygone>>

(* Mutant: the mail is made for the newest quotation.                      *)
MailLatest(h) ==
    LET newest == CHOOSE q \in Live(quotations) : \A p \in Live(quotations) : p <= q
    IN  /\ At(h, "quote.mail") /\ Done(h)
        /\ Live(quotations) # {}
        /\ received' = [received EXCEPT ![newest] = @ \cup {req[h].amount}]
        /\ UNCHANGED <<quotations, bygone>>

MailQuotation(h) ==
    /\ \/ At(h, "quote.mail") /\ (Step(h, "quote.again") \/ Fail(h))
       \/ At(h, "quote.again") /\ (Done(h) \/ Fail(h))
    /\ received' = IF faults' # faults THEN received
                   ELSE [received EXCEPT ![req[h].id] = @ \cup {req[h].amount}]
    /\ UNCHANGED <<quotations, bygone>>

-----------------------------------------------------------------------------
(* update and remove                                                       *)

UpdateQuotation(h, q, amount) ==
    /\ Free(h)
    /\ q \in Live(quotations)
    /\ Begin(h, [pc |-> "quote.update", id |-> q, amount |-> amount])
    /\ UNCHANGED quotes

(* Mutant: an update publishes the quotation.                              *)
WriteAndSend(h) ==
    /\ At(h, "quote.update")
    /\ IF req[h].id \in Live(quotations)
       THEN /\ quotations' = [quotations EXCEPT
                    ![req[h].id] = [amount |-> req[h].amount, status |-> "SENT"]]
            /\ Overtakes(h, req[h].id)
       ELSE UNCHANGED <<quotations, bygone>>
    /\ Done(h)
    /\ UNCHANGED received

WriteQuotation(h) ==
    /\ At(h, "quote.update")
    /\ IF req[h].id \in Live(quotations)
       THEN /\ quotations' = [quotations EXCEPT ![req[h].id].amount = req[h].amount]
            /\ Overtakes(h, req[h].id)
       ELSE UNCHANGED <<quotations, bygone>>
    /\ Done(h)
    /\ UNCHANGED received

RemoveQuotation(h, q) ==
    /\ Free(h)
    /\ q \in Live(quotations)
    /\ Begin(h, [pc |-> "quote.delete", id |-> q, amount |-> quotations[q].amount])
    /\ UNCHANGED quotes

DeleteQuotation(h) ==
    /\ At(h, "quote.delete")
    /\ quotations' = [quotations EXCEPT ![req[h].id] = Gone]
    /\ Overtakes(h, req[h].id)
    /\ Done(h)
    /\ UNCHANGED received

-----------------------------------------------------------------------------
QuotationHandler(h) ==
    \/ \E a \in Offered, s \in DeliveryStatus : CreateQuotation(h, a, s)
    \/ InsertQuotation(h)
    \/ \E q \in QuotationIds : DraftToSent(h, q)
    \/ MarkSent(h)
    \/ MailQuotation(h)
    \/ \E q \in QuotationIds, a \in Offered : UpdateQuotation(h, q, a)
    \/ WriteQuotation(h)
    \/ \E q \in QuotationIds : RemoveQuotation(h, q)
    \/ DeleteQuotation(h)

QuotationsNext ==
    \/ \E h \in Handlers : QuotationHandler(h)
    \/ Restart /\ UNCHANGED quotes

-----------------------------------------------------------------------------
(* The status agrees with the mailbox of the client: no draft was mailed,  *)
(* and what is called sent was, is about to be, or met a failure.          *)
SentIsMailed ==
    \A q \in Live(quotations) :
        IF quotations[q].status = "DRAFT" THEN received[q] = {}
        ELSE \/ received[q] # {}
             \/ faults > 0
             \/ \E h \in Handlers : At(h, "quote.mail") /\ req[h].id = q

(* The client reads the amount of the row, or the row was changed while    *)
(* the quotation was on its way.                                           *)
MailIsCurrent ==
    [][\A q \in QuotationIds : received'[q] # received[q] =>
        \E h \in Handlers :
            /\ req[h] # Idle /\ ~At(h, "quote.insert") /\ req[h].id = q
            /\ \/ h \in bygone
               \/ q \in Live(quotations) /\ quotations[q].amount = req[h].amount]_quotes
=============================================================================

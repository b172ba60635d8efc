------------------------------ MODULE DeskProofs ------------------------------
(***************************************************************************)
(* Proofs about the components in which customers, accountants and         *)
(* administrators work on the same rows: BankImport, SupportTickets,       *)
(* Quotations and AccountantLink, and about the parser of BankStatement.   *)
(* Each is proved about the specification of the component alone;          *)
(* BackOfficeProofs carries the results over.                              *)
(***************************************************************************)
EXTENDS BankImport, BankStatement, SupportTickets, Quotations, AccountantLink,
        SequenceTheorems, BackendProofs

-----------------------------------------------------------------------------
(* BankImport.                                                             *)

ImportSpec == BackendInit /\ ImportInit /\ [][ImportNext]_<<backend, bankImport>>

(* A handler stores what its user's token fetched.                         *)
StoresWithToken ==
    \A h \in Handlers : At(h, "tink.store") => req[h].user \in hasToken

(* Every row of the table was reported to its owner.                       *)
OwnedIsReported ==
    \A k \in Keys : owner[k] # None => k \in reported[owner[k]] /\ owner[k] \in hasToken

ImportInv == ImportTypeOK /\ StoresWithToken /\ OwnedIsReported /\ ReportedIsStored

LEMMA ImportStep ==
  ASSUME ImportInv, ImportNext
  PROVE  ImportInv'
<1> USE DEF bankImport, backend
<1>t. ImportTypeOK /\ StoresWithToken /\ OwnedIsReported /\ ReportedIsStored
  BY DEF ImportInv
<1>r. /\ req \in [Handlers -> ImportRequest \cup {Idle}]
      /\ faults \in 0..MaxFaults
  BY <1>t DEF ImportTypeOK
<1>1. ASSUME NEW h \in Handlers, NEW u \in AccountHolders, StoreTransactions(h, u)
      PROVE  ImportInv'
  <2>1. Begin(h, [pc |-> "tink.fetch", user |-> u]) BY <1>1 DEF StoreTransactions
  <2>2. [pc |-> "tink.fetch", user |-> u] \in ImportRequest BY DEF ImportRequest
  <2>3. /\ req'[h].pc = "tink.fetch"
        /\ \A k \in Handlers \ {h} : req'[k] = req[k]
        /\ req' \in [Handlers -> ImportRequest \cup {Idle}]
        /\ faults' = faults
    BY <2>1, <2>2, <1>r, BeginChange
  <2>q. QED BY <1>1, <1>t, <2>3
        DEF StoreTransactions, ImportInv, ImportTypeOK, StoresWithToken, OwnedIsReported,
            ReportedIsStored, At
<1>2. ASSUME NEW h \in Handlers, GetTransactions(h)
      PROVE  ImportInv'
  <2>1. req[h] \in ImportRequest /\ req[h].user \in AccountHolders
    BY <1>2, <1>r DEF GetTransactions, At, ImportRequest, Idle
  <2>2. \A keys \in SUBSET Keys :
            [pc |-> "tink.find", user |-> req[h].user, keys |-> keys] \in ImportRequest
    BY <2>1 DEF ImportRequest
  <2>3. /\ req'[h] = Idle \/ req'[h].pc = "tink.find"
        /\ \A k \in Handlers \ {h} : req'[k] = req[k]
        /\ req' \in [Handlers -> ImportRequest \cup {Idle}]
        /\ faults' \in 0..MaxFaults
    <3>1. CASE Fail(h) BY <3>1, <1>r, FailChange
    <3>2. ASSUME NEW keys \in SUBSET Keys,
                 Begin(h, [pc |-> "tink.find", user |-> req[h].user, keys |-> keys])
          PROVE  /\ req'[h].pc = "tink.find"
                 /\ \A k \in Handlers \ {h} : req'[k] = req[k]
                 /\ req' \in [Handlers -> ImportRequest \cup {Idle}]
                 /\ faults' = faults
      BY <3>2, <2>2, <1>r, BeginChange
    <3>q. QED BY <3>1, <3>2, <1>2, <1>r DEF GetTransactions
  <2>q. QED BY <1>2, <1>t, <2>3
        DEF GetTransactions, ImportInv, ImportTypeOK, StoresWithToken, OwnedIsReported,
            ReportedIsStored, At, Idle
<1>3. ASSUME NEW h \in Handlers, FindHolder(h) \/ StoreAccessToken(h)
      PROVE  ImportInv'
  <2>1. req[h] \in ImportRequest /\ req[h].user \in AccountHolders
    BY <1>3, <1>r DEF FindHolder, StoreAccessToken, At, ImportRequest, Idle
  <2>2. \A pc \in {"tink.token", "tink.store"} : [req[h] EXCEPT !.pc = pc] \in ImportRequest
    BY <1>3, <2>1 DEF FindHolder, StoreAccessToken, At, ImportRequest
  <2>3. PICK pc \in {"tink.token", "tink.store"} :
            /\ Step(h, pc)
            /\ \/ pc = "tink.token" /\ UNCHANGED bankImport
               \/ pc = "tink.store" /\ hasToken' = hasToken \cup {req[h].user}
                                    /\ UNCHANGED <<owner, reported>>
    BY <1>3 DEF FindHolder, StoreAccessToken
  <2>4. /\ req'[h] = [req[h] EXCEPT !.pc = pc]
        /\ \A k \in Handlers \ {h} : req'[k] = req[k]
        /\ req' \in [Handlers -> ImportRequest \cup {Idle}]
        /\ faults' = faults
    BY <2>2, <2>3, <1>r, StepChange
  <2>5. req'[h].pc = pc /\ req'[h].user = req[h].user BY <2>1, <2>4 DEF ImportRequest
  <2>q. QED BY <2>1, <2>3, <2>4, <2>5, <1>t
        DEF ImportInv, ImportTypeOK, StoresWithToken, OwnedIsReported, ReportedIsStored, At
<1>4. ASSUME NEW h \in Handlers, StoreMyTransaction(h)
      PROVE  ImportInv'
  <2>1. /\ req[h] \in ImportRequest /\ req[h].user \in AccountHolders
        /\ req[h].keys \in SUBSET Keys /\ req[h].user \in hasToken
    BY <1>4, <1>t, <1>r DEF StoreMyTransaction, StoresWithToken, At, ImportRequest, Idle
  <2>2. /\ req'[h] = Idle
        /\ \A k \in Handlers \ {h} : req'[k] = req[k]
        /\ req' \in [Handlers -> ImportRequest \cup {Idle}]
        /\ faults' = faults
    BY <1>4, <1>r, DoneChange DEF StoreMyTransaction
  <2>3. /\ owner' \in [Keys -> AccountHolders \cup {None}]
        /\ \A k \in Keys :
            owner'[k] = IF k \in req[h].keys /\ owner[k] = None THEN req[h].user ELSE owner[k]
    BY <1>4, <1>t, <2>1 DEF StoreMyTransaction, SkipDuplicates, ImportTypeOK
  <2>4. /\ reported' \in [AccountHolders -> SUBSET Keys]
        /\ \A u \in AccountHolders : reported'[u] =
              IF u = req[h].user THEN reported[u] \cup req[h].keys ELSE reported[u]
        /\ hasToken' = hasToken
    BY <1>4, <1>t, <2>1 DEF StoreMyTransaction, ImportTypeOK
  <2>5. ImportTypeOK' /\ StoresWithToken'
    BY <1>t, <2>2, <2>3, <2>4 DEF ImportTypeOK, StoresWithToken, At, Idle
  <2>6. OwnedIsReported'
    BY <1>t, <2>1, <2>3, <2>4, ImportNone DEF ImportTypeOK, OwnedIsReported
  <2>7. ReportedIsStored'
    <3> SUFFICES ASSUME NEW u \in AccountHolders, NEW k \in reported'[u]
                 PROVE  /\ u \in hasToken'
                        /\ owner'[k] # None
                        /\ k \in reported'[owner'[k]] /\ owner'[k] \in hasToken'
      BY DEF ReportedIsStored
    <3>1. k \in Keys BY <2>4
    <3>2. u \in hasToken' /\ owner'[k] # None
      BY <1>t, <2>1, <2>3, <2>4, <3>1, ImportNone DEF ImportTypeOK, ReportedIsStored
    <3>q. QED BY <2>6, <3>1, <3>2 DEF OwnedIsReported
  <2>q. QED BY <2>5, <2>6, <2>7 DEF ImportInv
<1>5. CASE Restart /\ UNCHANGED bankImport
  BY <1>5, <1>t, RestartChange
     DEF ImportInv, ImportTypeOK, StoresWithToken, OwnedIsReported, ReportedIsStored, At, Idle
<1>q. QED BY <1>1, <1>2, <1>3, <1>4, <1>5 DEF ImportNext, ImportHandler

LEMMA ImportInvariance == ImportSpec => []ImportInv
<1>1. BackendInit /\ ImportInit => ImportInv
  BY InitialRequests DEF ImportInit, ImportInv, ImportTypeOK, StoresWithToken,
     OwnedIsReported, ReportedIsStored, At, Idle
<1>2. ImportInv /\ [ImportNext]_<<backend, bankImport>> => ImportInv'
  <2>1. ASSUME ImportInv, UNCHANGED <<backend, bankImport>> PROVE ImportInv'
    BY <2>1 DEF backend, bankImport, ImportInv, ImportTypeOK, StoresWithToken,
       OwnedIsReported, ReportedIsStored, At
  <2>q. QED BY <2>1, ImportStep
<1>q. QED BY <1>1, <1>2, PTL DEF ImportSpec

(* What an answered import reported is in the table, under the name of a   *)
(* user whose import reported it too.                                      *)
THEOREM ImportsAreStored == ImportSpec => []ReportedIsStored
<1>1. ImportInv => ReportedIsStored BY DEF ImportInv
<1>q. QED BY <1>1, ImportInvariance, PTL

-----------------------------------------------------------------------------
(* SupportTickets.                                                         *)

TicketsSpec == BackendInit /\ TicketsInit /\ [][TicketsNext]_<<backend, supportTickets>>

(* A code is the number of its ticket, so no other ticket has taken it.    *)
CodeIsNumber ==
    \A i \in Tickets : tickets[i] # None => tickets[i].ticketCode \in {None, i}

(* A handler works on a ticket that exists.                                *)
TicketIsThere ==
    \A h \in Handlers :
        req[h].pc \in {"ticket.code", "ticket.view", "ticket.update"} =>
            req[h].id \in Tickets /\ tickets[req[h].id] # None

(* The priority it read is that of the ticket, unless that was changed.    *)
PriorityIsCurrent ==
    \A h \in Handlers \ outdated :
        At(h, "ticket.update") => req[h].read = tickets[req[h].id].priority

(* The tickets TicketsHaveCodes counts.                                    *)
Codeless ==
    {i \in Tickets :
        /\ tickets[i] # None /\ tickets[i].ticketCode = None
        /\ ~\E h \in Handlers : At(h, "ticket.code") /\ req[h].id = i}

TicketsInv ==
    TicketsTypeOK /\ CodeIsNumber /\ TicketIsThere /\ PriorityIsCurrent /\ TicketsHaveCodes

LEMMA CodelessIsFinite == IsFiniteSet(Codeless)
<1>1. IsFiniteSet(Tickets) BY TicketsAssumption, FS_Interval DEF Tickets
<1>q. QED BY <1>1, FS_Subset DEF Codeless

(* Without a failure no ticket loses its code.                             *)
LEMMA CodesAreKept ==
  ASSUME TicketsInv, Codeless' \subseteq Codeless, faults' = faults
  PROVE  TicketsHaveCodes'
<1> DEFINE n == faults * Cardinality(Handlers)
<1>1. n \in Nat
  <2>1. faults \in Nat /\ Cardinality(Handlers) \in Nat
    BY BackendAssumption, FS_CardinalityType DEF TicketsInv, TicketsTypeOK
  <2>q. QED BY <2>1
<1>2. Cardinality(Codeless) <= n BY DEF TicketsInv, TicketsHaveCodes, Codeless
<1>3. n' = n OBVIOUS
<1> HIDE DEF n
<1>4. Cardinality(Codeless') <= n BY <1>1, <1>2, CodelessIsFinite, FewerLost
<1>q. QED BY <1>3, <1>4 DEF TicketsHaveCodes, Codeless, n

(* What the tickets' own invariants need of a step of h.                   *)
LEMMA TicketStep ==
  ASSUME TicketsInv, NEW h \in Handlers, TicketHandler(h)
  PROVE  TicketsInv'
<1> USE DEF supportTickets, backend
<1>t. TicketsTypeOK /\ CodeIsNumber /\ TicketIsThere /\ PriorityIsCurrent
  BY DEF TicketsInv
<1>r. /\ req \in [Handlers -> TicketRequest \cup {Idle}]
      /\ faults \in 0..MaxFaults
      /\ tickets \in [Tickets -> Ticket \cup {None}]
  BY <1>t DEF TicketsTypeOK
<1>1. CASE CreateTicket(h)
  <2>1. [pc |-> "ticket.insert"] \in TicketRequest BY DEF TicketRequest
  <2>2. /\ req'[h].pc = "ticket.insert"
        /\ \A k \in Handlers \ {h} : req'[k] = req[k]
        /\ req' \in [Handlers -> TicketRequest \cup {Idle}]
        /\ faults' = faults
    BY <1>1, <2>1, <1>r, BeginChange DEF CreateTicket
  <2>3. Codeless' \subseteq Codeless BY <1>1, <2>2 DEF CreateTicket, Codeless, At, Free, Idle
  <2>q. QED BY <1>1, <1>t, <2>2, <2>3, CodesAreKept
        DEF CreateTicket, TicketsInv, TicketsTypeOK, CodeIsNumber, TicketIsThere,
            PriorityIsCurrent, At
<1>2. CASE InsertTicket(h)
  <2> DEFINE new == [ticketCode |-> None, status |-> "OPEN", priority |-> "MEDIUM",
                     viewed |-> FALSE]
  <2>1. PICK i \in Tickets :
            /\ IsNext(i, tickets)
            /\ tickets' = [tickets EXCEPT ![i] = new]
            /\ Begin(h, [pc |-> "ticket.code", id |-> i])
    BY <1>2 DEF InsertTicket
  <2>2. [pc |-> "ticket.code", id |-> i] \in TicketRequest BY DEF TicketRequest
  <2>3. /\ req'[h].pc = "ticket.code" /\ req'[h].id = i
        /\ \A k \in Handlers \ {h} : req'[k] = req[k]
        /\ req' \in [Handlers -> TicketRequest \cup {Idle}]
        /\ faults' = faults
    BY <2>1, <2>2, <1>r, BeginChange
  <2>4. new \in Ticket /\ new # None
    <3>1. new \in Ticket BY TicketsAssumption DEF Ticket, Status
    <3>q. QED BY <3>1, TicketNone
  <2>5. /\ tickets' \in [Tickets -> Ticket \cup {None}]
        /\ tickets'[i] = new
        /\ \A j \in Tickets \ {i} : tickets'[j] = tickets[j]
        /\ tickets[i] = None
        /\ outdated' = outdated
    BY <1>2, <2>1, <2>4, <1>r DEF IsNext, InsertTicket
  <2>6. Codeless' \subseteq Codeless
    BY <1>2, <2>3, <2>5 DEF Codeless, At, InsertTicket
  <2> HIDE DEF new
  <2>7. CodeIsNumber' BY <1>t, <2>5 DEF CodeIsNumber, new
  <2>8. TicketIsThere' BY <1>t, <2>3, <2>4, <2>5 DEF TicketIsThere
  <2>9. PriorityIsCurrent'
    BY <1>t, <2>3, <2>5 DEF PriorityIsCurrent, TicketIsThere, At
  <2>q. QED BY <1>t, <2>3, <2>5, <2>6, <2>7, <2>8, <2>9, CodesAreKept
        DEF TicketsInv, TicketsTypeOK
<1>3. CASE WriteTicketCode(h)
  <2> DEFINE i == req[h].id
             new == [tickets[i] EXCEPT !.ticketCode = i]
  <2>1. i \in Tickets /\ tickets[i] # None /\ tickets[i] \in Ticket
    BY <1>3, <1>t, <1>r DEF WriteTicketCode, TicketIsThere, At
  <2>2. /\ req'[h] = Idle
        /\ \A k \in Handlers \ {h} : req'[k] = req[k]
        /\ req' \in [Handlers -> TicketRequest \cup {Idle}]
        /\ faults' = faults
    BY <1>3, <1>r, DoneChange DEF WriteTicketCode
  <2>3. new \in Ticket /\ new # None /\ new.ticketCode = i /\ new.priority = tickets[i].priority
    BY <2>1, TicketNone DEF Ticket
  <2>4. tickets' = tickets \/ tickets' = [tickets EXCEPT ![i] = new]
    BY <1>3, <1>r, <2>1 DEF WriteTicketCode, formatTicketCode
  <2>5. tickets' = tickets => tickets[i].ticketCode # None
    <3>1. CASE \E j \in Tickets : tickets[j] # None /\ tickets[j].ticketCode = i
      <4>1. PICK j \in Tickets : tickets[j] # None /\ tickets[j].ticketCode = i BY <3>1
      <4>2. i # None BY <2>1, TicketNone
      <4>q. QED BY <4>1, <4>2, <1>t DEF CodeIsNumber
    <3>2. CASE ~\E j \in Tickets : tickets[j] # None /\ tickets[j].ticketCode = i
      <4>1. tickets' = [tickets EXCEPT ![i] = new]
        BY <3>2, <1>3, <1>r, <2>1 DEF WriteTicketCode, formatTicketCode
      <4>2. tickets'[i].ticketCode = i BY <4>1, <2>1, <2>3, <1>r
      <4>q. QED BY <4>2, <2>1, TicketNone
    <3>q. QED BY <3>1, <3>2
  <2> HIDE DEF i, new
  <2>6. /\ tickets' \in [Tickets -> Ticket \cup {None}]
        /\ \A j \in Tickets \ {i} : tickets'[j] = tickets[j]
        /\ tickets'[i] # None
        /\ tickets'[i].ticketCode \in {tickets[i].ticketCode, i}
        /\ tickets'[i].priority = tickets[i].priority
        /\ tickets'[i].ticketCode # None
        /\ outdated' = outdated
    <3>1. i # None BY <2>1, TicketNone
    <3>2. CASE tickets' = tickets BY <3>2, <1>3, <1>r, <2>1, <2>5 DEF WriteTicketCode
    <3>3. CASE tickets' = [tickets EXCEPT ![i] = new]
      <4>1. tickets'[i] = new BY <3>3, <1>r, <2>1
      <4>q. QED BY <3>1, <3>3, <4>1, <1>3, <1>r, <2>1, <2>3 DEF WriteTicketCode
    <3>q. QED BY <2>4, <3>2, <3>3
  <2>7. Codeless' \subseteq Codeless
    BY <2>1, <2>2, <2>6 DEF Codeless, At, i
  <2>8. CodeIsNumber' BY <1>t, <2>1, <2>6 DEF CodeIsNumber
  <2>9. TicketIsThere' BY <1>t, <2>2, <2>6 DEF TicketIsThere, Idle
  <2>10. PriorityIsCurrent'
    BY <1>t, <2>1, <2>2, <2>6 DEF PriorityIsCurrent, TicketIsThere, At, Idle
  <2>q. QED BY <1>t, <2>2, <2>6, <2>7, <2>8, <2>9, <2>10, CodesAreKept
        DEF TicketsInv, TicketsTypeOK
<1>4. ASSUME NEW i \in Tickets, UpdateStatus(h, i) PROVE TicketsInv'
  <2>1. PICK status \in Status, asked \in Priority \cup {None} :
            Begin(h, [pc |-> "ticket.update", id |-> i, status |-> status, asked |-> asked,
                      read |-> tickets[i].priority])
    BY <1>4 DEF UpdateStatus
  <2>2. tickets[i] \in Ticket /\ tickets[i] # None /\ tickets[i].priority \in Priority
    BY <1>4, <1>r DEF UpdateStatus, Ticket
  <2>3. [pc |-> "ticket.update", id |-> i, status |-> status, asked |-> asked,
         read |-> tickets[i].priority] \in TicketRequest
    BY <2>2 DEF TicketRequest
  <2>4. /\ req'[h].pc = "ticket.update" /\ req'[h].id = i
        /\ req'[h].read = tickets[i].priority
        /\ \A k \in Handlers \ {h} : req'[k] = req[k]
        /\ req' \in [Handlers -> TicketRequest \cup {Idle}]
        /\ faults' = faults
    BY <2>1, <2>3, <1>r, BeginChange
  <2>5. Codeless' \subseteq Codeless BY <1>4, <2>4 DEF UpdateStatus, Codeless, At, Free, Idle
  <2>6. PriorityIsCurrent' BY <1>4, <1>t, <2>4 DEF UpdateStatus, PriorityIsCurrent, At
  <2>q. QED BY <1>4, <1>t, <2>2, <2>4, <2>5, <2>6, CodesAreKept
        DEF UpdateStatus, TicketsInv, TicketsTypeOK, CodeIsNumber, TicketIsThere
<1>5. CASE WriteStatus(h)
  <2> DEFINE i == req[h].id
             priority == NewPriority(req[h])
             new == [tickets[i] EXCEPT !.status = req[h].status, !.priority = priority]
  <2>1. /\ i \in Tickets /\ tickets[i] # None /\ tickets[i] \in Ticket
        /\ req[h].status \in Status /\ priority \in Priority
    <3>1. req[h] \in TicketRequest /\ req[h].pc = "ticket.update"
      BY <1>5, <1>r DEF WriteStatus, At, Idle
    <3>2. req[h].status \in Status /\ req[h].asked \in Priority \cup {None}
          /\ req[h].read \in Priority
      BY <3>1 DEF TicketRequest
    <3>q. QED BY <3>1, <3>2, <1>t, <1>r DEF TicketIsThere, NewPriority
  <2>2. /\ req'[h] = Idle
        /\ \A k \in Handlers \ {h} : req'[k] = req[k]
        /\ req' \in [Handlers -> TicketRequest \cup {Idle}]
        /\ faults' = faults
    BY <1>5, <1>r, DoneChange DEF WriteStatus
  <2>3. /\ new \in Ticket /\ new # None /\ new.ticketCode = tickets[i].ticketCode
        /\ new.priority = priority
    BY <2>1, TicketNone DEF Ticket
  <2>4. tickets' = [tickets EXCEPT ![i] = new] BY <1>5, <1>r, <2>1 DEF WriteStatus
  <2>5. outdated' = IF priority = tickets[i].priority THEN outdated
                    ELSE outdated \cup {k \in Handlers \ {h} :
                                          At(k, "ticket.update") /\ req[k].id = i}
    BY <1>5 DEF WriteStatus
  <2> HIDE DEF i, new, priority
  <2>6. /\ tickets' \in [Tickets -> Ticket \cup {None}]
        /\ \A j \in Tickets \ {i} : tickets'[j] = tickets[j]
        /\ tickets'[i] = new
    BY <1>r, <2>1, <2>3, <2>4
  <2>7. Codeless' \subseteq Codeless
    BY <1>5, <2>1, <2>2, <2>3, <2>6 DEF Codeless, At, WriteStatus
  <2>8. CodeIsNumber' BY <1>t, <2>1, <2>3, <2>6 DEF CodeIsNumber
  <2>9. TicketIsThere' BY <1>t, <2>2, <2>3, <2>6 DEF TicketIsThere, Idle
  <2>10. PriorityIsCurrent'
    BY <1>t, <2>1, <2>2, <2>3, <2>5, <2>6 DEF PriorityIsCurrent, TicketIsThere, At, Idle
  <2>11. outdated' \subseteq Handlers BY <1>t, <2>5 DEF TicketsTypeOK
  <2>q. QED BY <1>t, <2>2, <2>6, <2>7, <2>8, <2>9, <2>10, <2>11, CodesAreKept
        DEF TicketsInv, TicketsTypeOK
<1>6. ASSUME NEW i \in Tickets, MarkAsView(h, i) PROVE TicketsInv'
  <2>1. [pc |-> "ticket.view", id |-> i] \in TicketRequest BY DEF TicketRequest
  <2>2. /\ req'[h].pc = "ticket.view" /\ req'[h].id = i
        /\ \A k \in Handlers \ {h} : req'[k] = req[k]
        /\ req' \in [Handlers -> TicketRequest \cup {Idle}]
        /\ faults' = faults
    BY <1>6, <2>1, <1>r, BeginChange DEF MarkAsView
  <2>3. Codeless' \subseteq Codeless BY <1>6, <2>2 DEF MarkAsView, Codeless, At, Free, Idle
  <2>q. QED BY <1>6, <1>t, <2>2, <2>3, CodesAreKept
        DEF MarkAsView, TicketsInv, TicketsTypeOK, CodeIsNumber, TicketIsThere,
            PriorityIsCurrent, At
<1>7. CASE WriteViewed(h)
  <2> DEFINE i == req[h].id
             new == [tickets[i] EXCEPT !.viewed = TRUE]
  <2>1. i \in Tickets /\ tickets[i] # None /\ tickets[i] \in Ticket
    BY <1>7, <1>t, <1>r DEF WriteViewed, TicketIsThere, At
  <2>2. /\ req'[h] = Idle
        /\ \A k \in Handlers \ {h} : req'[k] = req[k]
        /\ req' \in [Handlers -> TicketRequest \cup {Idle}]
        /\ faults' = faults
    BY <1>7, <1>r, DoneChange DEF WriteViewed
  <2>3. /\ new \in Ticket /\ new # None /\ new.ticketCode = tickets[i].ticketCode
        /\ new.priority = tickets[i].priority
    BY <2>1, TicketNone DEF Ticket
  <2>4. tickets' = [tickets EXCEPT ![i] = new] BY <1>7, <1>r, <2>1 DEF WriteViewed
  <2> HIDE DEF i, new
  <2>5. /\ tickets' \in [Tickets -> Ticket \cup {None}]
        /\ \A j \in Tickets \ {i} : tickets'[j] = tickets[j]
        /\ tickets'[i] = new
        /\ outdated' = outdated
    BY <1>7, <1>r, <2>1, <2>3, <2>4 DEF WriteViewed
  <2>6. Codeless' \subseteq Codeless
    BY <1>7, <2>1, <2>2, <2>3, <2>5 DEF Codeless, At, WriteViewed
  <2>7. CodeIsNumber' BY <1>t, <2>1, <2>3, <2>5 DEF CodeIsNumber
  <2>8. TicketIsThere' BY <1>t, <2>2, <2>3, <2>5 DEF TicketIsThere, Idle
  <2>9. PriorityIsCurrent'
    BY <1>t, <2>1, <2>2, <2>3, <2>5 DEF PriorityIsCurrent, TicketIsThere, At, Idle
  <2>q. QED BY <1>t, <2>2, <2>5, <2>6, <2>7, <2>8, <2>9, CodesAreKept
        DEF TicketsInv, TicketsTypeOK
<1>q. QED BY <1>1, <1>2, <1>3, <1>4, <1>5, <1>6, <1>7 DEF TicketHandler

(* A restart loses at most the codes that every handler was about to write.*)
LEMMA TicketRestart ==
  ASSUME TicketsInv, Restart, UNCHANGED supportTickets
  PROVE  TicketsInv'
<1> USE DEF supportTickets
<1> DEFINE f == [h \in Handlers |-> req[h].id]
<1>1. /\ \A k \in Handlers : req'[k] = Idle
      /\ req' \in [Handlers -> TicketRequest \cup {Idle}]
      /\ faults' = faults + 1
      /\ faults' \in 0..MaxFaults
  BY RestartChange DEF TicketsInv, TicketsTypeOK
<1>2. Codeless' \subseteq Codeless \cup {f[h] : h \in Handlers} BY DEF Codeless, At
<1>3. Cardinality(Codeless) <= faults * Cardinality(Handlers)
  BY DEF TicketsInv, TicketsHaveCodes, Codeless
<1>4. faults \in Nat BY DEF TicketsInv, TicketsTypeOK
<1> HIDE DEF f
<1>5. Cardinality(Codeless') <= (faults + 1) * Cardinality(Handlers)
  BY <1>2, <1>3, <1>4, CodelessIsFinite, MoreLost
<1>6. TicketsHaveCodes' BY <1>1, <1>5 DEF TicketsHaveCodes, Codeless
<1>q. QED BY <1>1, <1>6
      DEF TicketsInv, TicketsTypeOK, CodeIsNumber, TicketIsThere, PriorityIsCurrent, At, Idle

LEMMA TicketsInvariance == TicketsSpec => []TicketsInv
<1>1. BackendInit /\ TicketsInit => TicketsInv
  <2> SUFFICES ASSUME BackendInit, TicketsInit PROVE TicketsInv
    OBVIOUS
  <2>1. /\ req \in [Handlers -> TicketRequest \cup {Idle}]
        /\ \A k \in Handlers : req[k] = Idle
        /\ faults = 0 /\ faults \in 0..MaxFaults
    BY InitialRequests
  <2>2. Codeless = {} BY DEF Codeless, TicketsInit
  <2>3. TicketsHaveCodes
    <3>1. Cardinality(Codeless) = 0 BY <2>2, FS_EmptySet
    <3>2. 0 * Cardinality(Handlers) = 0 BY BackendAssumption, FS_CardinalityType
    <3>q. QED BY <2>1, <3>1, <3>2 DEF TicketsHaveCodes, Codeless
  <2>q. QED BY <2>1, <2>3 DEF TicketsInit, TicketsInv, TicketsTypeOK, CodeIsNumber,
            TicketIsThere, PriorityIsCurrent, At, Idle
<1>2. TicketsInv /\ [TicketsNext]_<<backend, supportTickets>> => TicketsInv'
  <2>1. ASSUME TicketsInv, UNCHANGED <<backend, supportTickets>> PROVE TicketsInv'
    BY <2>1 DEF backend, supportTickets, TicketsInv, TicketsTypeOK, CodeIsNumber,
       TicketIsThere, PriorityIsCurrent, TicketsHaveCodes, At
  <2>q. QED BY <2>1, TicketStep, TicketRestart DEF TicketsNext
<1>q. QED BY <1>1, <1>2, PTL DEF TicketsSpec

(* Every ticket gets its code, but for what failures lost.                 *)
THEOREM EveryTicketHasCode == TicketsSpec => []TicketsHaveCodes
<1>1. TicketsInv => TicketsHaveCodes BY DEF TicketsInv
<1>q. QED BY <1>1, TicketsInvariance, PTL

(* A request that names no priority changes none, unless it is outdated.   *)
THEOREM PriorityOnlyIfAsked == TicketsSpec => PriorityIsKept
<1> DEFINE Kept(i) ==
        tickets[i] # None /\ tickets'[i].priority # tickets[i].priority =>
            \E h \in Handlers :
                /\ At(h, "ticket.update") /\ req[h].id = i
                /\ req[h].asked = tickets'[i].priority \/ h \in outdated
<1>1. TicketsInv /\ [TicketsNext]_<<backend, supportTickets>> =>
        [\A i \in Tickets : Kept(i)]_supportTickets
  <2> SUFFICES ASSUME TicketsInv, TicketsNext, NEW i \in Tickets,
                      tickets[i] # None, tickets'[i].priority # tickets[i].priority
               PROVE  \E h \in Handlers :
                        /\ At(h, "ticket.update") /\ req[h].id = i
                        /\ req[h].asked = tickets'[i].priority \/ h \in outdated
    BY DEF backend, supportTickets
  <2>t. /\ TicketsTypeOK /\ CodeIsNumber /\ TicketIsThere /\ PriorityIsCurrent
        /\ tickets \in [Tickets -> Ticket \cup {None}]
    BY DEF TicketsInv, TicketsTypeOK
  <2>0. tickets' # tickets OBVIOUS
  <2>1. PICK h \in Handlers : InsertTicket(h) \/ WriteTicketCode(h) \/ WriteStatus(h)
                              \/ WriteViewed(h)
    BY <2>0 DEF TicketsNext, TicketHandler, CreateTicket, UpdateStatus, MarkAsView,
       supportTickets
  <2>2. ~InsertTicket(h) BY <2>t DEF InsertTicket, IsNext
  <2>3. tickets[i] \in Ticket BY <2>t
  <2>4. ~WriteTicketCode(h) /\ ~WriteViewed(h)
    BY <2>t, <2>3 DEF WriteTicketCode, WriteViewed, Ticket
  <2>5. WriteStatus(h) /\ At(h, "ticket.update") BY <2>1, <2>2, <2>4 DEF WriteStatus
  <2>6. /\ req[h].id \in Tickets /\ tickets[req[h].id] \in Ticket
    BY <2>t, <2>5 DEF TicketIsThere, At
  <2>7. /\ req[h].id = i
        /\ tickets'[i].priority = NewPriority(req[h])
    BY <2>t, <2>5, <2>6 DEF WriteStatus, Ticket
  <2>8. CASE req[h].asked # None BY <2>5, <2>7, <2>8 DEF NewPriority
  <2>9. CASE req[h].asked = None
    BY <2>t, <2>5, <2>7, <2>9 DEF NewPriority, PriorityIsCurrent
  <2>q. QED BY <2>8, <2>9
<1>q. QED BY <1>1, TicketsInvariance, PTL DEF TicketsSpec, PriorityIsKept
-----------------------------------------------------------------------------
(* Quotations.                                                             *)

QuotationsSpec == BackendInit /\ QuotationsInit /\ [][QuotationsNext]_<<backend, quotes>>

(* A handler that mails, or is about to.                                   *)
Sending(h) == req[h].pc \in {"quote.sent", "quote.mail", "quote.again"}
Mailing(h) == req[h].pc \in {"quote.mail", "quote.again"}

(* A handler works on a quotation that exists, or was deleted.             *)
QuotationIsThere ==
    \A h \in Handlers :
        Sending(h) \/ req[h].pc \in {"quote.update", "quote.delete"} =>
            /\ req[h].id \in QuotationIds
            /\ req[h].amount \in Offered
            /\ quotations[req[h].id] # None

(* No draft is mailed.                                                     *)
MailedIsSent ==
    \A h \in Handlers :
        Mailing(h) /\ req[h].id \in Live(quotations) => quotations[req[h].id].status = "SENT"

(* The amount it will mail is that of the row, unless that was changed.    *)
AmountIsCurrent ==
    \A h \in Handlers \ bygone :
        Sending(h) => /\ req[h].id \in Live(quotations)
                      /\ quotations[req[h].id].amount = req[h].amount

(* Nobody has received what does not exist yet.                            *)
NothingInAdvance ==
    \A q \in QuotationIds : quotations[q] = None => received[q] = {}

QuotationsInv ==
    /\ QuotationsTypeOK
    /\ QuotationIsThere
    /\ MailedIsSent
    /\ AmountIsCurrent
    /\ NothingInAdvance
    /\ SentIsMailed

LEMMA LiveQuotation ==
  ASSUME quotations \in [QuotationIds -> Quotation \cup {None, Gone}]
  PROVE  \A q : q \in Live(quotations) <=> q \in QuotationIds /\ quotations[q] \in Quotation
  BY QuotationNone DEF Live

LEMMA QuotationStep ==
  ASSUME QuotationsInv, NEW h \in Handlers, QuotationHandler(h)
  PROVE  QuotationsInv'
<1> USE DEF quotes, backend
<1>t. /\ QuotationsTypeOK /\ QuotationIsThere /\ MailedIsSent /\ AmountIsCurrent
      /\ NothingInAdvance /\ SentIsMailed
  BY DEF QuotationsInv
<1>r. /\ req \in [Handlers -> QuotationRequest \cup {Idle}]
      /\ faults \in 0..MaxFaults
      /\ quotations \in [QuotationIds -> Quotation \cup {None, Gone}]
      /\ received \in [QuotationIds -> SUBSET Offered]
      /\ bygone \subseteq Handlers
  BY <1>t DEF QuotationsTypeOK
<1>l. \A q : q \in Live(quotations) <=> q \in QuotationIds /\ quotations[q] \in Quotation
  BY <1>r, LiveQuotation
<1>n. None \notin Quotation /\ Gone \notin Quotation BY QuotationNone
(* When only req changes, and h does not become one that sends.            *)
<1>u. ASSUME UNCHANGED <<quotations, received>>, bygone' \in {bygone, bygone \ {h}},
             req' \in [Handlers -> QuotationRequest \cup {Idle}], faults' = faults,
             \A k \in Handlers \ {h} : req'[k] = req[k], Free(h),
             Sending(h)' \/ req'[h].pc \in {"quote.update", "quote.delete"} =>
                req'[h].id \in Live(quotations) /\ req'[h].amount \in Offered,
             Sending(h)' => req'[h].pc = "quote.sent" /\ bygone' = bygone \ {h}
                            /\ req'[h].amount = quotations[req'[h].id].amount
      PROVE  QuotationsInv'
  <2>1. QuotationsTypeOK' BY <1>u, <1>r DEF QuotationsTypeOK
  <2>2. QuotationIsThere' BY <1>u, <1>t, <1>l, <1>n DEF QuotationIsThere, Sending
  <2>3. MailedIsSent' BY <1>u, <1>t DEF MailedIsSent, Mailing, Sending
  <2>4. AmountIsCurrent' BY <1>u, <1>t DEF AmountIsCurrent, Sending
  <2>5. NothingInAdvance' BY <1>u, <1>t DEF NothingInAdvance
  <2>6. SentIsMailed' BY <1>u, <1>t DEF SentIsMailed, At, Free, Idle
  <2>q. QED BY <2>1, <2>2, <2>3, <2>4, <2>5, <2>6 DEF QuotationsInv
<1>1. ASSUME NEW a \in Offered, NEW s \in DeliveryStatus, CreateQuotation(h, a, s)
      PROVE  QuotationsInv'
  <2> DEFINE r == [pc |-> "quote.insert", amount |-> a, status |-> s]
  <2>1. r \in QuotationRequest BY DEF QuotationRequest
  <2>b. Begin(h, r) BY <1>1 DEF CreateQuotation
  <2>p. r.pc = "quote.insert" OBVIOUS
  <2> HIDE DEF r
  <2>2. /\ req'[h].pc = "quote.insert"
        /\ \A k \in Handlers \ {h} : req'[k] = req[k]
        /\ req' \in [Handlers -> QuotationRequest \cup {Idle}]
        /\ faults' = faults
    BY <2>b, <2>p, <2>1, <1>r, BeginChange
  <2>q. QED BY <1>1, <1>u, <2>2 DEF CreateQuotation, Sending
<1>2. ASSUME NEW q \in QuotationIds, DraftToSent(h, q) PROVE QuotationsInv'
  <2> DEFINE r == [pc |-> "quote.sent", id |-> q, amount |-> quotations[q].amount]
  <2>1. q \in Live(quotations) /\ quotations[q].amount \in Offered
    BY <1>2, <1>l DEF DraftToSent, Quotation
  <2>2. r \in QuotationRequest BY <2>1 DEF QuotationRequest
  <2>3. /\ req'[h] = r
        /\ \A k \in Handlers \ {h} : req'[k] = req[k]
        /\ req' \in [Handlers -> QuotationRequest \cup {Idle}]
        /\ faults' = faults
    BY <1>2, <2>2, <1>r, BeginChange DEF DraftToSent
  <2>q. QED BY <1>2, <1>u, <2>1, <2>3 DEF DraftToSent, Sending
<1>3. ASSUME NEW q \in QuotationIds, NEW a \in Offered, UpdateQuotation(h, q, a)
      PROVE  QuotationsInv'
  <2> DEFINE r == [pc |-> "quote.update", id |-> q, amount |-> a]
  <2>1. r \in QuotationRequest BY DEF QuotationRequest
  <2>2. /\ req'[h] = r
        /\ \A k \in Handlers \ {h} : req'[k] = req[k]
        /\ req' \in [Handlers -> QuotationRequest \cup {Idle}]
        /\ faults' = faults
    BY <1>3, <2>1, <1>r, BeginChange DEF UpdateQuotation
  <2>q. QED BY <1>3, <1>u, <2>2 DEF UpdateQuotation, Sending
<1>4. ASSUME NEW q \in QuotationIds, RemoveQuotation(h, q) PROVE QuotationsInv'
  <2> DEFINE r == [pc |-> "quote.delete", id |-> q, amount |-> quotations[q].amount]
  <2>1. q \in Live(quotations) /\ quotations[q].amount \in Offered
    BY <1>4, <1>l DEF RemoveQuotation, Quotation
  <2>2. r \in QuotationRequest BY <2>1 DEF QuotationRequest
  <2>3. /\ req'[h] = r
        /\ \A k \in Handlers \ {h} : req'[k] = req[k]
        /\ req' \in [Handlers -> QuotationRequest \cup {Idle}]
        /\ faults' = faults
    <3>1. Begin(h, r) BY <1>4 DEF RemoveQuotation
    <3> HIDE DEF r
    <3>q. QED BY <2>2, <3>1, <1>r, BeginChange
  <2>q. QED BY <1>4, <1>u, <2>1, <2>3 DEF RemoveQuotation, Sending
<1>5. CASE InsertQuotation(h)
  <2> DEFINE new == [amount |-> req[h].amount, status |-> req[h].status]
  <2>1. req[h].amount \in Offered /\ req[h].status \in DeliveryStatus
    BY <1>5, <1>r DEF InsertQuotation, At, QuotationRequest, Idle
  <2>2. PICK q \in QuotationIds :
            /\ IsNext(q, quotations)
            /\ quotations' = [quotations EXCEPT ![q] = new]
            /\ IF req[h].status = "DRAFT" THEN Done(h)
               ELSE Begin(h, [pc |-> "quote.mail", id |-> q, amount |-> req[h].amount])
    BY <1>5 DEF InsertQuotation
  <2>3. [pc |-> "quote.mail", id |-> q, amount |-> req[h].amount] \in QuotationRequest
    BY <2>1 DEF QuotationRequest
  <2>4. /\ \A k \in Handlers \ {h} : req'[k] = req[k]
        /\ req' \in [Handlers -> QuotationRequest \cup {Idle}]
        /\ faults' = faults
        /\ IF req[h].status = "DRAFT" THEN req'[h] = Idle
           ELSE req'[h] = [pc |-> "quote.mail", id |-> q, amount |-> req[h].amount]
    <3>1. CASE req[h].status = "DRAFT"
      <4>1. Done(h) BY <2>2, <3>1
      <4>q. QED BY <3>1, <4>1, <1>r, DoneChange
    <3>2. CASE req[h].status # "DRAFT"
      <4> DEFINE r == [pc |-> "quote.mail", id |-> q, amount |-> req[h].amount]
      <4>1. Begin(h, r) /\ r \in QuotationRequest BY <2>2, <2>3, <3>2
      <4> HIDE DEF r
      <4>2. /\ req'[h] = r /\ \A k \in Handlers \ {h} : req'[k] = req[k]
            /\ req' \in [Handlers -> QuotationRequest \cup {Idle}]
            /\ faults' = faults
        BY <4>1, <1>r, BeginChange
      <4>q. QED BY <3>2, <4>2 DEF r
    <3>q. QED BY <3>1, <3>2
  <2>5. new \in Quotation BY <2>1 DEF Quotation
  <2>6. /\ quotations[q] = None /\ received[q] = {}
        /\ quotations' \in [QuotationIds -> Quotation \cup {None, Gone}]
        /\ quotations'[q] = new
        /\ \A p \in QuotationIds \ {q} : quotations'[p] = quotations[p]
        /\ received' = received /\ bygone' = bygone
    BY <1>5, <1>t, <2>2, <2>5, <1>r DEF IsNext, InsertQuotation, NothingInAdvance
  <2>7. \A p : p \in Live(quotations)' <=> p \in QuotationIds /\ quotations'[p] \in Quotation
    BY <2>6, QuotationNone DEF Live
  <2>8. new.amount = req[h].amount /\ new.status = req[h].status OBVIOUS
  <2>9. \A k \in Handlers \ {h} : Sending(k) \/ req[k].pc \in {"quote.update", "quote.delete"}
                                    => req[k].id # q
    BY <1>t, <2>6 DEF QuotationIsThere
  <2>10. At(h, "quote.insert") BY <1>5 DEF InsertQuotation
  <2> HIDE DEF new
  <2>11. QuotationsTypeOK' BY <1>r, <2>4, <2>6 DEF QuotationsTypeOK
  <2>12. QuotationIsThere'
    BY <1>t, <1>n, <2>1, <2>4, <2>5, <2>6, <2>9 DEF QuotationIsThere, Sending, Idle
  <2>13. MailedIsSent'
    BY <1>t, <1>l, <2>1, <2>4, <2>6, <2>7, <2>8, <2>9
       DEF MailedIsSent, QuotationIsThere, Mailing, Sending, Idle, DeliveryStatus
  <2>14. AmountIsCurrent'
    BY <1>t, <1>l, <2>4, <2>5, <2>6, <2>7, <2>8, <2>9
       DEF AmountIsCurrent, QuotationIsThere, Sending, Idle
  <2>15. NothingInAdvance' BY <1>t, <1>n, <2>5, <2>6 DEF NothingInAdvance
  <2>16. SentIsMailed'
    <3> SUFFICES ASSUME NEW p \in Live(quotations)'
                 PROVE  IF quotations'[p].status = "DRAFT" THEN received'[p] = {}
                        ELSE \/ received'[p] # {}
                             \/ faults' > 0
                             \/ \E k \in Handlers : At(k, "quote.mail")' /\ req'[k].id = p
      BY DEF SentIsMailed
    <3>1. CASE p = q BY <3>1, <2>4, <2>6, <2>8 DEF At
    <3>2. CASE p # q
      <4>1. p \in Live(quotations) BY <3>2, <1>l, <2>6, <2>7
      <4>2. p \in QuotationIds /\ quotations'[p] = quotations[p] BY <3>2, <2>6, <2>7
      <4>q. QED BY <4>1, <4>2, <1>t, <2>4, <2>6, <2>10 DEF SentIsMailed, At
    <3>q. QED BY <3>1, <3>2
  <2>q. QED BY <2>11, <2>12, <2>13, <2>14, <2>15, <2>16 DEF QuotationsInv
<1>6. CASE MarkSent(h)
  <2> DEFINE i == req[h].id
             new == [quotations[i] EXCEPT !.status = "SENT"]
  <2>1. At(h, "quote.sent") /\ req[h] \in QuotationRequest /\ i \in QuotationIds
    BY <1>6, <1>r, <1>t DEF MarkSent, At, QuotationIsThere, Sending, Idle
  <2>2. CASE i \notin Live(quotations)
    <3>1. Done(h) /\ UNCHANGED quotes BY <1>6, <2>2 DEF MarkSent
    <3>2. /\ req'[h] = Idle
          /\ \A k \in Handlers \ {h} : req'[k] = req[k]
          /\ req' \in [Handlers -> QuotationRequest \cup {Idle}]
          /\ faults' = faults
      BY <3>1, <1>r, DoneChange
    <3>q. QED BY <1>t, <2>1, <3>1, <3>2
          DEF QuotationsInv, QuotationsTypeOK, QuotationIsThere, MailedIsSent,
              AmountIsCurrent, NothingInAdvance, SentIsMailed, Sending, Mailing, At, Idle
  <2>3. CASE i \in Live(quotations)
    <3>1. /\ Step(h, "quote.mail") /\ received' = received /\ bygone' = bygone
          /\ quotations' = [quotations EXCEPT ![i].status = "SENT"]
      BY <1>6, <2>3 DEF MarkSent
    <3>2. [req[h] EXCEPT !.pc = "quote.mail"] \in QuotationRequest
      BY <2>1 DEF QuotationRequest, At
    <3>3. /\ req'[h] = [req[h] EXCEPT !.pc = "quote.mail"]
          /\ \A k \in Handlers \ {h} : req'[k] = req[k]
          /\ req' \in [Handlers -> QuotationRequest \cup {Idle}]
          /\ faults' = faults
      BY <3>1, <3>2, <1>r, StepChange
    <3>4. req'[h].pc = "quote.mail" /\ req'[h].id = i /\ req'[h].amount = req[h].amount
      BY <2>1, <3>3 DEF QuotationRequest, At
    <3>5. quotations[i] \in Quotation BY <2>3, <1>l
    <3>6. new \in Quotation /\ new.status = "SENT" /\ new.amount = quotations[i].amount
      BY <3>5 DEF Quotation, DeliveryStatus
    <3>7. /\ quotations' \in [QuotationIds -> Quotation \cup {None, Gone}]
          /\ quotations'[i] = new
          /\ \A p \in QuotationIds \ {i} : quotations'[p] = quotations[p]
      BY <2>1, <3>1, <3>6, <1>r
    <3>a. /\ req[h].id = i /\ req[h].amount \in Offered
          /\ Sending(h) /\ ~Mailing(h) /\ quotations[i] # None
          /\ Sending(h)' /\ Mailing(h)'
      BY <2>1, <3>4, <1>t DEF At, QuotationIsThere, Sending, Mailing
    <3>b. \A k \in Handlers \ {h} : (Sending(k)' <=> Sending(k)) /\ (Mailing(k)' <=> Mailing(k))
      BY <3>3 DEF Sending, Mailing
    <3> HIDE DEF i, new
    <3>8. \A p : p \in Live(quotations)' <=> p \in QuotationIds /\ quotations'[p] \in Quotation
      BY <3>7, QuotationNone DEF Live
    <3>9. \A p : p \in Live(quotations)' <=> p \in Live(quotations)
      BY <1>l, <3>5, <3>6, <3>7, <3>8
    <3>10. QuotationsTypeOK' BY <1>r, <3>1, <3>3, <3>7 DEF QuotationsTypeOK
    <3>11. QuotationIsThere'
      <4>1. ASSUME NEW k \in Handlers,
                   Sending(k)' \/ req'[k].pc \in {"quote.update", "quote.delete"}
            PROVE  /\ req'[k].id \in QuotationIds
                   /\ req'[k].amount \in Offered
                   /\ quotations'[req'[k].id] # None
        <5>1. CASE k = h BY <5>1, <1>n, <2>1, <3>4, <3>6, <3>7, <3>a
        <5>2. CASE k # h
          <6>1. /\ req[k].id \in QuotationIds
                /\ req[k].amount \in Offered
                /\ quotations[req[k].id] # None
            BY <4>1, <5>2, <1>t, <3>3, <3>b DEF QuotationIsThere
          <6>q. QED BY <5>2, <6>1, <1>n, <3>3, <3>6, <3>7
        <5>q. QED BY <5>1, <5>2
      <4>q. QED BY <4>1 DEF QuotationIsThere
    <3>12. MailedIsSent'
      <4>1. ASSUME NEW k \in Handlers, Mailing(k)', req'[k].id \in Live(quotations)'
            PROVE  quotations'[req'[k].id].status = "SENT"
        <5>1. CASE req'[k].id = i BY <5>1, <3>6, <3>7
        <5>2. CASE req'[k].id # i
          <6>1. k # h /\ req'[k] = req[k] /\ Mailing(k) BY <4>1, <5>2, <3>3, <3>4, <3>b
          <6>2. req[k].id \in Live(quotations) BY <4>1, <6>1, <3>9
          <6>3. req[k].id \in QuotationIds /\ quotations'[req[k].id] = quotations[req[k].id]
            BY <6>1, <6>2, <5>2, <1>l, <3>7
          <6>q. QED BY <6>1, <6>2, <6>3, <1>t DEF MailedIsSent
        <5>q. QED BY <5>1, <5>2
      <4>q. QED BY <4>1 DEF MailedIsSent
    <3>13. AmountIsCurrent'
      <4>1. ASSUME NEW k \in Handlers \ bygone, Sending(k)'
            PROVE  /\ req'[k].id \in Live(quotations)'
                   /\ quotations'[req'[k].id].amount = req'[k].amount
        <5>1. Sending(k) /\ req'[k].id = req[k].id /\ req'[k].amount = req[k].amount
          BY <4>1, <3>3, <3>4, <3>a, <3>b
        <5>2. req[k].id \in Live(quotations) /\ quotations[req[k].id].amount = req[k].amount
          BY <5>1, <1>t DEF AmountIsCurrent
        <5>q. QED BY <5>1, <5>2, <1>l, <3>6, <3>7, <3>9
      <4>q. QED BY <4>1, <3>1 DEF AmountIsCurrent
    <3>14. NothingInAdvance' BY <1>t, <1>n, <3>1, <3>6, <3>7 DEF NothingInAdvance
    <3>15. SentIsMailed'
      <4> SUFFICES ASSUME NEW p \in Live(quotations)'
                   PROVE  IF quotations'[p].status = "DRAFT" THEN received'[p] = {}
                          ELSE \/ received'[p] # {}
                               \/ faults' > 0
                               \/ \E k \in Handlers : At(k, "quote.mail")' /\ req'[k].id = p
        BY DEF SentIsMailed
      <4>1. CASE p = i BY <4>1, <3>4, <3>6, <3>7 DEF At
      <4>2. CASE p # i
        <5>1. p \in Live(quotations) /\ quotations'[p] = quotations[p]
          BY <4>2, <3>7, <3>8, <3>9
        <5>q. QED BY <5>1, <1>t, <2>1, <3>1, <3>3 DEF SentIsMailed, At
      <4>q. QED BY <4>1, <4>2
    <3>q. QED BY <3>10, <3>11, <3>12, <3>13, <3>14, <3>15 DEF QuotationsInv
  <2>q. QED BY <2>2, <2>3
<1>7. CASE MailQuotation(h)
  <2> DEFINE i == req[h].id
  <2>1. /\ Mailing(h) /\ req[h] \in QuotationRequest /\ i \in QuotationIds
        /\ req[h].amount \in Offered /\ quotations[i] # None
    BY <1>7, <1>r, <1>t DEF MailQuotation, At, QuotationIsThere, Sending, Mailing, Idle
  <2>2. [req[h] EXCEPT !.pc = "quote.again"] \in QuotationRequest
    BY <2>1 DEF QuotationRequest, Mailing
  <2>3. /\ \A k \in Handlers \ {h} : req'[k] = req[k]
        /\ req' \in [Handlers -> QuotationRequest \cup {Idle}]
        /\ faults' \in 0..MaxFaults
        /\ \/ faults' = faults + 1 /\ req'[h] = Idle
           \/ faults' = faults /\ req'[h] = Idle
           \/ faults' = faults /\ req'[h] = [req[h] EXCEPT !.pc = "quote.again"]
    <3>1. CASE Fail(h) BY <3>1, <1>r, FailChange
    <3>2. CASE Done(h) BY <3>2, <1>r, DoneChange
    <3>3. CASE Step(h, "quote.again") BY <3>3, <2>2, <1>r, StepChange
    <3>q. QED BY <1>7, <3>1, <3>2, <3>3 DEF MailQuotation
  <2>4. /\ req'[h] = Idle \/ (/\ req'[h].pc = "quote.again" /\ req'[h].id = i
                              /\ req'[h].amount = req[h].amount)
        /\ UNCHANGED <<quotations, bygone>>
    BY <1>7, <2>1, <2>3 DEF MailQuotation, QuotationRequest, Mailing
  <2>5. received' = received \/ received' = [received EXCEPT ![i] = @ \cup {req[h].amount}]
    BY <1>7 DEF MailQuotation
  <2>6. faults' = faults => received' = [received EXCEPT ![i] = @ \cup {req[h].amount}]
    BY <1>7 DEF MailQuotation
  <2> HIDE DEF i
  <2>7. /\ received' \in [QuotationIds -> SUBSET Offered]
        /\ \A p \in QuotationIds \ {i} : received'[p] = received[p]
        /\ faults' = faults => received'[i] # {}
    BY <2>1, <2>5, <2>6, <1>r
  <2>8. QuotationsTypeOK' BY <1>r, <2>3, <2>4, <2>7 DEF QuotationsTypeOK
  <2>9. QuotationIsThere'
    BY <1>t, <2>1, <2>3, <2>4 DEF QuotationIsThere, Sending, Idle
  <2>10. MailedIsSent' BY <1>t, <2>1, <2>3, <2>4 DEF MailedIsSent, Mailing, Idle, i
  <2>11. AmountIsCurrent'
    BY <1>t, <2>1, <2>3, <2>4 DEF AmountIsCurrent, Sending, Mailing, Idle, i
  <2>12. NothingInAdvance' BY <1>t, <2>1, <2>4, <2>7 DEF NothingInAdvance
  <2>13. SentIsMailed'
    <3> SUFFICES ASSUME NEW p \in Live(quotations)
                 PROVE  IF quotations[p].status = "DRAFT" THEN received'[p] = {}
                        ELSE \/ received'[p] # {}
                             \/ faults' > 0
                             \/ \E k \in Handlers : At(k, "quote.mail")' /\ req'[k].id = p
      BY <2>4 DEF SentIsMailed
    <3>0. p \in QuotationIds /\ quotations[p].status \in DeliveryStatus
      BY <1>l DEF Quotation
    <3>1. CASE p = i
      <4>1. quotations[p].status = "SENT" BY <3>1, <1>t, <2>1 DEF MailedIsSent, i
      <4>2. faults' = faults \/ faults' > 0 BY <2>3, <1>r, BackendAssumption
      <4>q. QED BY <3>1, <4>1, <4>2, <2>7
    <3>2. CASE p # i
      <4>1. received'[p] = received[p] BY <3>0, <3>2, <2>7
      <4>2. \A k \in Handlers : At(k, "quote.mail") /\ req[k].id = p =>
                At(k, "quote.mail")' /\ req'[k].id = p
        BY <3>2, <2>3 DEF At, i
      <4>3. faults > 0 => faults' > 0 BY <2>3, <1>r, BackendAssumption
      <4>q. QED BY <4>1, <4>2, <4>3, <1>t DEF SentIsMailed
    <3>q. QED BY <3>1, <3>2
  <2>q. QED BY <2>8, <2>9, <2>10, <2>11, <2>12, <2>13 DEF QuotationsInv
<1>8. CASE WriteQuotation(h) \/ DeleteQuotation(h)
  <2> DEFINE i == req[h].id
  <2>1. /\ req[h].pc \in {"quote.update", "quote.delete"} /\ i \in QuotationIds
        /\ req[h].amount \in Offered /\ quotations[i] # None
    BY <1>8, <1>t DEF WriteQuotation, DeleteQuotation, At, QuotationIsThere
  <2>2. /\ req'[h] = Idle
        /\ \A k \in Handlers \ {h} : req'[k] = req[k]
        /\ req' \in [Handlers -> QuotationRequest \cup {Idle}]
        /\ faults' = faults
    BY <1>8, <1>r, DoneChange DEF WriteQuotation, DeleteQuotation
  <2>3. \/ UNCHANGED quotes
        \/ /\ Overtakes(h, i) /\ received' = received
           /\ \/ /\ i \in Live(quotations)
                 /\ quotations' = [quotations EXCEPT ![i].amount = req[h].amount]
              \/ quotations' = [quotations EXCEPT ![i] = Gone]
    BY <1>8 DEF WriteQuotation, DeleteQuotation
  <2>4. CASE UNCHANGED quotes
    BY <1>t, <2>1, <2>2, <2>4
       DEF QuotationsInv, QuotationsTypeOK, QuotationIsThere, MailedIsSent, AmountIsCurrent,
           NothingInAdvance, SentIsMailed, Sending, Mailing, At, Idle
  <2>5. ASSUME NEW row \in Quotation \cup {Gone},
               quotations' = [quotations EXCEPT ![i] = row],
               row \in Quotation => i \in Live(quotations) /\ row.status = quotations[i].status,
               Overtakes(h, i), received' = received
        PROVE  QuotationsInv'
    <3> HIDE DEF i
    <3>1. /\ quotations' \in [QuotationIds -> Quotation \cup {None, Gone}]
          /\ quotations'[i] = row
          /\ \A p \in QuotationIds \ {i} : quotations'[p] = quotations[p]
      BY <2>1, <2>5, <1>r
    <3>2. \A p : p \in Live(quotations)' <=> p \in QuotationIds /\ quotations'[p] \in Quotation
      BY <3>1, QuotationNone DEF Live
    <3>3. /\ \A p \in Live(quotations)' : p \in Live(quotations)
                                /\ quotations'[p].status = quotations[p].status
          /\ \A p \in Live(quotations) : p # i =>
                p \in Live(quotations)' /\ quotations'[p] = quotations[p]
      BY <1>l, <2>5, <3>1, <3>2
    <3>4. bygone' \subseteq Handlers /\ bygone \subseteq bygone'
      BY <2>5, <1>r DEF Overtakes
    <3>5. \A k \in Handlers \ {h} : Sending(k) /\ req[k].id = i => k \in bygone'
      BY <2>5 DEF Overtakes, Sending, Free, At, Idle
    <3>6. QuotationsTypeOK' BY <1>r, <2>2, <2>5, <3>1, <3>4 DEF QuotationsTypeOK
    <3>7. row # None BY <1>n, BackendAssumption
    <3>8. QuotationIsThere'
      BY <1>t, <2>2, <3>1, <3>7 DEF QuotationIsThere, Sending, Idle
    <3>9. MailedIsSent' BY <1>t, <2>2, <3>3 DEF MailedIsSent, Mailing, Idle
    <3>10. AmountIsCurrent'
      BY <1>t, <2>2, <3>3, <3>4, <3>5 DEF AmountIsCurrent, Sending, Idle
    <3>11. NothingInAdvance' BY <1>t, <2>5, <3>1, <3>7 DEF NothingInAdvance
    <3>12. SentIsMailed' BY <1>t, <2>1, <2>2, <2>5, <3>3 DEF SentIsMailed, At, Idle
    <3>q. QED BY <3>6, <3>8, <3>9, <3>10, <3>11, <3>12 DEF QuotationsInv
  <2>6. CASE /\ Overtakes(h, i) /\ received' = received /\ i \in Live(quotations)
             /\ quotations' = [quotations EXCEPT ![i].amount = req[h].amount]
    <3> DEFINE row == [quotations[i] EXCEPT !.amount = req[h].amount]
    <3>1. quotations[i] \in Quotation BY <2>6, <1>l
    <3>2. row \in Quotation /\ row.status = quotations[i].status
      BY <2>1, <3>1 DEF Quotation
    <3>3. quotations' = [quotations EXCEPT ![i] = row] BY <2>6, <1>r
    <3> HIDE DEF row, i
    <3>q. QED BY <2>5, <2>6, <3>2, <3>3
  <2>7. CASE /\ Overtakes(h, i) /\ received' = received
             /\ quotations' = [quotations EXCEPT ![i] = Gone]
    <3> HIDE DEF i
    <3>q. QED BY <2>5, <2>7, <1>n
  <2>q. QED BY <2>3, <2>4, <2>6, <2>7
<1>q. QED BY <1>1, <1>2, <1>3, <1>4, <1>5, <1>6, <1>7, <1>8 DEF QuotationHandler

LEMMA QuotationsInvariance == QuotationsSpec => []QuotationsInv
<1>1. BackendInit /\ QuotationsInit => QuotationsInv
  <2> SUFFICES ASSUME BackendInit, QuotationsInit PROVE QuotationsInv
    OBVIOUS
  <2>1. /\ req \in [Handlers -> QuotationRequest \cup {Idle}]
        /\ \A k \in Handlers : req[k] = Idle
        /\ faults = 0 /\ faults \in 0..MaxFaults
    BY InitialRequests
  <2>2. Live(quotations) = {} BY DEF Live, QuotationsInit
  <2>q. QED BY <2>1, <2>2
        DEF QuotationsInit, QuotationsInv, QuotationsTypeOK, QuotationIsThere, MailedIsSent,
            AmountIsCurrent, NothingInAdvance, SentIsMailed, Sending, Mailing, Idle
<1>2. QuotationsInv /\ [QuotationsNext]_<<backend, quotes>> => QuotationsInv'
  <2>1. ASSUME QuotationsInv, UNCHANGED <<backend, quotes>> PROVE QuotationsInv'
    BY <2>1
       DEF backend, quotes, QuotationsInv, QuotationsTypeOK, QuotationIsThere, MailedIsSent,
           AmountIsCurrent, NothingInAdvance, SentIsMailed, Sending, Mailing, At
  <2>2. ASSUME QuotationsInv, Restart, UNCHANGED quotes PROVE QuotationsInv'
    <3>1. /\ \A k \in Handlers : req'[k] = Idle
          /\ req' \in [Handlers -> QuotationRequest \cup {Idle}]
          /\ faults' = faults + 1 /\ faults' \in 0..MaxFaults /\ faults \in 0..MaxFaults
      BY <2>2, RestartChange DEF QuotationsInv, QuotationsTypeOK
    <3>2. faults' > 0 BY <3>1, BackendAssumption
    <3>q. QED BY <2>2, <3>1, <3>2
          DEF quotes, QuotationsInv, QuotationsTypeOK, QuotationIsThere, MailedIsSent,
              AmountIsCurrent, NothingInAdvance, SentIsMailed, Sending, Mailing, Idle
  <2>q. QED BY <2>1, <2>2, QuotationStep DEF QuotationsNext
<1>q. QED BY <1>1, <1>2, PTL DEF QuotationsSpec

(* The status of a quotation agrees with the mailbox of the client.        *)
THEOREM StatusTellsMail == QuotationsSpec => []SentIsMailed
<1>1. QuotationsInv => SentIsMailed BY DEF QuotationsInv
<1>q. QED BY <1>1, QuotationsInvariance, PTL

(* A client reads the amount of the row, or one that was changed while the *)
(* mail was on its way.                                                    *)
THEOREM MailedAmountIsCurrent == QuotationsSpec => MailIsCurrent
<1>1. QuotationsInv /\ [QuotationsNext]_<<backend, quotes>> =>
        [\A q \in QuotationIds : received'[q] # received[q] =>
            \E h \in Handlers :
                /\ req[h] # Idle /\ ~At(h, "quote.insert") /\ req[h].id = q
                /\ \/ h \in bygone
                   \/ q \in Live(quotations) /\ quotations[q].amount = req[h].amount]_quotes
  <2> SUFFICES ASSUME QuotationsInv, QuotationsNext, NEW q \in QuotationIds,
                      received'[q] # received[q]
               PROVE  \E h \in Handlers :
                /\ req[h] # Idle /\ ~At(h, "quote.insert") /\ req[h].id = q
                /\ \/ h \in bygone
                   \/ q \in Live(quotations) /\ quotations[q].amount = req[h].amount
    BY DEF backend, quotes
  <2>t. QuotationsTypeOK /\ AmountIsCurrent BY DEF QuotationsInv
  <2>1. PICK h \in Handlers : MailQuotation(h)
    BY DEF QuotationsNext, QuotationHandler, CreateQuotation, InsertQuotation, DraftToSent,
       MarkSent, UpdateQuotation, WriteQuotation, RemoveQuotation, DeleteQuotation, quotes
  <2>2. req[h].id = q BY <2>1, <2>t DEF MailQuotation, QuotationsTypeOK
  <2>3. Mailing(h) BY <2>1 DEF MailQuotation, Mailing, At
  <2>q. QED BY <2>t, <2>2, <2>3 DEF AmountIsCurrent, Mailing, Sending, At, Idle
<1>q. QED BY <1>1, QuotationsInvariance, PTL DEF QuotationsSpec, MailIsCurrent
-----------------------------------------------------------------------------
(* Clients and their accountants.                                          *)

LinkSpec == BackendInit /\ LinkInit /\ [][LinkNext]_<<backend, accountantLink>>

(* A handler that is about to write has read the rows it writes.           *)
RowsAreRead ==
    \A h \in Handlers :
        /\ req[h].pc \in {"request.create", "approve.link", "add.check", "add.link",
                          "remove.unlink", "preview.check", "preview.find",
                          "preview.update", "role.update"} => req[h].client \in Clients
        /\ req[h].pc \in {"approve.update", "approve.link", "add.check", "add.link",
                          "remove.unlink", "preview.check", "preview.find",
                          "preview.update"} => req[h].acc \in Accountants
        /\ req[h].pc \in {"approve.update", "approve.link", "reject.update"} =>
                /\ req[h].of \in Requests
                /\ requests[req[h].of] # None

(* What it decided on still holds, unless the row was changed since.       *)
SeenIsCurrent ==
    \A h \in Handlers \ stale :
        /\ At(h, "add.link") => link[req[h].client] = None
        /\ At(h, "remove.unlink") => link[req[h].client] = req[h].acc
        /\ At(h, "preview.find") \/ At(h, "preview.update") =>
                IsClientOf(req[h].client, req[h].acc)

LinkInv ==
    /\ LinkTypeOK
    /\ RowsAreRead
    /\ SeenIsCurrent
    /\ ApprovalLinks

(* The approved requests whose client will never hear of it.               *)
Unlinked ==
    {r \in Requests \ linkedBy :
        /\ requests[r] # None /\ requests[r].status = "APPROVED"
        /\ ~\E h \in Handlers : At(h, "approve.link") /\ req[h].of = r}

LEMMA UnlinkedBound ==
  ApprovalLinks <=> Cardinality(Unlinked) <= faults * Cardinality(Handlers)
  BY DEF ApprovalLinks, Unlinked

LEMMA UnlinkedIsFinite == IsFiniteSet(Unlinked)
<1>1. IsFiniteSet(Requests)
  BY LinkAssumption, FS_Interval DEF Requests
<1>q. QED BY <1>1, FS_Subset DEF Unlinked

(* ApprovalLinks survives a step that makes no request Unlinked.           *)
LEMMA FewerUnlinked ==
  ASSUME LinkTypeOK, ApprovalLinks, Unlinked' \subseteq Unlinked, faults' = faults
  PROVE  ApprovalLinks'
<1> DEFINE n == faults * Cardinality(Handlers)
<1>1. n \in Nat
  <2>1. faults \in Nat /\ Cardinality(Handlers) \in Nat
    BY BackendAssumption, FS_CardinalityType DEF LinkTypeOK
  <2>q. QED BY <2>1
<1>2. Cardinality(Unlinked) <= n BY UnlinkedBound
<1> HIDE DEF n
<1>3. Cardinality(Unlinked') <= n BY <1>1, <1>2, UnlinkedIsFinite, FewerLost
<1>q. QED BY <1>3 DEF n, ApprovalLinks, Unlinked

(* A handler that only moves on, or arrives, without writing a row.        *)
LEMMA LinkMove ==
  ASSUME LinkInv, NEW h \in Handlers, NEW r \in LinkRequest \cup {Idle},
         UNCHANGED <<link, isUser, requests, previewed, linkedBy, faults>>,
         stale' \in {stale, stale \ {h}},
         req'[h] = r, \A k \in Handlers \ {h} : req'[k] = req[k],
         req' \in [Handlers -> LinkRequest \cup {Idle}],
         ~At(h, "approve.link"),
         r.pc \in {"request.create", "add.check", "add.link", "remove.unlink",
                   "preview.check", "preview.find", "preview.update",
                   "role.update"} => r.client \in Clients,
         r.pc \in {"approve.update", "add.check", "add.link", "remove.unlink",
                   "preview.check", "preview.find", "preview.update"} =>
                   r.acc \in Accountants,
         r.pc \in {"approve.update", "reject.update"} =>
                   r.of \in Requests /\ requests[r.of] # None,
         r.pc # "approve.link",
         r.pc = "preview.update" =>
            At(h, "preview.find") /\ stale' = stale
            /\ r.client = req[h].client /\ r.acc = req[h].acc,
         r.pc = "add.link" => link[r.client] = None,
         r.pc = "remove.unlink" => link[r.client] = r.acc,
         r.pc = "preview.find" => IsClientOf(r.client, r.acc)
  PROVE  LinkInv'
<1>t. LinkTypeOK /\ RowsAreRead /\ SeenIsCurrent /\ ApprovalLinks BY DEF LinkInv
<1>1. LinkTypeOK' BY <1>t DEF LinkTypeOK
<1>2. RowsAreRead' BY <1>t DEF RowsAreRead
<1>3. SeenIsCurrent'
  <2>1. ASSUME NEW k \in Handlers \ stale', k # h
        PROVE  /\ At(k, "add.link")' => link'[req'[k].client] = None
               /\ At(k, "remove.unlink")' => link'[req'[k].client] = req'[k].acc
               /\ At(k, "preview.find")' \/ At(k, "preview.update")' =>
                        IsClientOf(req[k].client, req[k].acc)'
    BY <2>1, <1>t DEF SeenIsCurrent, At, IsClientOf
  <2>2. ASSUME h \notin stale'
        PROVE  /\ At(h, "add.link")' => link'[req'[h].client] = None
               /\ At(h, "remove.unlink")' => link'[req'[h].client] = req'[h].acc
               /\ At(h, "preview.find")' \/ At(h, "preview.update")' =>
                        IsClientOf(req[h].client, req[h].acc)'
    BY <2>2, <1>t DEF SeenIsCurrent, At, IsClientOf
  <2>q. QED BY <2>1, <2>2 DEF SeenIsCurrent
<1>4. ApprovalLinks'
  <2>1. Unlinked' \subseteq Unlinked BY DEF Unlinked, At
  <2>q. QED BY <2>1, <1>t, FewerUnlinked
<1>q. QED BY <1>1, <1>2, <1>3, <1>4 DEF LinkInv

(* A handler that writes the row of client c and answers.                  *)
LEMMA LinkWrite ==
  ASSUME LinkInv, NEW h \in Handlers, NEW c \in Clients, req[h].client = c, ~Free(h),
         Writes(c), Done(h),
         UNCHANGED <<requests, previewed>>,
         link' \in [Clients -> Accountants \cup {None}], isUser' \subseteq Clients,
         linkedBy' \subseteq Requests,
         \A d \in Clients \ {c} : link'[d] = link[d] /\ (d \in isUser' <=> d \in isUser),
         linkedBy' = IF At(h, "approve.link") THEN linkedBy \cup {req[h].of} ELSE linkedBy
  PROVE  LinkInv'
<1>t. LinkTypeOK /\ RowsAreRead /\ SeenIsCurrent /\ ApprovalLinks BY DEF LinkInv
<1>r. /\ req'[h] = Idle
      /\ \A k \in Handlers \ {h} : req'[k] = req[k]
      /\ req' \in [Handlers -> LinkRequest \cup {Idle}]
      /\ faults' = faults
  BY <1>t, DoneChange DEF LinkTypeOK
<1>1. LinkTypeOK' BY <1>t, <1>r DEF LinkTypeOK, Writes
<1>2. RowsAreRead' BY <1>t, <1>r DEF RowsAreRead, Idle
<1>3. SeenIsCurrent'
  <2>1. ASSUME NEW k \in Handlers \ stale', k # h
        PROVE  /\ At(k, "add.link")' => link'[req'[k].client] = None
               /\ At(k, "remove.unlink")' => link'[req'[k].client] = req'[k].acc
               /\ At(k, "preview.find")' \/ At(k, "preview.update")' =>
                        IsClientOf(req[k].client, req[k].acc)'
    <3>1. k \notin stale /\ (Free(k) \/ req[k].client # c) BY <2>1 DEF Writes
    <3>q. QED BY <2>1, <3>1, <1>t, <1>r
          DEF SeenIsCurrent, RowsAreRead, At, IsClientOf, Free, Idle
  <2>q. QED BY <2>1, <1>r DEF SeenIsCurrent, At, Idle
<1>4. ApprovalLinks'
  <2>1. Unlinked' \subseteq Unlinked BY <1>r DEF Unlinked, At
  <2>q. QED BY <2>1, <1>r, <1>t, FewerUnlinked
<1>q. QED BY <1>1, <1>2, <1>3, <1>4 DEF LinkInv

(* The moves that write the requests or the previews.                      *)
LEMMA RequestIsCreated ==
  ASSUME LinkInv, NEW h \in Handlers, CreateRequest(h) PROVE LinkInv'
<1>t. LinkTypeOK /\ RowsAreRead /\ SeenIsCurrent /\ ApprovalLinks BY DEF LinkInv
<1>r. /\ req'[h] = Idle
      /\ \A k \in Handlers \ {h} : req'[k] = req[k]
      /\ req' \in [Handlers -> LinkRequest \cup {Idle}]
      /\ faults' = faults
  BY <1>t, DoneChange DEF LinkTypeOK, CreateRequest
<1> DEFINE new == [client |-> req[h].client, status |-> "PENDING"]
<1>n. new \in AccountantRequest /\ new.status # "APPROVED"
  BY <1>t DEF CreateRequest, At, RowsAreRead, AccountantRequest
<1>p. PICK r \in Requests : requests[r] = None /\ requests' = [requests EXCEPT ![r] = new]
  BY DEF CreateRequest, IsNext
<1>q1. new # None BY <1>n, LinkNone
<1> HIDE DEF new
<1>s. /\ requests' \in [Requests -> AccountantRequest \cup {None}]
      /\ requests'[r] = new
      /\ \A q \in Requests \ {r} : requests'[q] = requests[q]
  BY <1>n, <1>p, <1>t DEF LinkTypeOK
<1>u. UNCHANGED <<link, isUser, previewed, stale, linkedBy>> BY DEF CreateRequest
<1>1. LinkTypeOK' BY <1>t, <1>r, <1>s, <1>u DEF LinkTypeOK
<1>2. RowsAreRead' BY <1>t, <1>r, <1>s, <1>q1 DEF RowsAreRead, Idle
<1>3. SeenIsCurrent' BY <1>t, <1>r, <1>u DEF SeenIsCurrent, At, IsClientOf, Idle
<1>4. ApprovalLinks'
  <2>1. At(h, "request.create") BY DEF CreateRequest
  <2>2. \A q : (\E k \in Handlers : At(k, "approve.link") /\ req[k].of = q)
                => \E k \in Handlers : At(k, "approve.link")' /\ req'[k].of = q
    BY <2>1, <1>r DEF At
  <2>3. Unlinked' \subseteq Unlinked BY <2>2, <1>n, <1>s, <1>u DEF Unlinked
  <2>q. QED BY <2>3, <1>r, <1>t, FewerUnlinked
<1>q. QED BY <1>1, <1>2, <1>3, <1>4 DEF LinkInv

LEMMA RequestIsAnswered ==
  ASSUME LinkInv, NEW h \in Handlers, ApproveRequest(h) \/ RejectRequest(h) PROVE LinkInv'
<1> DEFINE i == req[h].of
           s == IF At(h, "approve.update") THEN "APPROVED" ELSE "REJECTED"
           new == [requests[i] EXCEPT !.status = s]
           r == IF At(h, "approve.update")
                THEN [req[h] EXCEPT !.pc = "approve.link", !.client = requests[i].client]
                ELSE Idle
<1>t. LinkTypeOK /\ RowsAreRead /\ SeenIsCurrent /\ ApprovalLinks BY DEF LinkInv
<1>a. /\ At(h, "approve.update") \/ At(h, "reject.update")
      /\ i \in Requests /\ requests[i] # None
      /\ req[h] \in LinkRequest
      /\ At(h, "approve.update") => req[h].acc \in Accountants
  BY <1>t DEF ApproveRequest, RejectRequest, At, RowsAreRead, LinkTypeOK, Idle
<1>b. requests[i] \in AccountantRequest BY <1>a, <1>t DEF LinkTypeOK
<1>n. /\ new \in AccountantRequest /\ new # None
      /\ new.status = s /\ new.client = requests[i].client /\ new.client \in Clients
  <2>1. new \in AccountantRequest /\ new.status = s /\ new.client = requests[i].client
    BY <1>b DEF AccountantRequest
  <2>q. QED BY <2>1, LinkNone DEF AccountantRequest
<1>c. /\ r \in LinkRequest \cup {Idle}
      /\ At(h, "approve.update") =>
            /\ r.pc = "approve.link" /\ r.of = i /\ r.acc = req[h].acc
            /\ r.client \in Clients
      /\ ~At(h, "approve.update") => r = Idle
  <2>1. CASE At(h, "approve.update")
    <3>1. [req[h] EXCEPT !.pc = "approve.link", !.client = requests[i].client] \in LinkRequest
      BY <1>a, <1>b DEF LinkRequest, AccountantRequest
    <3>q. QED BY <2>1, <3>1, <1>a, <1>b DEF LinkRequest, AccountantRequest
  <2>q. QED BY <2>1
<1>d. /\ requests' = [requests EXCEPT ![i] = new]
      /\ req' = [req EXCEPT ![h] = r] /\ faults' = faults
      /\ UNCHANGED <<link, isUser, previewed, stale, linkedBy>>
  BY <1>a DEF ApproveRequest, RejectRequest, At, Begin, Done
<1>e. At(h, "approve.update") <=> s = "APPROVED" OBVIOUS
<1> HIDE DEF i, s, new, r
<1>r. /\ req'[h] = r
      /\ \A k \in Handlers \ {h} : req'[k] = req[k]
      /\ req' \in [Handlers -> LinkRequest \cup {Idle}]
  BY <1>c, <1>d, <1>t DEF LinkTypeOK
<1>s. /\ requests' \in [Requests -> AccountantRequest \cup {None}]
      /\ requests'[i] = new
      /\ \A q \in Requests \ {i} : requests'[q] = requests[q]
  BY <1>a, <1>n, <1>d, <1>t DEF LinkTypeOK
<1>1. LinkTypeOK' BY <1>t, <1>r, <1>s, <1>d DEF LinkTypeOK
<1>2. RowsAreRead'
  BY <1>t, <1>a, <1>c, <1>n, <1>r, <1>s DEF RowsAreRead, Idle
<1>3. SeenIsCurrent'
  BY <1>t, <1>a, <1>c, <1>r, <1>d DEF SeenIsCurrent, At, IsClientOf, Idle
<1>4. ApprovalLinks'
  <2>1. \A q : (\E k \in Handlers : At(k, "approve.link") /\ req[k].of = q)
                => \E k \in Handlers : At(k, "approve.link")' /\ req'[k].of = q
    BY <1>a, <1>r DEF At
  <2>2. i \notin Unlinked'
    <3>1. CASE At(h, "approve.update") BY <3>1, <1>c, <1>r DEF Unlinked, At
    <3>2. CASE ~At(h, "approve.update") BY <3>2, <1>e, <1>n, <1>s DEF Unlinked
    <3>q. QED BY <3>1, <3>2
  <2>3. Unlinked' \subseteq Unlinked
    <3>1. SUFFICES ASSUME NEW q \in Unlinked' PROVE q \in Unlinked
      OBVIOUS
    <3>2. q \in Requests \ linkedBy /\ q # i BY <2>2, <1>d DEF Unlinked, Requests
    <3>3. requests'[q] = requests[q] BY <3>2, <1>s
    <3>q. QED BY <2>1, <3>2, <3>3 DEF Unlinked
  <2>q. QED BY <2>3, <1>d, <1>t, FewerUnlinked
<1>q. QED BY <1>1, <1>2, <1>3, <1>4 DEF LinkInv

LEMMA PurchaseIsPreviewed ==
  ASSUME LinkInv, NEW h \in Handlers, MarkPreviewed(h) PROVE LinkInv'
<1>t. LinkTypeOK /\ RowsAreRead /\ SeenIsCurrent /\ ApprovalLinks BY DEF LinkInv
<1>r. /\ req'[h] = Idle
      /\ \A k \in Handlers \ {h} : req'[k] = req[k]
      /\ req' \in [Handlers -> LinkRequest \cup {Idle}]
      /\ faults' = faults
  BY <1>t, DoneChange DEF LinkTypeOK, MarkPreviewed
<1>a. At(h, "preview.update") /\ req[h].client \in Clients /\ req[h].acc \in Accountants
  BY <1>t DEF MarkPreviewed, At, RowsAreRead
<1>p. previewed' \in [Clients -> SUBSET Accountants]
  BY <1>a, <1>t DEF MarkPreviewed, LinkTypeOK
<1>u. UNCHANGED <<link, isUser, requests, stale, linkedBy>> BY DEF MarkPreviewed
<1>1. LinkTypeOK' BY <1>t, <1>r, <1>p, <1>u DEF LinkTypeOK
<1>2. RowsAreRead' BY <1>t, <1>r, <1>u DEF RowsAreRead, Idle
<1>3. SeenIsCurrent' BY <1>t, <1>r, <1>u DEF SeenIsCurrent, At, IsClientOf, Idle
<1>4. ApprovalLinks'
  <2>1. Unlinked' \subseteq Unlinked BY <1>a, <1>r, <1>u DEF Unlinked, At
  <2>q. QED BY <2>1, <1>r, <1>t, FewerUnlinked
<1>q. QED BY <1>1, <1>2, <1>3, <1>4 DEF LinkInv

LEMMA LinkStep ==
  ASSUME LinkInv, NEW h \in Handlers, LinkHandler(h)
  PROVE  LinkInv'
<1> USE DEF accountantLink
<1>t. LinkTypeOK /\ RowsAreRead /\ SeenIsCurrent /\ ApprovalLinks BY DEF LinkInv
<1>y. /\ req \in [Handlers -> LinkRequest \cup {Idle}]
      /\ link \in [Clients -> Accountants \cup {None}]
      /\ isUser \subseteq Clients /\ linkedBy \subseteq Requests
  BY <1>t DEF LinkTypeOK
(* A handler arrives with the request r.                                   *)
<1>b. ASSUME NEW r \in LinkRequest, Free(h), Begin(h, r),
             UNCHANGED <<link, isUser, requests, previewed, linkedBy>>,
             stale' \in {stale, stale \ {h}},
             r.pc \in {"request.create", "approve.update", "reject.update", "add.check",
                       "remove.unlink", "preview.check", "role.update"},
             r.pc \in {"request.create", "add.check", "remove.unlink", "preview.check",
                       "role.update"} => r.client \in Clients,
             r.pc \in {"approve.update", "add.check", "remove.unlink", "preview.check"} =>
                r.acc \in Accountants,
             r.pc \in {"approve.update", "reject.update"} =>
                r.of \in Requests /\ requests[r.of] # None,
             r.pc = "remove.unlink" => link[r.client] = r.acc
      PROVE  LinkInv'
  <2>1. /\ req'[h] = r
        /\ \A k \in Handlers \ {h} : req'[k] = req[k]
        /\ req' \in [Handlers -> LinkRequest \cup {Idle}]
        /\ faults' = faults
    BY <1>b, <1>y, BeginChange
  <2>2. ~At(h, "approve.link") BY <1>b DEF Free, At, Idle
  <2>q. QED BY <1>b, <2>1, <2>2, LinkMove
(* It moves on to pc, or answers.                                          *)
<1>s. ASSUME NEW pc \in {"add.link", "preview.find", "preview.update"},
             ~Free(h), Step(h, pc) \/ Done(h),
             UNCHANGED <<link, isUser, requests, previewed, linkedBy>>,
             req[h].pc \in {"add.check", "preview.check", "preview.find"},
             IF pc = "preview.update" THEN At(h, "preview.find") /\ stale' = stale
             ELSE stale' = stale \ {h},
             Step(h, pc) => /\ pc = "add.link" => link[req[h].client] = None
                            /\ pc = "preview.find" => IsClientOf(req[h].client, req[h].acc)
      PROVE  LinkInv'
  <2>1. req[h] \in LinkRequest /\ req[h].client \in Clients /\ req[h].acc \in Accountants
    BY <1>s, <1>t, <1>y DEF RowsAreRead, Free
  <2> DEFINE r == [req[h] EXCEPT !.pc = pc]
  <2>2. r \in LinkRequest /\ r.pc = pc /\ r.client = req[h].client /\ r.acc = req[h].acc
    BY <2>1 DEF LinkRequest
  <2>3. ~At(h, "approve.link") BY <1>s DEF At
  <2> HIDE DEF r
  <2>4. CASE Step(h, pc)
    <3>1. /\ req'[h] = r
          /\ \A k \in Handlers \ {h} : req'[k] = req[k]
          /\ req' \in [Handlers -> LinkRequest \cup {Idle}]
          /\ faults' = faults
      <4>1. [req[h] EXCEPT !.pc = pc] \in LinkRequest BY <2>2 DEF r
      <4>2. /\ req'[h] = [req[h] EXCEPT !.pc = pc]
            /\ \A k \in Handlers \ {h} : req'[k] = req[k]
            /\ req' \in [Handlers -> LinkRequest \cup {Idle}]
            /\ faults' = faults
        BY <2>4, <4>1, <1>y, StepChange
      <4>q. QED BY <4>2 DEF r
    <3>q. QED BY <1>s, <2>1, <2>2, <2>3, <2>4, <3>1, LinkMove
  <2>5. CASE Done(h)
    <3>1. /\ req'[h] = Idle
          /\ \A k \in Handlers \ {h} : req'[k] = req[k]
          /\ req' \in [Handlers -> LinkRequest \cup {Idle}]
          /\ faults' = faults
      BY <2>5, <1>y, DoneChange
    <3>2. Idle.pc = "idle" BY DEF Idle
    <3>q. QED BY <1>s, <2>3, <3>1, <3>2, LinkMove
  <2>q. QED BY <1>s, <2>4, <2>5
<1>1. ASSUME NEW c \in Clients, RequestAccountant(h, c) PROVE LinkInv'
  <2> DEFINE r == [pc |-> "request.create", client |-> c, acc |-> None, of |-> None]
  <2>1. r \in LinkRequest BY DEF LinkRequest
  <2>2. r.pc = "request.create" /\ r.client = c OBVIOUS
  <2>3. Free(h) /\ Begin(h, r) /\ stale' = stale \ {h}
        /\ UNCHANGED <<link, isUser, requests, previewed, linkedBy>>
    BY <1>1 DEF RequestAccountant, Reads
  <2> HIDE DEF r
  <2>q. QED BY <1>b, <2>1, <2>2, <2>3
<1>2. ASSUME NEW i \in Requests, Answer(h, i) PROVE LinkInv'
  <2>1. PICK r \in LinkRequest :
            /\ Begin(h, r)
            /\ \/ r.pc = "approve.update" /\ r.acc \in Accountants
               \/ r.pc = "reject.update"
            /\ r.of = i
    <3>1. CASE \E a \in Accountants :
                Begin(h, [pc |-> "approve.update", client |-> None, acc |-> a, of |-> i])
      <4>1. PICK a \in Accountants :
                Begin(h, [pc |-> "approve.update", client |-> None, acc |-> a, of |-> i])
        BY <3>1
      <4>2. [pc |-> "approve.update", client |-> None, acc |-> a, of |-> i] \in LinkRequest
        BY DEF LinkRequest
      <4>q. QED BY <4>1, <4>2
    <3>2. CASE Begin(h, [pc |-> "reject.update", client |-> None, acc |-> None, of |-> i])
      <4>1. [pc |-> "reject.update", client |-> None, acc |-> None, of |-> i] \in LinkRequest
        BY DEF LinkRequest
      <4>q. QED BY <3>2, <4>1
    <3>q. QED BY <1>2, <3>1, <3>2 DEF Answer
  <2>q. QED BY <1>2, <1>b, <2>1 DEF Answer
<1>3. ASSUME NEW c \in Clients, NEW a \in Accountants,
             AddClient(h, c, a) \/ GetPurchase(h, c, a) \/ RemoveFromMe(h, c, a)
      PROVE  LinkInv'
  <2>1. PICK pc \in {"add.check", "preview.check", "remove.unlink"} :
            /\ Free(h)
            /\ Begin(h, [pc |-> pc, client |-> c, acc |-> a, of |-> None])
            /\ stale' \in {stale, stale \ {h}}
            /\ UNCHANGED <<link, isUser, requests, previewed, linkedBy>>
            /\ pc = "remove.unlink" => link[c] = a
    BY <1>3 DEF AddClient, GetPurchase, RemoveFromMe, Reads
  <2> DEFINE r == [pc |-> pc, client |-> c, acc |-> a, of |-> None]
  <2>2. r \in LinkRequest BY DEF LinkRequest
  <2>3. r.pc = pc /\ r.client = c /\ r.acc = a OBVIOUS
  <2>4. Begin(h, r) BY <2>1
  <2> HIDE DEF r
  <2>q. QED BY <1>b, <2>1, <2>2, <2>3, <2>4
<1>4. ASSUME NEW c \in Clients, UpdateRole(h, c) PROVE LinkInv'
  <2> DEFINE r == [pc |-> "role.update", client |-> c, acc |-> None, of |-> None]
  <2>1. r \in LinkRequest BY DEF LinkRequest
  <2>2. r.pc = "role.update" /\ r.client = c OBVIOUS
  <2>3. Free(h) /\ Begin(h, r)
        /\ UNCHANGED <<link, isUser, requests, previewed, linkedBy, stale>>
    BY <1>4 DEF UpdateRole
  <2> HIDE DEF r
  <2>q. QED BY <1>b, <2>1, <2>2, <2>3
<1>5. CASE CheckUnlinked(h)
  <2>1. /\ ~Free(h) /\ req[h].pc = "add.check"
        /\ Step(h, "add.link") \/ Done(h)
        /\ stale' = stale \ {h}
        /\ UNCHANGED <<link, isUser, requests, previewed, linkedBy>>
    BY <1>5 DEF CheckUnlinked, At, Free, Idle, Reads
  <2>2. link[req[h].client] = None \/ Done(h) BY <1>5 DEF CheckUnlinked
  <2>3. Done(h) => ~Step(h, "add.link") BY <2>1, <1>y DEF Done, Step, Idle
  <2>q. QED BY <2>1, <2>2, <2>3, <1>s
<1>6. CASE ValidateAccess(h)
  <2>1. /\ ~Free(h) /\ req[h].pc = "preview.check"
        /\ Step(h, "preview.find") \/ Done(h)
        /\ stale' = stale \ {h}
        /\ UNCHANGED <<link, isUser, requests, previewed, linkedBy>>
    BY <1>6 DEF ValidateAccess, At, Free, Idle, Reads
  <2>2. IsClientOf(req[h].client, req[h].acc) \/ Done(h) BY <1>6 DEF ValidateAccess
  <2>3. Done(h) => ~Step(h, "preview.find") BY <2>1, <1>y DEF Done, Step, Idle
  <2>q. QED BY <2>1, <2>2, <2>3, <1>s
<1>7. CASE FindPurchase(h) BY <1>7, <1>s DEF FindPurchase, At, Free, Idle
<1>8. CASE LinkApproved(h)
  <2>1. /\ At(h, "approve.link") /\ req[h].client \in Clients /\ req[h].acc \in Accountants
        /\ req[h].of \in Requests
    BY <1>8, <1>t DEF LinkApproved, RowsAreRead, At
  <2> DEFINE c == req[h].client
  <2>2. /\ c \in Clients /\ req[h].client = c /\ ~Free(h) /\ Writes(c) /\ Done(h)
        /\ UNCHANGED <<requests, previewed>>
    BY <1>8, <2>1 DEF LinkApproved, Free, At, Idle
  <2>3. /\ link' \in [Clients -> Accountants \cup {None}] /\ isUser' \subseteq Clients
        /\ \A d \in Clients \ {c} : link'[d] = link[d] /\ (d \in isUser' <=> d \in isUser)
    BY <1>8, <1>y, <2>1 DEF LinkApproved
  <2>4. /\ linkedBy' = IF At(h, "approve.link") THEN linkedBy \cup {req[h].of} ELSE linkedBy
        /\ linkedBy' \subseteq Requests
    BY <1>8, <1>y, <2>1 DEF LinkApproved
  <2> HIDE DEF c
  <2>q. QED BY <2>1, <2>2, <2>3, <2>4, LinkWrite
<1>9. CASE LinkAdded(h)
  <2>1. /\ At(h, "add.link") /\ req[h].client \in Clients /\ req[h].acc \in Accountants
    BY <1>9, <1>t DEF LinkAdded, RowsAreRead, At
  <2> DEFINE c == req[h].client
  <2>2. /\ c \in Clients /\ req[h].client = c /\ ~Free(h) /\ Writes(c) /\ Done(h)
        /\ UNCHANGED <<requests, previewed>>
    BY <1>9, <2>1 DEF LinkAdded, Free, At, Idle
  <2>3. /\ link' \in [Clients -> Accountants \cup {None}] /\ isUser' \subseteq Clients
        /\ \A d \in Clients \ {c} : link'[d] = link[d] /\ (d \in isUser' <=> d \in isUser)
    BY <1>9, <1>y, <2>1 DEF LinkAdded
  <2>4. /\ linkedBy' = IF At(h, "approve.link") THEN linkedBy \cup {req[h].of} ELSE linkedBy
        /\ linkedBy' \subseteq Requests
    BY <1>9, <1>y, <2>1 DEF LinkAdded, At
  <2> HIDE DEF c
  <2>q. QED BY <2>1, <2>2, <2>3, <2>4, LinkWrite
<1>10. CASE Unlink(h)
  <2>1. At(h, "remove.unlink") /\ req[h].client \in Clients
    BY <1>10, <1>t DEF Unlink, RowsAreRead, At
  <2> DEFINE c == req[h].client
  <2>2. /\ c \in Clients /\ req[h].client = c /\ ~Free(h) /\ Writes(c) /\ Done(h)
        /\ UNCHANGED <<requests, previewed>>
    BY <1>10, <2>1 DEF Unlink, Free, At, Idle
  <2>3. /\ link' \in [Clients -> Accountants \cup {None}] /\ isUser' \subseteq Clients
        /\ \A d \in Clients \ {c} : link'[d] = link[d] /\ (d \in isUser' <=> d \in isUser)
    BY <1>10, <1>y, <2>1 DEF Unlink
  <2>4. /\ linkedBy' = IF At(h, "approve.link") THEN linkedBy \cup {req[h].of} ELSE linkedBy
        /\ linkedBy' \subseteq Requests
    BY <1>10, <1>y, <2>1 DEF Unlink, At
  <2> HIDE DEF c
  <2>q. QED BY <2>1, <2>2, <2>3, <2>4, LinkWrite
<1>11. CASE SetRole(h)
  <2>1. At(h, "role.update") /\ req[h].client \in Clients
    BY <1>11, <1>t DEF SetRole, RowsAreRead, At
  <2> DEFINE c == req[h].client
  <2>2. /\ c \in Clients /\ req[h].client = c /\ ~Free(h) /\ Writes(c) /\ Done(h)
        /\ UNCHANGED <<requests, previewed>>
    BY <1>11, <2>1 DEF SetRole, Free, At, Idle
  <2>3. /\ link' \in [Clients -> Accountants \cup {None}] /\ isUser' \subseteq Clients
        /\ \A d \in Clients \ {c} : link'[d] = link[d] /\ (d \in isUser' <=> d \in isUser)
    BY <1>11, <1>y, <2>1 DEF SetRole
  <2>4. /\ linkedBy' = IF At(h, "approve.link") THEN linkedBy \cup {req[h].of} ELSE linkedBy
        /\ linkedBy' \subseteq Requests
    BY <1>11, <1>y, <2>1 DEF SetRole, At
  <2> HIDE DEF c
  <2>q. QED BY <2>1, <2>2, <2>3, <2>4, LinkWrite
<1>q. QED BY <1>1, <1>2, <1>3, <1>4, <1>5, <1>6, <1>7, <1>8, <1>9, <1>10, <1>11,
             RequestIsCreated, RequestIsAnswered, PurchaseIsPreviewed DEF LinkHandler

LEMMA LinkInvariance == LinkSpec => []LinkInv
<1>1. BackendInit /\ LinkInit => LinkInv
  <2> SUFFICES ASSUME BackendInit, LinkInit PROVE LinkInv
    OBVIOUS
  <2>1. /\ req \in [Handlers -> LinkRequest \cup {Idle}]
        /\ \A k \in Handlers : req[k] = Idle
        /\ faults = 0 /\ faults \in 0..MaxFaults
    BY InitialRequests
  <2>2. LinkTypeOK BY <2>1 DEF LinkInit, LinkTypeOK
  <2>3. RowsAreRead BY <2>1 DEF RowsAreRead, Idle
  <2>4. SeenIsCurrent BY <2>1 DEF SeenIsCurrent, At, Idle
  <2>5. Unlinked = {} BY DEF LinkInit, Unlinked
  <2>6. Cardinality(Unlinked) = 0 BY <2>5, FS_EmptySet
  <2>7. Cardinality(Handlers) \in Nat BY BackendAssumption, FS_CardinalityType
  <2>8. ApprovalLinks BY <2>1, <2>6, <2>7, UnlinkedBound
  <2>q. QED BY <2>2, <2>3, <2>4, <2>8 DEF LinkInv
<1>2. LinkInv /\ [LinkNext]_<<backend, accountantLink>> => LinkInv'
  <2>1. ASSUME LinkInv, UNCHANGED <<backend, accountantLink>> PROVE LinkInv'
    BY <2>1
       DEF backend, accountantLink, LinkInv, LinkTypeOK, RowsAreRead, SeenIsCurrent,
           IsClientOf, ApprovalLinks, At
  <2>2. ASSUME LinkInv, Restart, UNCHANGED accountantLink PROVE LinkInv'
    <3>t. LinkTypeOK /\ RowsAreRead /\ SeenIsCurrent /\ ApprovalLinks BY <2>2 DEF LinkInv
    <3>u. UNCHANGED <<link, isUser, requests, previewed, stale, linkedBy>>
      BY <2>2 DEF accountantLink
    <3>1. /\ \A k \in Handlers : req'[k] = Idle
          /\ req' \in [Handlers -> LinkRequest \cup {Idle}]
          /\ faults' = faults + 1 /\ faults' \in 0..MaxFaults /\ faults \in 0..MaxFaults
      BY <2>2, <3>t, RestartChange DEF LinkTypeOK
    <3>2. LinkTypeOK' BY <3>t, <3>u, <3>1 DEF LinkTypeOK
    <3>3. RowsAreRead' BY <3>1 DEF RowsAreRead, Idle
    <3>4. SeenIsCurrent' BY <3>1 DEF SeenIsCurrent, At, Idle
    <3>5. ApprovalLinks'
      <4> DEFINE S == Unlinked
                 T == Unlinked'
                 f == [k \in Handlers |-> req[k].of]
      <4>1. T \subseteq S \cup {f[k] : k \in Handlers}
        BY <3>u, <3>1 DEF Unlinked, At
      <4>2. IsFiniteSet(S) BY UnlinkedIsFinite
      <4>3. faults \in Nat BY <3>1
      <4>4. Cardinality(S) <= faults * Cardinality(Handlers) BY <3>t, UnlinkedBound
      <4> HIDE DEF S, T, f
      <4>5. Cardinality(T) <= (faults + 1) * Cardinality(Handlers)
        BY <4>1, <4>2, <4>3, <4>4, MoreLost
      <4>q. QED BY <4>5, <3>1 DEF T, Unlinked, ApprovalLinks
    <3>q. QED BY <3>2, <3>3, <3>4, <3>5 DEF LinkInv
  <2>q. QED BY <2>1, <2>2, LinkStep DEF LinkNext
<1>q. QED BY <1>1, <1>2, PTL DEF LinkSpec

(* An approved request gave its client the accountant, or is about to,     *)
(* but for one per handler and failure.                                    *)
THEOREM ApprovedIsLinked == LinkSpec => []ApprovalLinks
<1>1. LinkInv => ApprovalLinks BY DEF LinkInv
<1>q. QED BY <1>1, LinkInvariance, PTL

(* Whoever changes a client's accountant is an administrator, or saw the   *)
(* link as it is, or the client's row changed after he saw it.             *)
THEOREM LinksChangeAsSeen == LinkSpec => LinkIsRespected
<1> DEFINE Seen(c) ==
        \E h \in Handlers :
            /\ req[h] # Idle /\ req[h].client = c
            /\ \/ At(h, "approve.link")
               \/ At(h, "add.link") /\ (link[c] = None \/ h \in stale)
               \/ At(h, "remove.unlink") /\ (link[c] = req[h].acc \/ h \in stale)
<1>1. LinkInv /\ [LinkNext]_<<backend, accountantLink>> =>
        [\A c \in Clients : link'[c] # link[c] => Seen(c)]_accountantLink
  <2> SUFFICES ASSUME LinkInv, LinkNext, NEW c \in Clients, link'[c] # link[c]
               PROVE  Seen(c)
    BY DEF backend, accountantLink
  <2>t. LinkTypeOK /\ SeenIsCurrent BY DEF LinkInv
  <2>1. PICK h \in Handlers : LinkApproved(h) \/ LinkAdded(h) \/ Unlink(h)
    BY DEF LinkNext, LinkHandler, RequestAccountant, CreateRequest, Answer, ApproveRequest,
       RejectRequest, AddClient, CheckUnlinked, RemoveFromMe, GetPurchase, ValidateAccess,
       FindPurchase, MarkPreviewed, UpdateRole, SetRole, accountantLink
  <2>2. req[h].client = c
    BY <2>1, <2>t DEF LinkApproved, LinkAdded, Unlink, LinkTypeOK
  <2>3. req[h] # Idle /\ (At(h, "approve.link") \/ At(h, "add.link") \/ At(h, "remove.unlink"))
    BY <2>1 DEF LinkApproved, LinkAdded, Unlink, At, Idle
  <2>q. QED BY <2>2, <2>3, <2>t DEF SeenIsCurrent
<1>q. QED BY <1>1, LinkInvariance, PTL DEF LinkSpec, LinkIsRespected

(* An accountant previews purchases of his own clients, unless the client  *)
(* left him after the check.                                               *)
THEOREM PreviewsAreAllowed == LinkSpec => PreviewIsAllowed
<1> DEFINE Allowed(c) ==
        \E h \in Handlers :
            /\ At(h, "preview.update")
            /\ req[h].client = c
            /\ (link[c] = req[h].acc /\ c \in isUser) \/ h \in stale
<1>1. LinkInv /\ [LinkNext]_<<backend, accountantLink>> =>
        [\A c \in Clients : previewed'[c] # previewed[c] => Allowed(c)]_accountantLink
  <2> SUFFICES ASSUME LinkInv, LinkNext, NEW c \in Clients, previewed'[c] # previewed[c]
               PROVE  Allowed(c)
    BY DEF backend, accountantLink
  <2>t. LinkTypeOK /\ SeenIsCurrent BY DEF LinkInv
  <2>1. PICK h \in Handlers : MarkPreviewed(h)
    BY DEF LinkNext, LinkHandler, RequestAccountant, CreateRequest, Answer, ApproveRequest,
       RejectRequest, AddClient, CheckUnlinked, RemoveFromMe, GetPurchase, ValidateAccess,
       FindPurchase, LinkApproved, LinkAdded, Unlink, UpdateRole, SetRole, accountantLink
  <2>2. req[h].client = c BY <2>1, <2>t DEF MarkPreviewed, LinkTypeOK
  <2>q. QED BY <2>1, <2>2, <2>t DEF SeenIsCurrent, MarkPreviewed, IsClientOf
<1>q. QED BY <1>1, LinkInvariance, PTL DEF LinkSpec, PreviewIsAllowed
-----------------------------------------------------------------------------
(* The parser of bank statements.                                          *)

(* What the parser keeps between two lines.                                *)
Results ==
    [transactions : Seq(Transaction940), current : Transaction940 \cup {Nothing},
     opening : Amounts940 \cup {Nothing}, closing : Amounts940 \cup {Nothing}]

LEMMA LineKinds ==
  ASSUME NEW l \in Lines
  PROVE  /\ l.tag \in {":61:", ":86:", ":60F:", ":62F:"}
         /\ l.tag = ":61:" => l \in TransactionLine
         /\ l.tag = ":86:" => l \in DetailsLine
         /\ l.tag \in {":60F:", ":62F:"} => l \in BalanceLine
  BY DEF Lines, TransactionLine, DetailsLine, BalanceLine

LEMMA LineIsParsed ==
  ASSUME NEW r, NEW l \in Lines
  PROVE  /\ l.tag = ":60F:" => ParseLine(r, l) = [r EXCEPT !.opening = l.amount]
         /\ l.tag = ":62F:" => ParseLine(r, l) = [r EXCEPT !.closing = l.amount]
         /\ l.tag = ":61:" => ParseLine(r, l) =
                [r EXCEPT !.transactions = Pushed(r), !.current = parseTransactionLine(l)]
         /\ l.tag = ":86:" => ParseLine(r, l) =
                IF r.current = Nothing THEN r ELSE [r EXCEPT !.current.details = l.text]
  BY DEF ParseLine

LEMMA TransactionIsParsed ==
  ASSUME NEW l \in TransactionLine
  PROVE  /\ parseTransactionLine(l) \in Transaction940
         /\ parseTransactionLine(l) # Nothing
         /\ parseTransactionLine(l).details = Nothing
         /\ parseTransactionLine(l).valueDate = 2000 + l.value
         /\ parseTransactionLine(l).entryDate = Nothing <=> l.entry = Nothing
         /\ l.entry # Nothing => parseTransactionLine(l).entryDate[2] = l.entry
         /\ parseTransactionLine(l).type = "Debit" <=> l.mark \in {"D", "DR"}
         /\ Letters(l.mark) = 2 => parseTransactionLine(l).amount = l.amount
<1> DEFINE a == SubSeq(l.amount, 1 + 2 - Letters(l.mark), Len(l.amount))
           e == IF l.entry = Nothing THEN Nothing ELSE <<2020, l.entry>>
           t == IF l.mark \in {"D", "DR"} THEN "Debit" ELSE "Credit"
           v == 2000 + l.value
<1>0. /\ l.amount \in [1..2 -> Digits]
      /\ l.entry \in MonthDays \cup {Nothing} /\ l.mark \in Marks /\ l.value \in Years
  BY DEF TransactionLine, Amounts940
<1>1. l.amount \in Seq(Digits) /\ Len(l.amount) = 2
  <2> DEFINE b == l.amount
  <2>1. b \in [1..2 -> Digits] /\ 2 \in Nat BY <1>0
  <2> HIDE DEF b
  <2>2. b \in Seq(Digits) BY <2>1, SeqDef
  <2>3. DOMAIN b = 1..2 /\ DOMAIN b = 1..Len(b) /\ Len(b) \in Nat
    <3>1. DOMAIN b = 1..2 BY <2>1, Zenon
    <3>q. QED BY <2>2, <3>1, LenProperties
  <2>4. Len(b) = 2 BY <2>3
  <2>q. QED BY <2>2, <2>4 DEF b
<1>2. a \in Amounts940 \cup [1..1 -> Digits]
  <2>1. CASE Letters(l.mark) = 1
    <3>1. a = [i \in 1..1 |-> l.amount[i + 1]] BY <1>1, <2>1
    <3>2. l.amount[1 + 1] \in Digits BY <1>0
    <3>3. \A i \in 1..1 : i = 1 OBVIOUS
    <3> HIDE DEF a
    <3>q. QED BY <3>1, <3>2, <3>3
  <2>2. CASE Letters(l.mark) = 2
    <3>1. a = [i \in 1..2 |-> l.amount[i]] BY <1>1, <2>2
    <3>q. QED BY <3>1, <1>0 DEF Amounts940
  <2>q. QED BY <2>1, <2>2 DEF Letters
<1>3. Letters(l.mark) = 2 => a = l.amount
  <2>1. ASSUME Letters(l.mark) = 2 PROVE a = [i \in 1..2 |-> l.amount[i]] BY <1>1, <2>1
  <2>q. QED BY <2>1, <1>0
<1>4. /\ e \in ({2020} \X MonthDays) \cup {Nothing}
      /\ e = Nothing <=> l.entry = Nothing
      /\ l.entry # Nothing => e[2] = l.entry
  <2>1. CASE l.entry = Nothing BY <2>1
  <2>2. CASE l.entry # Nothing
    <3>1. e = <<2020, l.entry>> /\ l.entry \in MonthDays BY <1>0, <2>2
    <3> HIDE DEF e
    <3>2. e \in {2020} \X MonthDays /\ e[2] = l.entry BY <3>1
    <3>q. QED BY <2>2, <3>2, StatementNone
  <2>q. QED BY <2>1, <2>2
<1>5. t \in {"Debit", "Credit"} /\ (t = "Debit" <=> l.mark \in {"D", "DR"}) OBVIOUS
<1>6. v \in Nat
  <2>1. PICK y \in Years : y = l.value BY <1>0
  <2>2. y \in 0..99 BY StatementAssumption
  <2>3. 2000 + y \in Nat BY <2>2
  <2>q. QED BY <2>1, <2>3
<1> HIDE DEF a, e, t, v
<1>7. parseTransactionLine(l) =
        [valueDate |-> v, entryDate |-> e, type |-> t, amount |-> a, details |-> Nothing]
  BY DEF parseTransactionLine, a, e, t, v
<1>8. parseTransactionLine(l) \in Transaction940
  BY <1>2, <1>4, <1>5, <1>6, <1>7 DEF Transaction940
<1>q. QED
  <2>1. parseTransactionLine(l) # Nothing BY <1>8, StatementNone
  <2>2. /\ parseTransactionLine(l).details = Nothing /\ parseTransactionLine(l).valueDate = v
        /\ parseTransactionLine(l).entryDate = e /\ parseTransactionLine(l).type = t
        /\ parseTransactionLine(l).amount = a
    BY <1>7
  <2>3. parseTransactionLine(l).valueDate = 2000 + l.value BY <2>2 DEF v
  <2>q. QED BY <1>3, <1>4, <1>5, <1>8, <2>1, <2>2, <2>3

LEMMA DetailsReplaced ==
  ASSUME NEW c \in Transaction940, NEW x
  PROVE  [[c EXCEPT !.details = x] EXCEPT !.details = Nothing] = [c EXCEPT !.details = Nothing]
<1>1. c = [valueDate |-> c.valueDate, entryDate |-> c.entryDate, type |-> c.type,
           amount |-> c.amount, details |-> c.details]
  BY DEF Transaction940
<1>q. QED BY <1>1

LEMMA DetailsAreTexts ==
  ASSUME NEW c \in Transaction940, NEW x \in Texts
  PROVE  /\ [c EXCEPT !.details = x] \in Transaction940
         /\ [c EXCEPT !.details = x].details = x
<1>1. /\ c.valueDate \in Nat /\ c.entryDate \in ({2020} \X MonthDays) \cup {Nothing}
      /\ c.type \in {"Debit", "Credit"} /\ c.amount \in Amounts940 \cup [1..1 -> Digits]
  BY DEF Transaction940
<1>2. [c EXCEPT !.details = x] =
        [valueDate |-> c.valueDate, entryDate |-> c.entryDate, type |-> c.type,
         amount |-> c.amount, details |-> x]
  BY DEF Transaction940
<1>q. QED BY <1>1, <1>2 DEF Transaction940

LEMMA ResultIsResult ==
  ASSUME NEW r \in Results, NEW l \in Lines
  PROVE  ParseLine(r, l) \in Results
<1>1. Pushed(r) \in Seq(Transaction940) BY DEF Pushed, Results
<1>2. CASE l.tag = ":60F:" \/ l.tag = ":62F:"
  <2>1. l.amount \in Amounts940 BY <1>2, LineKinds DEF BalanceLine
  <2>2. \/ ParseLine(r, l) = [r EXCEPT !.opening = l.amount]
        \/ ParseLine(r, l) = [r EXCEPT !.closing = l.amount]
    BY <1>2, LineIsParsed
  <2>q. QED BY <2>1, <2>2 DEF Results
<1>3. CASE l.tag = ":61:"
  <2>1. parseTransactionLine(l) \in Transaction940 BY <1>3, LineKinds, TransactionIsParsed
  <2>2. ParseLine(r, l) =
            [r EXCEPT !.transactions = Pushed(r), !.current = parseTransactionLine(l)]
    BY <1>3, LineIsParsed
  <2>q. QED BY <1>1, <2>1, <2>2 DEF Results
<1>4. CASE l.tag = ":86:"
  <2>1. l.text \in Texts BY <1>4, LineKinds DEF DetailsLine
  <2>2. CASE r.current = Nothing BY <1>4, <2>2, LineIsParsed
  <2>3. CASE r.current # Nothing
    <3>1. r.current \in Transaction940 BY <2>3 DEF Results
    <3>2. [r.current EXCEPT !.details = l.text] \in Transaction940
      BY <3>1, <2>1, DetailsAreTexts
    <3>3. ParseLine(r, l) = [r EXCEPT !.current = [r.current EXCEPT !.details = l.text]]
      BY <1>4, <2>3, LineIsParsed
    <3>q. QED BY <3>2, <3>3 DEF Results
  <2>q. QED BY <2>2, <2>3
<1>q. QED BY <1>2, <1>3, <1>4, LineKinds

(* The recursive function of the parser's loop exists: it is what its      *)
(* definition says.                                                        *)
LEMMA ReadingGoesOn ==
  ASSUME lines \in Seq(Lines)
  PROVE  /\ \A n \in 0..Len(lines) : Reading(lines)[n] \in Results
         /\ Reading(lines)[0] = NothingParsed
         /\ \A n \in 0..(Len(lines) - 1) :
                Reading(lines)[n + 1] = ParseLine(Reading(lines)[n], lines[n + 1])
<1> DEFINE N == Len(lines)
           step == [n \in Nat |-> [v \in Results |->
                        IF n < N THEN ParseLine(v, lines[n + 1]) ELSE v]]
<1>1. N \in Nat /\ \A n \in Nat : n < N => lines[n + 1] \in Lines OBVIOUS
<1>2. step \in [Nat -> [Results -> Results]]
  <2>1. \A n \in Nat, v \in Results :
            (IF n < N THEN ParseLine(v, lines[n + 1]) ELSE v) \in Results
    BY <1>1, ResultIsResult
  <2> HIDE DEF N
  <2>q. QED BY <2>1
<1>3. NothingParsed \in Results BY DEF NothingParsed, Results
<1>4. \A n \in Nat, v \in Results : n < N => step[n][v] = ParseLine(v, lines[n + 1])
  OBVIOUS
<1> HIDE DEF step
<1>5. PICK f \in [Nat -> Results] : Follows(f, NothingParsed, step) BY <1>2, <1>3, Recursion
<1> DEFINE g == [n \in 0..N |-> f[n]]
<1>6. g = [n \in 0..N |->
            IF n = 0 THEN NothingParsed ELSE ParseLine(g[n - 1], lines[n])]
  <2>1. ASSUME NEW n \in 0..N, n # 0 PROVE g[n] = ParseLine(g[n - 1], lines[n])
    <3>1. n - 1 \in Nat /\ n - 1 < N /\ (n - 1) + 1 = n /\ n - 1 \in 0..N BY <1>1, <2>1
    <3>2. f[n] = step[n - 1][f[n - 1]] BY <1>5, <3>1 DEF Follows
    <3>3. f[n - 1] \in Results BY <3>1
    <3>4. f[n] = ParseLine(f[n - 1], lines[n]) BY <1>4, <3>1, <3>2, <3>3
    <3>q. QED BY <3>1, <3>4
  <2>2. g[0] = NothingParsed BY <1>1, <1>5 DEF Follows
  <2> HIDE DEF N
  <2>q. QED BY <2>1, <2>2
<1> DEFINE R == Reading(lines)
<1>7. R = [n \in 0..N |-> IF n = 0 THEN NothingParsed ELSE ParseLine(R[n - 1], lines[n])]
  BY <1>6, Zenon DEF Reading
<1> HIDE DEF R
<1>8. /\ R[0] = NothingParsed
      /\ \A n \in 0..(N - 1) : R[n + 1] = ParseLine(R[n], lines[n + 1])
  <2>1. 0 \in 0..N BY <1>1
  <2>2. ASSUME NEW n \in 0..(N - 1) PROVE R[n + 1] = ParseLine(R[n], lines[n + 1])
    <3>1. n + 1 \in 0..N /\ n + 1 # 0 /\ (n + 1) - 1 = n BY <1>1
    <3> HIDE DEF N
    <3>q. QED BY <1>7, <3>1, Zenon
  <2> HIDE DEF N
  <2>q. QED BY <1>7, <2>1, <2>2
<1>9. \A n \in 0..N : R[n] \in Results
  <2> DEFINE S == {n \in Nat : n <= N => R[n] \in Results}
  <2>1. 0 \in S BY <1>3, <1>8
  <2>2. ASSUME NEW n \in Nat, n \in S PROVE n + 1 \in S
    <3> SUFFICES ASSUME n + 1 <= N PROVE R[n + 1] \in Results OBVIOUS
    <3>1. n \in 0..(N - 1) /\ n <= N /\ n < N BY <1>1
    <3>2. R[n] \in Results /\ lines[n + 1] \in Lines BY <2>2, <3>1, <1>1
    <3>3. R[n + 1] = ParseLine(R[n], lines[n + 1]) BY <1>8, <3>1
    <3>q. QED BY <3>2, <3>3, ResultIsResult
  <2> HIDE DEF S
  <2>3. Nat \subseteq S BY <2>1, <2>2, NatSets
  <2>q. QED BY <1>1, <2>3 DEF S
<1>q. QED BY <1>8, <1>9 DEF R

(* The lines of a tag among the first n, and of those that describe the    *)
(* transaction of line i; its number among the transactions.               *)
Upto(tag, n) == {i \in Tagged(tag) : i <= n}
DescribesUpto(i, n) == {j \in Describes(i) : j <= n}
Number(i) == Cardinality(Upto(":61:", i))

(* d is what the last line of S says, or Nothing.                          *)
LastText(d, S) ==
    IF S = {} THEN d = Nothing ELSE \E j \in S : (\A k \in S : k <= j) /\ d = lines[j].text
LastBalance(a, S) ==
    IF S = {} THEN a = Nothing ELSE \E j \in S : (\A k \in S : k <= j) /\ a = lines[j].amount

(* t is the transaction of line i, as far as n lines tell.                 *)
IsOfLine(t, i, n) ==
    /\ [t EXCEPT !.details = Nothing] = parseTransactionLine(lines[i])
    /\ LastText(t.details, DescribesUpto(i, n))

(* After n lines the result has the transactions of these lines, in order. *)
IsReadUpto(r, n) ==
    /\ Len(Pushed(r)) = Cardinality(Upto(":61:", n))
    /\ r.current = Nothing <=> Upto(":61:", n) = {}
    /\ LastBalance(r.opening, Upto(":60F:", n))
    /\ LastBalance(r.closing, Upto(":62F:", n))
    /\ \A k \in 1..Len(Pushed(r)) :
            \E i \in Upto(":61:", n) : Number(i) = k /\ IsOfLine(Pushed(r)[k], i, n)

LEMMA UptoIsFinite ==
  ASSUME lines \in Seq(Lines), NEW tag, NEW n \in Nat
  PROVE  /\ IsFiniteSet(Upto(tag, n)) /\ Cardinality(Upto(tag, n)) \in Nat
         /\ Upto(tag, n) \subseteq 1..n
         /\ n + 1 \notin Upto(tag, n)
<1>1. Upto(tag, n) \in SUBSET (1..n) /\ n + 1 \notin Upto(tag, n) BY DEF Upto, Tagged
<1>2. IsFiniteSet(1..n) BY FS_Interval
<1>3. IsFiniteSet(Upto(tag, n)) BY <1>1, <1>2, FS_Subset
<1>q. QED BY <1>1, <1>3, FS_CardinalityType

LEMMA UptoGrows ==
  ASSUME lines \in Seq(Lines), NEW tag, NEW n \in 0..(Len(lines) - 1)
  PROVE  /\ lines[n + 1].tag = tag => Upto(tag, n + 1) = Upto(tag, n) \cup {n + 1}
         /\ lines[n + 1].tag # tag => Upto(tag, n + 1) = Upto(tag, n)
<1>1. n \in Nat /\ n + 1 \in DOMAIN lines /\ DOMAIN lines \subseteq Nat OBVIOUS
<1>2. \A i \in Nat : i <= n + 1 <=> i <= n \/ i = n + 1 BY <1>1
<1>q. QED BY <1>1, <1>2 DEF Upto, Tagged

(* A transaction comes before another if its number does.                  *)
LEMMA NumbersGrow ==
  ASSUME lines \in Seq(Lines), NEW i \in Tagged(":61:"), NEW j \in Tagged(":61:"), i < j
  PROVE  Number(i) \in Nat /\ Number(j) \in Nat /\ Number(i) < Number(j)
<1>1. i \in Nat /\ j \in Nat BY DEF Tagged
<1>2. Upto(":61:", i) \subseteq Upto(":61:", j) /\ j \in Upto(":61:", j) \ Upto(":61:", i)
  BY <1>1 DEF Upto, Tagged
<1>3. IsFiniteSet(Upto(":61:", i)) /\ IsFiniteSet(Upto(":61:", j)) BY <1>1, UptoIsFinite
<1>4. Cardinality(Upto(":61:", i)) < Cardinality(Upto(":61:", j))
  <2> DEFINE A == Upto(":61:", i)
             B == Upto(":61:", j)
  <2>1. A \subseteq B /\ IsFiniteSet(A) /\ IsFiniteSet(B) /\ j \in B \ A BY <1>2, <1>3
  <2> HIDE DEF A, B
  <2>2. A # B BY <2>1
  <2>3. Cardinality(A) <= Cardinality(B) /\ (Cardinality(A) = Cardinality(B) => A = B)
    BY <2>1, FS_Subset
  <2>4. Cardinality(A) \in Nat /\ Cardinality(B) \in Nat BY <2>1, FS_CardinalityType
  <2>q. QED BY <2>2, <2>3, <2>4 DEF A, B
<1>q. QED BY <1>1, <1>4, UptoIsFinite DEF Number

(* The last balance, after the next line.                                  *)
LEMMA BalanceGoesOn ==
  ASSUME lines \in Seq(Lines), NEW n \in 0..(Len(lines) - 1), NEW tag, NEW a, NEW b,
         LastBalance(a, Upto(tag, n)),
         b = IF lines[n + 1].tag = tag THEN lines[n + 1].amount ELSE a
  PROVE  LastBalance(b, Upto(tag, n + 1))
<1>1. CASE lines[n + 1].tag # tag BY <1>1, UptoGrows
<1>2. CASE lines[n + 1].tag = tag
  <2>1. Upto(tag, n + 1) = Upto(tag, n) \cup {n + 1} BY <1>2, UptoGrows
  <2>2. \A k \in Upto(tag, n + 1) : k <= n + 1 BY DEF Upto
  <2>q. QED BY <1>2, <2>1, <2>2 DEF LastBalance
<1>q. QED BY <1>1, <1>2

LEMMA DescriptionsGrow ==
  ASSUME lines \in Seq(Lines), NEW n \in 0..(Len(lines) - 1), NEW i \in Upto(":61:", n)
  PROVE  /\ lines[n + 1].tag # ":86:" \/ (\E k \in Upto(":61:", n) : i < k) =>
                DescribesUpto(i, n + 1) = DescribesUpto(i, n)
         /\ lines[n + 1].tag = ":86:" /\ (\A k \in Upto(":61:", n) : k <= i) =>
                DescribesUpto(i, n + 1) = DescribesUpto(i, n) \cup {n + 1}
         /\ DescribesUpto(i, n) \subseteq 1..n
<1>1. /\ n \in Nat /\ n + 1 \in DOMAIN lines /\ DOMAIN lines = 1..Len(lines)
      /\ i \in Nat /\ i <= n /\ i < n + 1
  BY DEF Upto, Tagged
<1>2. \A j \in Nat : j <= n + 1 <=> j <= n \/ j = n + 1 BY <1>1
<1>3. n + 1 \in Describes(i) <=>
        lines[n + 1].tag = ":86:" /\ ~\E k \in Upto(":61:", n) : i < k
  <2>1. n + 1 \in Describes(i) <=>
          /\ lines[n + 1].tag = ":86:"
          /\ ~\E k \in Tagged(":61:") : i < k /\ k < n + 1
    BY <1>1 DEF Describes, Tagged
  <2>2. \A k \in Tagged(":61:") : k < n + 1 <=> k <= n BY <1>1 DEF Tagged
  <2>q. QED BY <2>1, <2>2 DEF Upto
<1>4. Describes(i) \subseteq Nat \ {0} BY <1>1 DEF Describes, Tagged
<1>5. (\A k \in Upto(":61:", n) : k <= i) => ~\E k \in Upto(":61:", n) : i < k
  BY <1>1 DEF Upto, Tagged
<1>6. DescribesUpto(i, n + 1) = DescribesUpto(i, n) \cup ({n + 1} \cap Describes(i))
  BY <1>2, <1>4 DEF DescribesUpto
<1>7. DescribesUpto(i, n) \subseteq 1..n BY <1>1, <1>4 DEF DescribesUpto
<1>q. QED BY <1>3, <1>5, <1>6, <1>7

(* What was pushed stays of its line, when the next line says nothing of   *)
(* it.                                                                     *)
LEMMA LineStays ==
  ASSUME lines \in Seq(Lines), NEW n \in 0..(Len(lines) - 1), NEW i \in Upto(":61:", n),
         NEW t, IsOfLine(t, i, n),
         lines[n + 1].tag # ":86:" \/ (\E k \in Upto(":61:", n) : i < k)
  PROVE  i \in Upto(":61:", n + 1) /\ IsOfLine(t, i, n + 1)
<1>1. DescribesUpto(i, n + 1) = DescribesUpto(i, n) BY DescriptionsGrow
<1>2. i \in Upto(":61:", n + 1) BY UptoGrows
<1>q. QED BY <1>1, <1>2 DEF IsOfLine

(* A balance.                                                              *)
LEMMA BalanceIsRead ==
  ASSUME lines \in Seq(Lines), NEW n \in 0..(Len(lines) - 1), NEW r \in Results,
         IsReadUpto(r, n), lines[n + 1].tag \in {":60F:", ":62F:"}
  PROVE  IsReadUpto(ParseLine(r, lines[n + 1]), n + 1)
<1> DEFINE l == lines[n + 1]
           s == ParseLine(r, l)
<1>1. l \in Lines OBVIOUS
<1>2. /\ s.transactions = r.transactions /\ s.current = r.current
      /\ s.opening = IF l.tag = ":60F:" THEN l.amount ELSE r.opening
      /\ s.closing = IF l.tag = ":62F:" THEN l.amount ELSE r.closing
  <2>1. CASE l.tag = ":60F:"
    <3> HIDE DEF s, l
    <3>1. s = [r EXCEPT !.opening = l.amount] BY <1>1, <2>1, LineIsParsed DEF s
    <3>q. QED BY <2>1, <3>1 DEF Results
  <2>2. CASE l.tag = ":62F:"
    <3> HIDE DEF s, l
    <3>1. s = [r EXCEPT !.closing = l.amount] BY <1>1, <2>2, LineIsParsed DEF s
    <3>q. QED BY <2>2, <3>1 DEF Results
  <2>q. QED BY <2>1, <2>2
<1>3. Pushed(s) = Pushed(r) BY <1>2 DEF Pushed
<1>4. Upto(":61:", n + 1) = Upto(":61:", n) BY UptoGrows
<1> HIDE DEF s
<1>5. LastBalance(s.opening, Upto(":60F:", n + 1)) /\ LastBalance(s.closing, Upto(":62F:", n + 1))
  BY <1>2, BalanceGoesOn DEF IsReadUpto
<1>6. \A k \in 1..Len(Pushed(s)) :
        \E i \in Upto(":61:", n + 1) : Number(i) = k /\ IsOfLine(Pushed(s)[k], i, n + 1)
  BY <1>3, <1>4, LineStays DEF IsReadUpto
<1>7. IsReadUpto(s, n + 1) BY <1>2, <1>3, <1>4, <1>5, <1>6 DEF IsReadUpto
<1>q. QED BY <1>7 DEF s

(* A transaction: the one before it is complete.                           *)
LEMMA TransactionIsRead ==
  ASSUME lines \in Seq(Lines), NEW n \in 0..(Len(lines) - 1), NEW r \in Results,
         IsReadUpto(r, n), lines[n + 1].tag = ":61:"
  PROVE  IsReadUpto(ParseLine(r, lines[n + 1]), n + 1)
<1> DEFINE l == lines[n + 1]
           t == parseTransactionLine(l)
           s == ParseLine(r, l)
           P == Pushed(r)
<1>1. l \in Lines /\ n \in Nat OBVIOUS
<1>2. t \in Transaction940 /\ t # Nothing /\ t.details = Nothing
  BY <1>1, LineKinds, TransactionIsParsed
<1>3. /\ s.transactions = P /\ s.current = t
      /\ s.opening = r.opening /\ s.closing = r.closing
  <2>1. s = [r EXCEPT !.transactions = P, !.current = t]
    <3>1. l.tag = ":61:" OBVIOUS
    <3> HIDE DEF l
    <3>q. QED BY <1>1, <3>1, LineIsParsed
  <2> HIDE DEF s, P, t
  <2>q. QED BY <2>1 DEF Results
<1>4. P \in Seq(Transaction940) BY DEF Pushed, Results
<1>5. Pushed(s) = Append(P, t) BY <1>2, <1>3 DEF Pushed
<1>6. /\ Upto(":61:", n + 1) = Upto(":61:", n) \cup {n + 1}
      /\ n + 1 \notin Upto(":61:", n) /\ IsFiniteSet(Upto(":61:", n))
      /\ Cardinality(Upto(":61:", n)) \in Nat
  BY <1>1, UptoGrows, UptoIsFinite
<1>7. Number(n + 1) = Cardinality(Upto(":61:", n)) + 1
  BY <1>6, FS_AddElement DEF Number
<1>8. Len(P) = Cardinality(Upto(":61:", n)) BY DEF IsReadUpto
<1>9. LastBalance(s.opening, Upto(":60F:", n + 1)) /\ LastBalance(s.closing, Upto(":62F:", n + 1))
  BY <1>3, BalanceGoesOn DEF IsReadUpto
<1>10. IsOfLine(t, n + 1, n + 1)
  <2>1. DescribesUpto(n + 1, n + 1) = {} BY <1>1 DEF DescribesUpto, Describes, Tagged
  <2>2. [t EXCEPT !.details = Nothing] = t BY <1>2 DEF Transaction940
  <2>q. QED BY <1>2, <2>1, <2>2 DEF IsOfLine, LastText
<1>11. ASSUME NEW k \in 1..Len(Pushed(s))
       PROVE  \E i \in Upto(":61:", n + 1) :
                    Number(i) = k /\ IsOfLine(Pushed(s)[k], i, n + 1)
  <2> HIDE DEF t, P, s
  <2>1. CASE k = Len(P) + 1
    <3>1. Pushed(s)[k] = t BY <1>4, <1>5, <2>1
    <3>q. QED BY <1>6, <1>7, <1>8, <1>10, <2>1, <3>1
  <2>2. CASE k # Len(P) + 1
    <3>1. k \in 1..Len(P) /\ Pushed(s)[k] = P[k] BY <1>2, <1>4, <1>5, <2>2
    <3>2. PICK i \in Upto(":61:", n) : Number(i) = k /\ IsOfLine(P[k], i, n)
      BY <3>1 DEF IsReadUpto, P
    <3>3. i \in Upto(":61:", n + 1) /\ IsOfLine(P[k], i, n + 1) BY <3>2, LineStays
    <3>q. QED BY <3>1, <3>2, <3>3
  <2>q. QED BY <2>1, <2>2
<1> HIDE DEF t, P, s
<1>12. Len(Pushed(s)) = Cardinality(Upto(":61:", n + 1))
  <2>1. Len(Pushed(s)) = Len(P) + 1 BY <1>2, <1>4, <1>5
  <2>2. Cardinality(Upto(":61:", n + 1)) = Cardinality(Upto(":61:", n)) + 1
    BY <1>7 DEF Number
  <2>q. QED BY <2>1, <2>2, <1>8
<1>13. IsReadUpto(s, n + 1)
  BY <1>2, <1>3, <1>6, <1>9, <1>11, <1>12 DEF IsReadUpto
<1>q. QED BY <1>13 DEF s

(* A description is of the last transaction, and replaces an earlier one.  *)
LEMMA DescriptionIsRead ==
  ASSUME lines \in Seq(Lines), NEW n \in 0..(Len(lines) - 1), NEW r \in Results,
         IsReadUpto(r, n), lines[n + 1].tag = ":86:"
  PROVE  IsReadUpto(ParseLine(r, lines[n + 1]), n + 1)
<1> DEFINE l == lines[n + 1]
           s == ParseLine(r, l)
           P == Pushed(r)
           T == Upto(":61:", n)
<1>1. l \in Lines /\ n \in Nat OBVIOUS
<1>2. P \in Seq(Transaction940) BY DEF Pushed, Results
<1>3. Upto(":61:", n + 1) = T BY UptoGrows
<1>4. T \subseteq Nat /\ T \subseteq Tagged(":61:") /\ Len(P) = Cardinality(T)
  BY DEF Upto, Tagged, IsReadUpto
<1>5. CASE r.current = Nothing
  <2>1. s = r BY <1>1, <1>5, LineIsParsed
  <2>2. T = {} /\ Len(P) = 0 BY <1>4, <1>5, FS_EmptySet DEF IsReadUpto
  <2> HIDE DEF s, P, T
  <2>3. LastBalance(r.opening, Upto(":60F:", n + 1))
        /\ LastBalance(r.closing, Upto(":62F:", n + 1))
    BY BalanceGoesOn DEF IsReadUpto
  <2>4. IsReadUpto(r, n + 1)
    BY <1>3, <1>4, <1>5, <2>2, <2>3 DEF IsReadUpto, P
  <2>q. QED BY <2>1, <2>4 DEF s
<1>6. CASE r.current # Nothing
  <2> DEFINE c == r.current
             d == [c EXCEPT !.details = l.text]
             Q == r.transactions
  <2>1. c \in Transaction940 /\ Q \in Seq(Transaction940) BY <1>6 DEF Results
  <2>2. l.text \in Texts BY <1>1, LineKinds DEF DetailsLine
  <2>3. d \in Transaction940 /\ d.details = l.text BY <2>1, <2>2, DetailsAreTexts
  <2>4. s = [r EXCEPT !.current = d] BY <1>1, <1>6, LineIsParsed
  <2>5. /\ s.transactions = Q /\ s.current = d /\ d # Nothing
        /\ s.opening = r.opening /\ s.closing = r.closing
    BY <2>3, <2>4, StatementNone DEF Results
  <2>6. P = Append(Q, c) /\ Pushed(s) = Append(Q, d) BY <1>6, <2>5 DEF Pushed
  <2> HIDE DEF s, d
  <2>7. LastBalance(s.opening, Upto(":60F:", n + 1)) /\ LastBalance(s.closing, Upto(":62F:", n + 1))
    BY <2>5, BalanceGoesOn DEF IsReadUpto
  <2>8. /\ Len(P) = Len(Q) + 1 /\ Len(Pushed(s)) = Len(Q) + 1 /\ Len(Q) \in Nat
        /\ P[Len(Q) + 1] = c /\ Pushed(s)[Len(Q) + 1] = d
        /\ \A k \in 1..Len(Q) : P[k] = Q[k] /\ Pushed(s)[k] = Q[k]
    BY <2>1, <2>3, <2>6
  <2>9. ASSUME NEW k \in 1..Len(Pushed(s))
        PROVE  \E i \in T : Number(i) = k /\ IsOfLine(Pushed(s)[k], i, n + 1)
    <3>1. k \in 1..Len(P) BY <2>8
    <3>2. PICK i \in T : Number(i) = k /\ IsOfLine(P[k], i, n)
      <4> HIDE DEF c, Q
      <4>q. QED BY <3>1 DEF IsReadUpto
    <3>3. CASE k # Len(Q) + 1
      <4>1. \E j \in T : i < j
        <5>1. Len(P) \in 1..Len(P) BY <2>8
        <5>2. PICK j \in T : Number(j) = Len(P) BY <5>1 DEF IsReadUpto
        <5>3. Number(i) < Number(j) BY <3>1, <3>2, <3>3, <2>8, <5>2
        <5>4. i # j /\ ~(j < i)
          <6>1. i # j BY <5>3, <3>2, <5>2, <3>1, <2>8
          <6>2. ASSUME j < i PROVE FALSE
            <7>1. Number(j) < Number(i) BY <6>2, <1>4, NumbersGrow
            <7>q. QED BY <7>1, <5>3, <3>2, <5>2, <3>1, <2>8
          <6>q. QED BY <6>1, <6>2
        <5>q. QED BY <5>2, <5>4, <1>4
      <4>2. IsOfLine(P[k], i, n + 1) BY <3>2, <4>1, LineStays
      <4>3. Pushed(s)[k] = P[k] BY <2>8, <3>1, <3>3
      <4>q. QED BY <3>2, <4>2, <4>3
    <3>4. CASE k = Len(Q) + 1
      <4>1. \A j \in T : j <= i
        <5> SUFFICES ASSUME NEW j \in T, i < j PROVE FALSE BY <1>4
        <5>1. Number(i) < Number(j) /\ Number(j) \in Nat BY <1>4, NumbersGrow
        <5>2. Number(j) <= Cardinality(T)
          <6>1. Upto(":61:", j) \subseteq T BY <1>1, <1>4 DEF Upto, Tagged
          <6>2. IsFiniteSet(T) BY <1>1, UptoIsFinite
          <6> HIDE DEF T
          <6>q. QED BY <6>1, <6>2, FS_Subset DEF Number
        <5>q. QED BY <5>1, <5>2, <3>2, <3>4, <2>8, <1>4
      <4>2. DescribesUpto(i, n + 1) = DescribesUpto(i, n) \cup {n + 1}
        BY <4>1, DescriptionsGrow
      <4>3. \A j \in DescribesUpto(i, n + 1) : j <= n + 1 BY DEF DescribesUpto
      <4>4. LastText(l.text, DescribesUpto(i, n + 1)) BY <4>2, <4>3 DEF LastText
      <4>5. [d EXCEPT !.details = Nothing] = [c EXCEPT !.details = Nothing]
        BY <2>1, DetailsReplaced DEF d
      <4>6. [c EXCEPT !.details = Nothing] = parseTransactionLine(lines[i])
        BY <3>2, <3>4, <2>8 DEF IsOfLine
      <4>7. IsOfLine(d, i, n + 1) BY <4>4, <4>5, <4>6, <2>3 DEF IsOfLine
      <4>q. QED BY <3>2, <3>4, <4>7, <2>8
    <3>q. QED BY <3>3, <3>4
  <2>10. Len(Pushed(s)) = Cardinality(T) BY <2>8, <1>4
  <2>11. T # {} BY <1>6 DEF IsReadUpto
  <2> HIDE DEF T
  <2>12. IsReadUpto(s, n + 1)
    BY <1>3, <2>5, <2>7, <2>9, <2>10, <2>11 DEF IsReadUpto
  <2>q. QED BY <2>12 DEF s
<1>q. QED BY <1>5, <1>6

LEMMA EveryLineIsRead ==
  ASSUME lines \in Seq(Lines)
  PROVE  IsReadUpto(Reading(lines)[Len(lines)], Len(lines))
<1> DEFINE R == Reading(lines)
           N == Len(lines)
           S == {n \in Nat : n <= N => IsReadUpto(R[n], n)}
<1>0. N \in Nat OBVIOUS
<1>1. 0 \in S
  <2>1. \A tag : Upto(tag, 0) = {} BY DEF Upto, Tagged
  <2>2. Pushed(NothingParsed) = <<>> BY DEF Pushed, NothingParsed
  <2>3. Cardinality({}) = 0 BY FS_EmptySet
  <2>4. IsReadUpto(NothingParsed, 0)
    <3>1. /\ NothingParsed.current = Nothing /\ NothingParsed.opening = Nothing
          /\ NothingParsed.closing = Nothing
      BY DEF NothingParsed
    <3>2. Len(<<>>) = 0 /\ 1..Len(<<>>) = {} OBVIOUS
    <3>q. QED BY <2>1, <2>2, <2>3, <3>1, <3>2 DEF IsReadUpto, LastBalance
  <2>5. R[0] = NothingParsed BY ReadingGoesOn
  <2>q. QED BY <2>4, <2>5
<1>2. ASSUME NEW n \in Nat, n \in S PROVE n + 1 \in S
  <2> SUFFICES ASSUME n + 1 <= N PROVE IsReadUpto(R[n + 1], n + 1) OBVIOUS
  <2>1. n \in 0..(N - 1) /\ n \in 0..N /\ n <= N /\ n + 1 \in 1..N BY <1>0
  <2>2. R[n] \in Results /\ R[n + 1] = ParseLine(R[n], lines[n + 1])
    BY <2>1, ReadingGoesOn
  <2>3. IsReadUpto(R[n], n) BY <1>2, <2>1
  <2>4. lines[n + 1] \in Lines BY <2>1
  <2>5. lines[n + 1].tag \in {":60F:", ":62F:"} \/ lines[n + 1].tag = ":61:"
        \/ lines[n + 1].tag = ":86:"
    BY <2>4, LineKinds
  <2> HIDE DEF R
  <2>q. QED
    BY <2>1, <2>2, <2>3, <2>5, BalanceIsRead, TransactionIsRead, DescriptionIsRead
<1> HIDE DEF S
<1>3. Nat \subseteq S BY <1>1, <1>2, NatSets
<1>4. N <= N BY <1>0
<1>q. QED BY <1>0, <1>3, <1>4 DEF S

(* The last balance is the one LastAmount chooses.                         *)
LEMMA BalanceIsLast ==
  ASSUME lines \in Seq(Lines), NEW tag, NEW a, LastBalance(a, Tagged(tag))
  PROVE  a = LastAmount(tag)
<1>1. CASE Tagged(tag) = {} BY <1>1 DEF LastBalance, LastAmount
<1>2. CASE Tagged(tag) # {}
  <2>1. PICK j \in Tagged(tag) : (\A k \in Tagged(tag) : k <= j) /\ a = lines[j].amount
    BY <1>2 DEF LastBalance
  <2>2. \A i \in Tagged(tag) : i \in Nat BY DEF Tagged
  <2>3. ASSUME NEW i \in Tagged(tag), \A k \in Tagged(tag) : k <= i PROVE i = j
    <3>1. i <= j /\ j <= i BY <2>1, <2>3
    <3>q. QED BY <2>1, <2>2, <3>1
  <2>4. (CHOOSE i \in Tagged(tag) : \A k \in Tagged(tag) : k <= i) = j
    BY <2>1, <2>3
  <2>5. LastAmount(tag) = lines[j].amount
    <3> DEFINE T == Tagged(tag)
    <3>1. T # {} BY <1>2
    <3>2. (CHOOSE i \in T : \A k \in T : k <= i) = j BY <2>4
    <3>q. QED BY <3>1, <3>2, Zenon DEF LastAmount
  <2>q. QED BY <2>1, <2>5
<1>q. QED BY <1>1, <1>2

(* parseMT940 reads every statement as the comments of the parser say.     *)
THEOREM StatementsAreRead == StatementTypeOK => StatementIsRead
<1> SUFFICES ASSUME StatementTypeOK PROVE StatementIsRead OBVIOUS
<1> DEFINE N == Len(lines)
           r == Reading(lines)[N]
           P == Pushed(r)
<1>1. lines \in Seq(Lines) /\ N \in Nat BY DEF StatementTypeOK
<1>2. IsReadUpto(r, N) /\ r \in Results
  <2>1. N \in 0..N BY <1>1
  <2>q. QED BY <1>1, <2>1, EveryLineIsRead, ReadingGoesOn
<1>3. parseMT940(lines) = [transactions |-> P, opening |-> r.opening, closing |-> r.closing]
  BY DEF parseMT940
<1>4. \A tag : Upto(tag, N) = Tagged(tag) BY <1>1 DEF Upto, Tagged
<1>5. P \in Seq(Transaction940) BY <1>2 DEF Pushed, Results
<1> HIDE DEF r, P, N
<1>6. Len(P) = Cardinality(Tagged(":61:")) BY <1>2, <1>4 DEF IsReadUpto, P
<1>7. r.opening = LastAmount(":60F:") /\ r.closing = LastAmount(":62F:")
  BY <1>1, <1>2, <1>4, BalanceIsLast DEF IsReadUpto
<1>8. ASSUME NEW n \in 1..Len(P)
      PROVE  LET t == P[n]
                 l == lines[At61(n)]
                 texts == Describes(At61(n))
             IN  /\ t.valueDate = 2000 + l.value
                 /\ (t.entryDate = Nothing) <=> (l.entry = Nothing)
                 /\ l.entry # Nothing => t.entryDate[2] = l.entry
                 /\ t.type = "Debit" <=> l.mark \in {"D", "DR"}
                 /\ Letters(l.mark) = 2 => t.amount = l.amount
                 /\ IF texts = {} THEN t.details = Nothing
                    ELSE \E j \in texts : /\ \A k \in texts : k <= j
                                          /\ t.details = lines[j].text
  <2>1. PICK i \in Tagged(":61:") : Number(i) = n /\ IsOfLine(P[n], i, N)
    BY <1>2, <1>4 DEF IsReadUpto, P
  <2>2. \A j : Cardinality({k \in Tagged(":61:") : k <= j}) = Number(j)
    BY DEF Number, Upto
  <2>3. ASSUME NEW j \in Tagged(":61:"), Number(j) = n PROVE j = i
    <3>1. i \in Nat /\ j \in Nat BY <1>1 DEF Tagged
    <3>2. ~(i < j) /\ ~(j < i) BY <1>1, <2>1, <2>3, NumbersGrow
    <3>q. QED BY <3>1, <3>2
  <2>4. At61(n) = i BY <2>1, <2>2, <2>3 DEF At61
  <2>5. lines[i] \in TransactionLine
    <3>1. lines[i] \in Lines /\ lines[i].tag = ":61:" BY <1>1, <2>1 DEF Tagged
    <3>q. QED BY <3>1, LineKinds
  <2>6. DescribesUpto(i, N) = Describes(i)
    BY <1>1 DEF DescribesUpto, Describes, Tagged, N
  <2>7. P[n] \in Transaction940 BY <1>5
  <2> DEFINE p == parseTransactionLine(lines[i])
  <2>8. /\ P[n].type = p.type /\ P[n].valueDate = p.valueDate
        /\ P[n].entryDate = p.entryDate /\ P[n].amount = p.amount
    BY <2>1, <2>7 DEF IsOfLine, Transaction940
  <2>9. LastText(P[n].details, Describes(i)) BY <2>1, <2>6 DEF IsOfLine
  <2>q. QED BY <2>4, <2>5, <2>8, <2>9, TransactionIsParsed DEF LastText
<1>9. DOMAIN P = 1..Len(P) BY <1>5
<1> HIDE DEF P, r
<1>q. QED BY <1>3, <1>6, <1>7, <1>8, <1>9 DEF StatementIsRead
=============================================================================

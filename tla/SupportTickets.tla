---------------------------- MODULE SupportTickets ----------------------------
(***************************************************************************)
(* Support tickets (support-tickets.service.ts): a ticket is inserted and  *)
(* gets its code, which is made of its number, in a second call; its       *)
(* status and priority are written together, the priority as it was read   *)
(* if the request names none.                                              *)
(*                                                                         *)
(* IN_PROGRESS is treated as OPEN and CLOSED as RESOLVED; resolvedAt is    *)
(* written with the status and follows from it.                            *)
(***************************************************************************)
EXTENDS Backend

CONSTANTS
    Priority,           \* LOW, MEDIUM and HIGH
    MaxTickets          \* bound on tickets ever created

Tickets == 1..MaxTickets

ASSUME TicketsAssumption ==
    /\ MaxTickets \in Nat
    /\ "MEDIUM" \in Priority

Status == {"OPEN", "RESOLVED"}
Ticket == [ticketCode : Tickets \cup {None}, status : Status, priority : Priority,
           viewed : BOOLEAN]

(* asked is the priority the request names, read the one found with it.    *)
TicketRequest ==
    [pc : {"ticket.insert"}]
    \cup [pc : {"ticket.code", "ticket.view"}, id : Tickets]
    \cup [pc : {"ticket.update"}, id : Tickets, status : Status,
          asked : Priority \cup {None}, read : Priority]

ASSUME TicketNone == None \notin Priority /\ None \notin Tickets /\ None \notin Ticket

VARIABLES
    tickets,        \* the table SupportTicket; ids are ticket numbers
    outdated        \* handlers in flight whose ticket changed priority since they read it

supportTickets == <<tickets, outdated>>

TicketsTypeOK ==
    /\ tickets \in [Tickets -> Ticket \cup {None}]
    /\ outdated \subseteq Handlers
    /\ req \in [Handlers -> TicketRequest \cup {Idle}]
    /\ faults \in 0..MaxFaults

TicketsInit ==
    /\ tickets = [i \in Tickets |-> None]
    /\ outdated = {}

-----------------------------------------------------------------------------
(* createTicket                                                            *)

CreateTicket(h) ==
    /\ Free(h)
    /\ Begin(h, [pc |-> "ticket.insert"])
    /\ UNCHANGED supportTickets

InsertTicket(h) ==
    /\ At(h, "ticket.insert")
    /\ \E i \in Tickets :
        /\ IsNext(i, tickets)
        /\ tickets' = [tickets EXCEPT ![i] =
                [ticketCode |-> None, status |-> "OPEN", priority |-> "MEDIUM",
                 viewed |-> FALSE]]
        /\ Begin(h, [pc |-> "ticket.code", id |-> i])
    /\ UNCHANGED outdated

(* Mutant: the code of the newest ticket.                                  *)
CodeOfLatest(i) ==
    CHOOSE n \in Tickets : tickets[n] # None /\ \A m \in Tickets : tickets[m] # None => m <= n

formatTicketCode(i) == i

(* The column is unique: a code that is taken makes the call throw.        *)
WriteTicketCode(h) ==
    /\ At(h, "ticket.code")
    /\ LET code == formatTicketCode(req[h].id)
           taken == \E i \in Tickets : tickets[i] # None /\ tickets[i].ticketCode = code
       IN  tickets' = IF taken THEN tickets
                      ELSE [tickets EXCEPT ![req[h].id].ticketCode = code]
    /\ Done(h)
    /\ UNCHANGED outdated

-----------------------------------------------------------------------------
(* updateStatus and markAsView                                             *)

UpdateStatus(h, i) ==
    /\ Free(h)
    /\ tickets[i] # None
    /\ \E status \in Status, asked \in Priority \cup {None} :
        Begin(h, [pc |-> "ticket.update", id |-> i, status |-> status, asked |-> asked,
                  read |-> tickets[i].priority])
    /\ outdated' = outdated \ {h}
    /\ UNCHANGED tickets

(* Mutant: the default of the column.                                      *)
DefaultPriority(r) == IF r.asked = None THEN "MEDIUM" ELSE r.asked

(* dto.priority ?? ticket.priority                                         *)
NewPriority(r) == IF r.asked = None THEN r.read ELSE r.asked

WriteStatus(h) ==
    /\ At(h, "ticket.update")
    /\ LET i == req[h].id
           priority == NewPriority(req[h])
       IN  /\ tickets' = [tickets EXCEPT
                ![i].status = req[h].status,
                ![i].priority = priority]
           /\ outdated' = IF priority = tickets[i].priority THEN outdated
                          ELSE outdated \cup {k \in Handlers \ {h} :
                                    At(k, "ticket.update") /\ req[k].id = i}
    /\ Done(h)

MarkAsView(h, i) ==
    /\ Free(h)
    /\ tickets[i] # None
    /\ Begin(h, [pc |-> "ticket.view", id |-> i])
    /\ UNCHANGED supportTickets

WriteViewed(h) ==
    /\ At(h, "ticket.view")
    /\ tickets' = [tickets EXCEPT ![req[h].id].viewed = TRUE]
    /\ Done(h)
    /\ UNCHANGED outdated

-----------------------------------------------------------------------------
TicketHandler(h) ==
    \/ CreateTicket(h)
    \/ InsertTicket(h)
    \/ WriteTicketCode(h)
    \/ \E i \in Tickets : UpdateStatus(h, i)
    \/ WriteStatus(h)
    \/ \E i \in Tickets : MarkAsView(h, i)
    \/ WriteViewed(h)

TicketsNext ==
    \/ \E h \in Handlers : TicketHandler(h)
    \/ Restart /\ UNCHANGED supportTickets

-----------------------------------------------------------------------------
(* Every ticket gets a code of its own, whatever was created meanwhile: one*)
(* without is about to, or a failure ended its creation between the calls. *)
TicketsHaveCodes ==
    Cardinality({i \in Tickets :
                    /\ tickets[i] # None /\ tickets[i].ticketCode = None
                    /\ ~\E h \in Handlers : At(h, "ticket.code") /\ req[h].id = i})
        <= faults * Cardinality(Handlers)

(* A request that names no priority leaves it as it is; it takes back a    *)
(* change only if that was made while it was in flight.                    *)
PriorityIsKept ==
    [][\A i \in Tickets :
        tickets[i] # None /\ tickets'[i].priority # tickets[i].priority =>
            \E h \in Handlers :
                /\ At(h, "ticket.update") /\ req[h].id = i
                /\ req[h].asked = tickets'[i].priority \/ h \in outdated]_supportTickets
=============================================================================

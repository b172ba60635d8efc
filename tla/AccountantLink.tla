---------------------------- MODULE AccountantLink ----------------------------
(***************************************************************************)
(* Clients and their accountants: a client requests one, an administrator  *)
(* answers the request (accountant-requests.service.ts), accountants add   *)
(* and remove clients themselves (manage-clients.service.ts), and look at  *)
(* the purchases of their own clients only (validate-accountant-access.ts).*)
(*                                                                         *)
(* haveAccountant and accountantId are always written together: link.      *)
(* Every handler decides on rows it read before, so the model remembers    *)
(* for which handlers that reading has become stale.                       *)
(***************************************************************************)
EXTENDS Backend

CONSTANTS
    Clients,            \* users who look for an accountant
    Accountants,
    MaxRequests         \* bound on requests ever made

Requests == 1..MaxRequests

ASSUME LinkAssumption == MaxRequests \in Nat

LinkRequest ==
    [pc : {"request.create", "approve.update", "approve.link", "reject.update", "add.check",
           "add.link", "remove.unlink", "preview.check", "preview.find", "preview.update",
           "role.update"},
     client : Clients \cup {None}, acc : Accountants \cup {None}, of : Requests \cup {None}]

AccountantRequest == [client : Clients, status : {"PENDING", "APPROVED", "REJECTED"}]

ASSUME LinkNone == None \notin Clients \cup Accountants \cup Requests \cup AccountantRequest

VARIABLES
    link,           \* the accountant of each client
    isUser,         \* the clients whose role is USER
    requests,       \* the table AccountantRequest
    previewed,      \* the accountants who previewed a purchase of each client
    stale,          \* handlers in flight whose client's row changed since they read it
    linkedBy        \* requests whose approval has reached the client's row

accountantLink == <<link, isUser, requests, previewed, stale, linkedBy>>

LinkTypeOK ==
    /\ link \in [Clients -> Accountants \cup {None}]
    /\ isUser \subseteq Clients
    /\ requests \in [Requests -> AccountantRequest \cup {None}]
    /\ previewed \in [Clients -> SUBSET Accountants]
    /\ stale \subseteq Handlers
    /\ linkedBy \subseteq Requests
    /\ req \in [Handlers -> LinkRequest \cup {Idle}]
    /\ faults \in 0..MaxFaults

LinkInit ==
    /\ link = [c \in Clients |-> None]
    /\ isUser = Clients
    /\ requests = [r \in Requests |-> None]
    /\ previewed = [c \in Clients |-> {}]
    /\ stale = {}
    /\ linkedBy = {}

(* What h reads of its client is fresh; a write to the row of c makes what *)
(* others read stale.                                                      *)
Reads(h) == stale' = stale \ {h}
Writes(c) == stale' = stale \cup {k \in Handlers : ~Free(k) /\ req[k].client = c}

-----------------------------------------------------------------------------
(* requestAccountant                                                       *)

RequestAccountant(h, c) ==
    /\ Free(h)
    /\ link[c] = None
    /\ Begin(h, [pc |-> "request.create", client |-> c, acc |-> None, of |-> None])
    /\ Reads(h)
    /\ UNCHANGED <<link, isUser, requests, previewed, linkedBy>>

CreateRequest(h) ==
    /\ At(h, "request.create")
    /\ \E r \in Requests :
        /\ IsNext(r, requests)
        /\ requests' = [requests EXCEPT ![r] = [client |-> req[h].client, status |-> "PENDING"]]
    /\ Done(h)
    /\ UNCHANGED <<link, isUser, previewed, stale, linkedBy>>

-----------------------------------------------------------------------------
(* approveAccountantRequest and rejectAccountantRequest: neither looks at  *)
(* the status, nor at the accountant the client may have.                  *)

Answer(h, r) ==
    /\ Free(h)
    /\ requests[r] # None
    /\ \/ \E a \in Accountants :
            Begin(h, [pc |-> "approve.update", client |-> None, acc |-> a, of |-> r])
       \/ Begin(h, [pc |-> "reject.update", client |-> None, acc |-> None, of |-> r])
    /\ UNCHANGED accountantLink

ApproveRequest(h) ==
    /\ At(h, "approve.update")
    /\ requests' = [requests EXCEPT ![req[h].of].status = "APPROVED"]
    /\ Begin(h, [req[h] EXCEPT !.pc = "approve.link", !.client = requests[req[h].of].client])
    /\ UNCHANGED <<link, isUser, previewed, stale, linkedBy>>

(* Mutant: a client who has an accountant by now is left alone.            *)
LinkUnlinked(h) ==
    /\ At(h, "approve.link")
    /\ IF link[req[h].client] = None
       THEN /\ link' = [link EXCEPT ![req[h].client] = req[h].acc]
            /\ linkedBy' = linkedBy \cup {req[h].of}
            /\ Writes(req[h].client)
       ELSE UNCHANGED <<link, linkedBy, stale>>
    /\ Done(h)
    /\ UNCHANGED <<isUser, requests, previewed>>

LinkApproved(h) ==
    /\ At(h, "approve.link")
    /\ link' = [link EXCEPT ![req[h].client] = req[h].acc]
    /\ linkedBy' = linkedBy \cup {req[h].of}
    /\ Writes(req[h].client)
    /\ Done(h)
    /\ UNCHANGED <<isUser, requests, previewed>>

RejectRequest(h) ==
    /\ At(h, "reject.update")
    /\ requests' = [requests EXCEPT ![req[h].of].status = "REJECTED"]
    /\ Done(h)
    /\ UNCHANGED <<link, isUser, previewed, stale, linkedBy>>

-----------------------------------------------------------------------------
(* addClient and removeFromMe                                              *)

AddClient(h, c, a) ==
    /\ Free(h)
    /\ Begin(h, [pc |-> "add.check", client |-> c, acc |-> a, of |-> None])
    /\ UNCHANGED accountantLink

(* Mutant: only the accountant's own clients are refused.                  *)
CheckNotMine(h) ==
    /\ At(h, "add.check")
    /\ IF link[req[h].client] # req[h].acc THEN Step(h, "add.link") ELSE Done(h)
    /\ Reads(h)
    /\ UNCHANGED <<link, isUser, requests, previewed, linkedBy>>

CheckUnlinked(h) ==
    /\ At(h, "add.check")
    /\ IF link[req[h].client] = None THEN Step(h, "add.link") ELSE Done(h)
    /\ Reads(h)
    /\ UNCHANGED <<link, isUser, requests, previewed, linkedBy>>

LinkAdded(h) ==
    /\ At(h, "add.link")
    /\ link' = [link EXCEPT ![req[h].client] = req[h].acc]
    /\ Writes(req[h].client)
    /\ Done(h)
    /\ UNCHANGED <<isUser, requests, previewed, linkedBy>>

RemoveFromMe(h, c, a) ==
    /\ Free(h)
    /\ link[c] = a
    /\ Begin(h, [pc |-> "remove.unlink", client |-> c, acc |-> a, of |-> None])
    /\ Reads(h)
    /\ UNCHANGED <<link, isUser, requests, previewed, linkedBy>>

Unlink(h) ==
    /\ At(h, "remove.unlink")
    /\ link' = [link EXCEPT ![req[h].client] = None]
    /\ Writes(req[h].client)
    /\ Done(h)
    /\ UNCHANGED <<isUser, requests, previewed, linkedBy>>

-----------------------------------------------------------------------------
(* getPurchaseDetailedReport marks the purchase as previewed; validate     *)
(* looks at the link once, two calls earlier.                              *)

GetPurchase(h, c, a) ==
    /\ Free(h)
    /\ Begin(h, [pc |-> "preview.check", client |-> c, acc |-> a, of |-> None])
    /\ UNCHANGED accountantLink

(* Mutant: any accountant of the client's will do.                         *)
IsSomeonesClient(c, a) == c \in isUser /\ link[c] # None

IsClientOf(c, a) == c \in isUser /\ link[c] = a

ValidateAccess(h) ==
    /\ At(h, "preview.check")
    /\ IF IsClientOf(req[h].client, req[h].acc) THEN Step(h, "preview.find") ELSE Done(h)
    /\ Reads(h)
    /\ UNCHANGED <<link, isUser, requests, previewed, linkedBy>>

FindPurchase(h) ==
    /\ At(h, "preview.find")
    /\ Step(h, "preview.update")
    /\ UNCHANGED accountantLink

MarkPreviewed(h) ==
    /\ At(h, "preview.update")
    /\ previewed' = [previewed EXCEPT ![req[h].client] = @ \cup {req[h].acc}]
    /\ Done(h)
    /\ UNCHANGED <<link, isUser, requests, stale, linkedBy>>

-----------------------------------------------------------------------------
(* updateRole (user-management.service.ts)                                 *)

UpdateRole(h, c) ==
    /\ Free(h)
    /\ Begin(h, [pc |-> "role.update", client |-> c, acc |-> None, of |-> None])
    /\ UNCHANGED accountantLink

SetRole(h) ==
    /\ At(h, "role.update")
    /\ isUser' \in {isUser \cup {req[h].client}, isUser \ {req[h].client}}
    /\ Writes(req[h].client)
    /\ Done(h)
    /\ UNCHANGED <<link, requests, previewed, linkedBy>>

-----------------------------------------------------------------------------
LinkHandler(h) ==
    \/ \E c \in Clients : RequestAccountant(h, c)
    \/ CreateRequest(h)
    \/ \E r \in Requests : Answer(h, r)
    \/ ApproveRequest(h)
    \/ LinkApproved(h)
    \/ RejectRequest(h)
    \/ \E c \in Clients, a \in Accountants : AddClient(h, c, a)
    \/ CheckUnlinked(h)
    \/ LinkAdded(h)
    \/ \E c \in Clients, a \in Accountants : RemoveFromMe(h, c, a)
    \/ Unlink(h)
    \/ \E c \in Clients, a \in Accountants : GetPurchase(h, c, a)
    \/ ValidateAccess(h)
    \/ FindPurchase(h)
    \/ MarkPreviewed(h)
    \/ \E c \in Clients : UpdateRole(h, c)
    \/ SetRole(h)

LinkNext ==
    \/ \E h \in Handlers : LinkHandler(h)
    \/ Restart /\ UNCHANGED accountantLink

-----------------------------------------------------------------------------
(* Accountants do not take each other's clients, and drop only their own:  *)
(* whoever changes a link saw it as it is, or the row changed after he saw *)
(* it.  Only an administrator's approval replaces an accountant.           *)
LinkIsRespected ==
    [][\A c \in Clients : link'[c] # link[c] =>
        \E h \in Handlers :
            /\ req[h] # Idle /\ req[h].client = c
            /\ \/ At(h, "approve.link")
               \/ At(h, "add.link") /\ (link[c] = None \/ h \in stale)
               \/ At(h, "remove.unlink") /\ (link[c] = req[h].acc \/ h \in stale)]_accountantLink

(* An accountant previews purchases of his own clients only, unless the    *)
(* client leaves him between the check and the mark.                       *)
PreviewIsAllowed ==
    [][\A c \in Clients : previewed'[c] # previewed[c] =>
        \E h \in Handlers :
            /\ At(h, "preview.update")
            /\ req[h].client = c
            /\ (link[c] = req[h].acc /\ c \in isUser) \/ h \in stale]_accountantLink

(* An approved request gave its client an accountant, or is about to; a    *)
(* failure between the two writes loses at most one of them.               *)
ApprovalLinks ==
    Cardinality({r \in Requests \ linkedBy :
                    /\ requests[r] # None /\ requests[r].status = "APPROVED"
                    /\ ~\E h \in Handlers : At(h, "approve.link") /\ req[h].of = r})
        <= faults * Cardinality(Handlers)
=============================================================================

------------------------------ MODULE BankImport ------------------------------
(***************************************************************************)
(* Transactions of a user's bank accounts, fetched from Tink and stored    *)
(* (tink.service.ts).  A transaction is identified by its date,            *)
(* description and amount, in the whole table: here a key.  The same key   *)
(* of another user, or a second time for the same user, is skipped.        *)
(***************************************************************************)
EXTENDS Backend

CONSTANTS
    AccountHolders,     \* users with a bank account
    Keys                \* date, description and amount of a transaction

ImportRequest ==
    [pc : {"tink.fetch"}, user : AccountHolders]
    \cup [pc : {"tink.find", "tink.token", "tink.store"}, user : AccountHolders, keys : SUBSET Keys]

ASSUME ImportNone == None \notin AccountHolders \cup Keys

VARIABLES
    owner,          \* the table Transaction: the userId of each key
    hasToken,       \* the users with a tinkAccessToken
    reported        \* what the bank reported in imports that were answered, by user

bankImport == <<owner, hasToken, reported>>

ImportTypeOK ==
    /\ owner \in [Keys -> AccountHolders \cup {None}]
    /\ hasToken \subseteq AccountHolders
    /\ reported \in [AccountHolders -> SUBSET Keys]
    /\ req \in [Handlers -> ImportRequest \cup {Idle}]
    /\ faults \in 0..MaxFaults

ImportInit ==
    /\ owner = [k \in Keys |-> None]
    /\ hasToken = {}
    /\ reported = [u \in AccountHolders |-> {}]

StoreTransactions(h, u) ==
    /\ Free(h)
    /\ Begin(h, [pc |-> "tink.fetch", user |-> u])
    /\ UNCHANGED bankImport

GetTransactions(h) ==
    /\ At(h, "tink.fetch")
    /\ \/ \E keys \in SUBSET Keys :
            Begin(h, [pc |-> "tink.find", user |-> req[h].user, keys |-> keys])
       \/ Fail(h)
    /\ UNCHANGED bankImport

FindHolder(h) ==
    /\ At(h, "tink.find")
    /\ Step(h, "tink.token")
    /\ UNCHANGED bankImport

StoreAccessToken(h) ==
    /\ At(h, "tink.token")
    /\ hasToken' = hasToken \cup {req[h].user}
    /\ Step(h, "tink.store")
    /\ UNCHANGED <<owner, reported>>

(* Mutant: one duplicate, and nothing is stored.                           *)
AllOrNothing(keys, u) ==
    IF \E k \in keys : owner[k] # None THEN owner
    ELSE [k \in Keys |-> IF k \in keys THEN u ELSE owner[k]]

(* createMany with skipDuplicates.                                         *)
SkipDuplicates(keys, u) ==
    [k \in Keys |-> IF k \in keys /\ owner[k] = None THEN u ELSE owner[k]]

StoreMyTransaction(h) ==
    /\ At(h, "tink.store")
    /\ owner' = SkipDuplicates(req[h].keys, req[h].user)
    /\ reported' = [reported EXCEPT ![req[h].user] = @ \cup req[h].keys]
    /\ Done(h)
    /\ UNCHANGED hasToken

ImportHandler(h) ==
    \/ \E u \in AccountHolders : StoreTransactions(h, u)
    \/ GetTransactions(h)
    \/ FindHolder(h)
    \/ StoreAccessToken(h)
    \/ StoreMyTransaction(h)

ImportNext ==
    \/ \E h \in Handlers : ImportHandler(h)
    \/ Restart /\ UNCHANGED bankImport

-----------------------------------------------------------------------------
(* Nothing an answered import reported is missing from the table, and what *)
(* a user does not see as his own another user's answered import reported, *)
(* who has a token too, however imports overlap and fail.                  *)
ReportedIsStored ==
    \A u \in AccountHolders : \A k \in reported[u] :
        /\ u \in hasToken
        /\ owner[k] # None
        /\ k \in reported[owner[k]] /\ owner[k] \in hasToken
=============================================================================

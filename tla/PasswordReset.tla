----------------------------- MODULE PasswordReset -----------------------------
(***************************************************************************)
(* A forgotten password (auth/forget-password.service.ts): a code mailed   *)
(* to the address, a crypto token for the code, a password for the token.  *)
(* And updatePassword (auth/auth.service.ts), which asks for the old one.  *)
(*                                                                         *)
(* Rows of users are never removed, so their lookups always succeed here.  *)
(* Of a password the model keeps how it was set.                           *)
(***************************************************************************)
EXTENDS Backend

CONSTANTS
    Owners,             \* users, each with an address of his own
    MaxResetCodes,      \* bound on codes ever sent
    MaxCryptoTokens,    \* bound on tokens ever issued
    ResetLife           \* life time of a code and of a token

ResetCodes == 1..MaxResetCodes
CryptoTokens == 1..MaxCryptoTokens

ASSUME ResetAssumption ==
    /\ {MaxResetCodes, MaxCryptoTokens} \subseteq Nat
    /\ ResetLife \in Nat \ {0}

ResetRequest ==
    [pc : {"reset.del", "reset.store", "reset.mail", "reset.used", "reset.token"},
     user : Owners, code : ResetCodes \cup {None}]
    \cup [pc : {"change.update", "change.del"}, user : Owners, token : CryptoTokens]
    \cup [pc : {"update"}, user : Owners]

ForPas == [code : ResetCodes, left : 1..ResetLife]
Cryp == [user : Owners, left : 1..ResetLife]

ASSUME ResetNone == None \notin ResetCodes \cup Owners \cup ForPas \cup Cryp

VARIABLES
    password,       \* the column: how it was set
    forPas,         \* the key forPas_<email>
    cryp,           \* the keys cryp_<token>
    resetFor,       \* the owner of the address each code was made for
    sent,           \* the codes that were mailed
    boughtWith,     \* the code each token was issued for
    changed         \* passwords set, by token

reset == <<password, forPas, cryp, resetFor, sent, boughtWith, changed>>

(* With the account, through a token, or by showing the old one.           *)
Password == [by : {"registration", "updatePassword"}] \cup [by : {"token"}, token : CryptoTokens]

ResetTypeOK ==
    /\ password \in [Owners -> Password]
    /\ forPas \in [Owners -> ForPas \cup {None}]
    /\ cryp \in [CryptoTokens -> Cryp \cup {None}]
    /\ resetFor \in [ResetCodes -> Owners \cup {None}]
    /\ sent \subseteq ResetCodes
    /\ boughtWith \in [CryptoTokens -> ResetCodes \cup {None}]
    /\ changed \in [CryptoTokens -> Nat]
    /\ req \in [Handlers -> ResetRequest \cup {Idle}]
    /\ faults \in 0..MaxFaults

ResetInit ==
    /\ password = [u \in Owners |-> [by |-> "registration"]]
    /\ forPas = [u \in Owners |-> None]
    /\ cryp = [t \in CryptoTokens |-> None]
    /\ resetFor = [c \in ResetCodes |-> None]
    /\ sent = {}
    /\ boughtWith = [t \in CryptoTokens |-> None]
    /\ changed = [t \in CryptoTokens |-> 0]

-----------------------------------------------------------------------------
(* sendForgetPassCode                                                      *)

SendForgetPassCode(h, u) ==
    /\ Free(h)
    /\ Begin(h, [pc |-> "reset.del", user |-> u, code |-> None])
    /\ UNCHANGED reset

DeleteOldCode(h) ==
    /\ At(h, "reset.del")
    /\ forPas' = [forPas EXCEPT ![req[h].user] = None]
    /\ Step(h, "reset.store")
    /\ UNCHANGED <<password, cryp, resetFor, sent, boughtWith, changed>>

StoreResetCode(h) ==
    /\ At(h, "reset.store")
    /\ \E c \in ResetCodes :
        /\ IsNext(c, resetFor)
        /\ resetFor' = [resetFor EXCEPT ![c] = req[h].user]
        /\ forPas' = [forPas EXCEPT ![req[h].user] = [code |-> c, left |-> ResetLife]]
        /\ Begin(h, [req[h] EXCEPT !.pc = "reset.mail", !.code = c])
    /\ UNCHANGED <<password, cryp, sent, boughtWith, changed>>

MailResetCode(h) ==
    /\ At(h, "reset.mail")
    /\ \/ sent' = sent \cup {req[h].code} /\ Done(h)
       \/ Fail(h) /\ UNCHANGED sent
    /\ UNCHANGED <<password, forPas, cryp, resetFor, boughtWith, changed>>

-----------------------------------------------------------------------------
(* verifyForgetPassCode                                                    *)

(* Mutant: the codes of other addresses will do.                           *)
CodeIsSomeones(u, shown) == forPas[u] # None /\ shown # None

CodeIsRight(u, shown) == forPas[u] # None /\ forPas[u].code = shown

VerifyForgetPassCode(h, u) ==
    /\ Free(h)
    /\ \E shown \in sent :
        /\ CodeIsRight(u, shown)
        /\ Begin(h, [pc |-> "reset.used", user |-> u, code |-> shown])
    /\ UNCHANGED reset

DeleteResetCode(h) ==
    /\ At(h, "reset.used")
    /\ forPas' = [forPas EXCEPT ![req[h].user] = None]
    /\ Step(h, "reset.token")
    /\ UNCHANGED <<password, cryp, resetFor, sent, boughtWith, changed>>

IssueCrypto(h) ==
    /\ At(h, "reset.token")
    /\ \E t \in CryptoTokens :
        /\ IsNext(t, boughtWith)
        /\ cryp' = [cryp EXCEPT ![t] = [user |-> req[h].user, left |-> ResetLife]]
        /\ boughtWith' = [boughtWith EXCEPT ![t] = req[h].code]
    /\ Done(h)
    /\ UNCHANGED <<password, forPas, resetFor, sent, changed>>

-----------------------------------------------------------------------------
(* changePassword and updatePassword                                       *)

ChangePassword(h, t) ==
    /\ Free(h)
    /\ cryp[t] # None
    /\ Begin(h, [pc |-> "change.update", user |-> cryp[t].user, token |-> t])
    /\ UNCHANGED reset

SetForgotten(h) ==
    /\ At(h, "change.update")
    /\ password' = [password EXCEPT ![req[h].user] = [by |-> "token", token |-> req[h].token]]
    /\ changed' = [changed EXCEPT ![req[h].token] = @ + 1]
    /\ Step(h, "change.del")
    /\ UNCHANGED <<forPas, cryp, resetFor, sent, boughtWith>>

(* Mutant: the token stays until it expires.                               *)
KeepCrypto(h) ==
    /\ At(h, "change.del")
    /\ Done(h)
    /\ UNCHANGED reset

DeleteCrypto(h) ==
    /\ At(h, "change.del")
    /\ cryp' = [cryp EXCEPT ![req[h].token] = None]
    /\ Done(h)
    /\ UNCHANGED <<password, forPas, resetFor, sent, boughtWith, changed>>

(* The old password is compared with the row as it was read; it begins here*)
(* when it is right.                                                       *)
UpdatePassword(h, u) ==
    /\ Free(h)
    /\ Begin(h, [pc |-> "update", user |-> u])
    /\ UNCHANGED reset

SetUpdated(h) ==
    /\ At(h, "update")
    /\ password' = [password EXCEPT ![req[h].user] = [by |-> "updatePassword"]]
    /\ Done(h)
    /\ UNCHANGED <<forPas, cryp, resetFor, sent, boughtWith, changed>>

-----------------------------------------------------------------------------
ResetTick ==
    /\ forPas' = Aged(forPas)
    /\ cryp' = Aged(cryp)
    /\ UNCHANGED <<password, resetFor, sent, boughtWith, changed>>
    /\ UNCHANGED backend

ResetHandler(h) ==
    \/ \E u \in Owners : SendForgetPassCode(h, u)
    \/ DeleteOldCode(h)
    \/ StoreResetCode(h)
    \/ MailResetCode(h)
    \/ \E u \in Owners : VerifyForgetPassCode(h, u)
    \/ DeleteResetCode(h)
    \/ IssueCrypto(h)
    \/ \E t \in CryptoTokens : ChangePassword(h, t)
    \/ SetForgotten(h)
    \/ DeleteCrypto(h)
    \/ \E u \in Owners : UpdatePassword(h, u)
    \/ SetUpdated(h)

ResetNext ==
    \/ \E h \in Handlers : ResetHandler(h)
    \/ ResetTick
    \/ Restart /\ UNCHANGED reset

-----------------------------------------------------------------------------
(* A password set through a token was set by somebody who read a code that *)
(* was mailed to the address of that user, and of no other.                *)
ResetIsConfirmed ==
    \A u \in Owners :
        password[u].by = "token" =>
            LET code == boughtWith[password[u].token]
            IN  code \in sent /\ resetFor[code] = u

(* A token is good for one password.  Requests that overlap, and a restart *)
(* between the update and the deletion of the token, repeat it, each once. *)
ResetsBounded ==
    \A t \in CryptoTokens : changed[t] <= Cardinality(Handlers) * (faults + 1)
=============================================================================

----------------------------- MODULE Registration -----------------------------
(***************************************************************************)
(* Registration (auth/auth.service.ts): a code is mailed to an address,    *)
(* the code buys a verification token, and the token an account.  Codes    *)
(* and tokens are keys of Redis, accounts are rows.  An administrator      *)
(* creates accounts without either (user-management.service.ts,            *)
(* accountants.service.ts).                                                *)
(*                                                                         *)
(* Codes and tokens are drawn at random; here each is the next of a finite *)
(* set, so two are never equal.                                            *)
(***************************************************************************)
EXTENDS Backend

CONSTANTS
    Addresses,          \* e-mail addresses
    MaxCodes,           \* bound on codes ever sent
    MaxTokens,          \* bound on tokens ever issued
    OtpAttempts,        \* wrong guesses a code takes, 3 in the code
    OtpLife,            \* life time of a code
    TokenLife           \* life time of a token, twice as long in the code

OtpCodes == 1..MaxCodes
OtpTokens == 1..MaxTokens

ASSUME RegistrationAssumption ==
    /\ {MaxCodes, MaxTokens, OtpAttempts} \subseteq Nat
    /\ {OtpLife, TokenLife} \subseteq Nat \ {0}

Otp == [code : OtpCodes, attempts : 0..OtpAttempts, left : 1..OtpLife]
VerifiedToken == [email : Addresses, left : 1..TokenLife]

(* shown is the code a client enters, None for one that was never mailed;  *)
(* code and attempts are what a handler read.                              *)
RegistrationRequest ==
    [pc : {"otp.store", "otp.mail"}, email : Addresses, code : OtpCodes \cup {None}]
    \cup [pc : {"otp.drop", "otp.count", "otp.token", "otp.used"},
          email : Addresses, code : OtpCodes, attempts : 0..OtpAttempts]
    \cup [pc : {"acc.find", "acc.insert", "acc.token"}, email : Addresses, token : OtpTokens]
    \cup [pc : {"admin.insert", "admin.mail"}, email : Addresses]

ASSUME RegistrationNone == None \notin OtpCodes \cup Otp \cup VerifiedToken \cup Addresses

VARIABLES
    account,    \* the addresses that have an account
    byAdmin,    \* those whose account an administrator created
    otp,        \* the key otp:registration:<email>
    token,      \* the keys otp:verified:<token>
    otpFor,     \* the address each code was made for
    mailed,     \* the codes that reached their mailbox
    wrong,      \* wrong guesses answered, by code
    bought      \* the code each token was issued for

registration == <<account, byAdmin, otp, token, otpFor, mailed, wrong, bought>>

RegistrationTypeOK ==
    /\ account \subseteq Addresses
    /\ byAdmin \subseteq account
    /\ otp \in [Addresses -> Otp \cup {None}]
    /\ token \in [OtpTokens -> VerifiedToken \cup {None}]
    /\ otpFor \in [OtpCodes -> Addresses \cup {None}]
    /\ mailed \subseteq OtpCodes
    /\ wrong \in [OtpCodes -> Nat]
    /\ bought \in [OtpTokens -> OtpCodes \cup {None}]
    /\ req \in [Handlers -> RegistrationRequest \cup {Idle}]
    /\ faults \in 0..MaxFaults

RegistrationInit ==
    /\ account = {}
    /\ byAdmin = {}
    /\ otp = [e \in Addresses |-> None]
    /\ token = [t \in OtpTokens |-> None]
    /\ otpFor = [c \in OtpCodes |-> None]
    /\ mailed = {}
    /\ wrong = [c \in OtpCodes |-> 0]
    /\ bought = [t \in OtpTokens |-> None]

-----------------------------------------------------------------------------
(* sendRegistrationOtp                                                     *)

SendRegistrationOtp(h, e) ==
    /\ Free(h)
    /\ e \notin account
    /\ Begin(h, [pc |-> "otp.store", email |-> e, code |-> None])
    /\ UNCHANGED registration

(* A new code replaces the one that is there.                              *)
StoreOtp(h) ==
    /\ At(h, "otp.store")
    /\ \E c \in OtpCodes :
        /\ IsNext(c, otpFor)
        /\ otpFor' = [otpFor EXCEPT ![c] = req[h].email]
        /\ otp' = [otp EXCEPT ![req[h].email] = [code |-> c, attempts |-> 0, left |-> OtpLife]]
        /\ Begin(h, [req[h] EXCEPT !.pc = "otp.mail", !.code = c])
    /\ UNCHANGED <<account, byAdmin, token, mailed, wrong, bought>>

MailOtp(h) ==
    /\ At(h, "otp.mail")
    /\ \/ mailed' = mailed \cup {req[h].code} /\ Done(h)
       \/ Fail(h) /\ UNCHANGED mailed
    /\ UNCHANGED <<account, byAdmin, otp, token, otpFor, wrong, bought>>

-----------------------------------------------------------------------------
(* verifyRegistrationOtp                                                   *)

(* Mutant: the number of attempts is not looked at.                        *)
UnlimitedVerdict(o, shown) == IF shown # o.code THEN "otp.count" ELSE "otp.token"

(* What follows from the code read from Redis and the one the client shows.*)
OtpVerdict(o, shown) ==
    IF o.attempts >= OtpAttempts THEN "otp.drop"
    ELSE IF shown # o.code THEN "otp.count" ELSE "otp.token"

VerifyRegistrationOtp(h, e) ==
    /\ Free(h)
    /\ otp[e] # None
    /\ \E shown \in mailed \cup {None} :
        Begin(h, [pc |-> OtpVerdict(otp[e], shown), email |-> e,
                  code |-> otp[e].code, attempts |-> otp[e].attempts])
    /\ UNCHANGED registration

DropOtp(h) ==
    /\ At(h, "otp.drop")
    /\ otp' = [otp EXCEPT ![req[h].email] = None]
    /\ Done(h)
    /\ UNCHANGED <<account, byAdmin, token, otpFor, mailed, wrong, bought>>

(* A wrong guess is counted by writing back what was read, with a new life *)
(* time, whatever the key holds by now.                                    *)
CountWrongOtp(h) ==
    /\ At(h, "otp.count")
    /\ otp' = [otp EXCEPT ![req[h].email] = [code |-> req[h].code,
                    attempts |-> req[h].attempts + 1, left |-> OtpLife]]
    /\ wrong' = [wrong EXCEPT ![req[h].code] = @ + 1]
    /\ Done(h)
    /\ UNCHANGED <<account, byAdmin, token, otpFor, mailed, bought>>

(* The token is there before the code is gone.                             *)
IssueToken(h) ==
    /\ At(h, "otp.token")
    /\ \E t \in OtpTokens :
        /\ IsNext(t, bought)
        /\ token' = [token EXCEPT ![t] = [email |-> req[h].email, left |-> TokenLife]]
        /\ bought' = [bought EXCEPT ![t] = req[h].code]
    /\ Step(h, "otp.used")
    /\ UNCHANGED <<account, byAdmin, otp, otpFor, mailed, wrong>>

DeleteUsedOtp(h) ==
    /\ At(h, "otp.used")
    /\ otp' = [otp EXCEPT ![req[h].email] = None]
    /\ Done(h)
    /\ UNCHANGED <<account, byAdmin, token, otpFor, mailed, wrong, bought>>

-----------------------------------------------------------------------------
(* completeRegistration                                                    *)

(* Mutant: any token will do.                                              *)
AnyTokenOpens(t, e) == token[t] # None

TokenOpens(t, e) == token[t] # None /\ token[t].email = e

CompleteRegistration(h, e, t) ==
    /\ Free(h)
    /\ TokenOpens(t, e)
    /\ Begin(h, [pc |-> "acc.find", email |-> e, token |-> t])
    /\ UNCHANGED registration

FindAccount(h) ==
    /\ At(h, "acc.find")
    /\ IF req[h].email \in account THEN Done(h) ELSE Step(h, "acc.insert")
    /\ UNCHANGED registration

(* The column email is unique: of two inserts the second throws.           *)
InsertAccount(h) ==
    /\ At(h, "acc.insert")
    /\ IF req[h].email \in account
       THEN Done(h) /\ UNCHANGED account
       ELSE /\ account' = account \cup {req[h].email}
            /\ Step(h, "acc.token")
    /\ UNCHANGED <<byAdmin, otp, token, otpFor, mailed, wrong, bought>>

(* The welcome mail and the activity log follow.                           *)
DeleteToken(h) ==
    /\ At(h, "acc.token")
    /\ token' = [token EXCEPT ![req[h].token] = None]
    /\ Done(h)
    /\ UNCHANGED <<account, byAdmin, otp, otpFor, mailed, wrong, bought>>

-----------------------------------------------------------------------------
(* createUser and create: the temporary password is mailed.                *)

CreateUser(h, e) ==
    /\ Free(h)
    /\ e \notin account
    /\ Begin(h, [pc |-> "admin.insert", email |-> e])
    /\ UNCHANGED registration

InsertUser(h) ==
    /\ At(h, "admin.insert")
    /\ IF req[h].email \in account
       THEN Done(h) /\ UNCHANGED <<account, byAdmin>>
       ELSE /\ account' = account \cup {req[h].email}
            /\ byAdmin' = byAdmin \cup {req[h].email}
            /\ Step(h, "admin.mail")
    /\ UNCHANGED <<otp, token, otpFor, mailed, wrong, bought>>

MailPassword(h) ==
    /\ At(h, "admin.mail")
    /\ Done(h) \/ Fail(h)
    /\ UNCHANGED registration

-----------------------------------------------------------------------------
(* Keys of Redis go away by themselves.                                    *)
RegistrationTick ==
    /\ otp' = Aged(otp)
    /\ token' = Aged(token)
    /\ UNCHANGED <<account, byAdmin, otpFor, mailed, wrong, bought>>
    /\ UNCHANGED backend

RegistrationHandler(h) ==
    \/ \E e \in Addresses : SendRegistrationOtp(h, e)
    \/ StoreOtp(h)
    \/ MailOtp(h)
    \/ \E e \in Addresses : VerifyRegistrationOtp(h, e)
    \/ DropOtp(h)
    \/ CountWrongOtp(h)
    \/ IssueToken(h)
    \/ DeleteUsedOtp(h)
    \/ \E e \in Addresses, t \in OtpTokens : CompleteRegistration(h, e, t)
    \/ FindAccount(h)
    \/ InsertAccount(h)
    \/ DeleteToken(h)
    \/ \E e \in Addresses : CreateUser(h, e)
    \/ InsertUser(h)
    \/ MailPassword(h)

RegistrationNext ==
    \/ \E h \in Handlers : RegistrationHandler(h)
    \/ RegistrationTick
    \/ Restart /\ UNCHANGED registration

-----------------------------------------------------------------------------
(* An account that no administrator created belongs to an address that was *)
(* shown to be read: a code was mailed there, entered, and the token it    *)
(* bought used for that address (completeRegistration compares the two).   *)
AccountIsConfirmed ==
    \A e \in account \ byAdmin : \E t \in OtpTokens :
        /\ bought[t] # None
        /\ bought[t] \in mailed
        /\ otpFor[bought[t]] = e

(* "attempts remaining": a code takes OtpAttempts wrong guesses of a single*)
(* client.  Concurrent guesses overwrite each other's count, and bring back*)
(* a code that was dropped or has expired, but never without counting: the *)
(* number of answers stays bounded by how many run at a time.              *)
OtpGuessesBounded ==
    \A c \in OtpCodes : wrong[c] <= Answers[Cardinality(Handlers)][OtpAttempts]
=============================================================================

-------------------------------- MODULE Login --------------------------------
(***************************************************************************)
(* Logging in with a password and, if the user switched it on, a second    *)
(* factor (auth/auth.service.ts); switching the second factor on and off   *)
(* with a code (auth/2fa.service.ts); the guard every other request passes *)
(* (auth/guard/auth.guard.ts); deleting the account, which only marks it.  *)
(*                                                                         *)
(* Passwords, the signing of tokens and their life time of a day are left  *)
(* out: a login begins here when the password will turn out right.         *)
(***************************************************************************)
EXTENDS Backend

CONSTANTS
    Members,            \* users with an account
    MaxLoginCodes,      \* bound on codes ever made for logging in
    MaxSwitchCodes,     \* bound on codes ever made for the switch
    LoginAttempts,      \* wrong guesses a login code takes, 5 in the code
    LoginLife           \* life time of either code

LoginCodes == 1..MaxLoginCodes
SwitchCodes == 1..MaxSwitchCodes

ASSUME LoginAssumption ==
    /\ {MaxLoginCodes, MaxSwitchCodes, LoginAttempts} \subseteq Nat
    /\ LoginLife \in Nat \ {0}

Login2FA == [code : LoginCodes, attempts : 0..LoginAttempts, left : 1..LoginLife]
SwitchOtp == [code : SwitchCodes, left : 1..LoginLife]

(* What a member asks for behind the guard.                                *)
Guarded == {"switch.send", "switch.verify", "delete"}

(* second and flag are twoFactorEnabled as the handler read it; code is    *)
(* what it read from Redis; shown what the client entered, None if wrong.  *)
LoginRequest ==
    [pc : {"login.password"}, user : Members, second : BOOLEAN]
    \cup [pc : {"login.get", "login.store", "login.mail"}, user : Members,
          code : LoginCodes \cup {None}]
    \cup [pc : {"login.drop", "login.count", "login.used", "login.user"}, user : Members,
          code : LoginCodes, attempts : 0..LoginAttempts]
    \cup [pc : {"guard"} \cup Guarded, user : Members, for : Guarded,
          shown : SwitchCodes \cup {None}]
    \cup [pc : {"switch.store", "switch.mail"}, user : Members, code : SwitchCodes \cup {None}]
    \cup [pc : {"switch.get", "switch.used", "switch.update"}, user : Members,
          shown : SwitchCodes \cup {None}, flag : BOOLEAN]

ASSUME LoginNone ==
    None \notin Members \cup LoginCodes \cup SwitchCodes \cup Login2FA \cup SwitchOtp

VARIABLES
    isDeleted,          \* the column, as the set of members marked
    twoFactorEnabled,   \* the column, as the set of members it is set for
    login2FA,           \* the key 2fa:login:<email>
    switchOtp,          \* the key otp:<userId>
    madeFor,            \* the member each login code was made for
    switchFor,          \* the member each switch code was made for
    told,               \* login codes and switch codes that were mailed
    signed,             \* the members who hold an access token
    guessed,            \* wrong guesses answered, by login code
    opened,             \* access tokens signed, by login code
    switched,           \* updates of the switch, by its code
    past                \* handlers past the guard when their member was deleted

login == <<isDeleted, twoFactorEnabled, login2FA, switchOtp, madeFor, switchFor, told, signed,
           guessed, opened, switched, past>>

LoginTypeOK ==
    /\ isDeleted \subseteq Members
    /\ twoFactorEnabled \subseteq Members
    /\ login2FA \in [Members -> Login2FA \cup {None}]
    /\ switchOtp \in [Members -> SwitchOtp \cup {None}]
    /\ madeFor \in [LoginCodes -> Members \cup {None}]
    /\ switchFor \in [SwitchCodes -> Members \cup {None}]
    /\ told \in [login : SUBSET LoginCodes, switch : SUBSET SwitchCodes]
    /\ signed \subseteq Members
    /\ guessed \in [LoginCodes -> Nat]
    /\ opened \in [LoginCodes -> Nat]
    /\ switched \in [SwitchCodes -> Nat]
    /\ past \subseteq Handlers
    /\ req \in [Handlers -> LoginRequest \cup {Idle}]
    /\ faults \in 0..MaxFaults

LoginInit ==
    /\ isDeleted = {}
    /\ twoFactorEnabled = {}
    /\ login2FA = [u \in Members |-> None]
    /\ switchOtp = [u \in Members |-> None]
    /\ madeFor = [c \in LoginCodes |-> None]
    /\ switchFor = [c \in SwitchCodes |-> None]
    /\ told = [login |-> {}, switch |-> {}]
    /\ signed = {}
    /\ guessed = [c \in LoginCodes |-> 0]
    /\ opened = [c \in LoginCodes |-> 0]
    /\ switched = [c \in SwitchCodes |-> 0]
    /\ past = {}

keys == <<login2FA, switchOtp>>
columns == <<isDeleted, twoFactorEnabled>>
history == <<guessed, opened, switched>>
made == <<madeFor, switchFor, told>>

-----------------------------------------------------------------------------
(* login                                                                   *)

Login(h, u) ==
    /\ Free(h)
    /\ u \notin isDeleted
    /\ Begin(h, [pc |-> "login.password", user |-> u, second |-> u \in twoFactorEnabled])
    /\ UNCHANGED login

(* The password is right; without a second factor the token is signed.     *)
PasswordIsValid(h) ==
    /\ At(h, "login.password")
    /\ IF req[h].second
       THEN /\ Begin(h, [pc |-> "login.get", user |-> req[h].user, code |-> None])
            /\ UNCHANGED signed
       ELSE Done(h) /\ signed' = signed \cup {req[h].user}
    /\ UNCHANGED <<columns, keys, made, history, past>>

(* A code that is still there is mailed again ...                          *)
FindLoginCode(h) ==
    /\ At(h, "login.get")
    /\ LET there == login2FA[req[h].user]
       IN  IF there = None THEN Step(h, "login.store")
           ELSE Begin(h, [req[h] EXCEPT !.pc = "login.mail", !.code = there.code])
    /\ UNCHANGED login

(* ... else one is made.                                                   *)
StoreLoginCode(h) ==
    /\ At(h, "login.store")
    /\ \E c \in LoginCodes :
        /\ IsNext(c, madeFor)
        /\ madeFor' = [madeFor EXCEPT ![c] = req[h].user]
        /\ login2FA' = [login2FA EXCEPT ![req[h].user] =
                            [code |-> c, attempts |-> 0, left |-> LoginLife]]
        /\ Begin(h, [req[h] EXCEPT !.pc = "login.mail", !.code = c])
    /\ UNCHANGED <<columns, switchOtp, switchFor, told, signed, history, past>>

MailLoginCode(h) ==
    /\ At(h, "login.mail")
    /\ \/ told' = [told EXCEPT !.login = @ \cup {req[h].code}] /\ Done(h)
       \/ Fail(h) /\ UNCHANGED told
    /\ UNCHANGED <<columns, keys, madeFor, switchFor, signed, history, past>>

-----------------------------------------------------------------------------
(* verifyLogin2FA                                                          *)

LoginVerdict(o, shown) ==
    IF o.attempts >= LoginAttempts THEN "login.drop"
    ELSE IF shown # o.code THEN "login.count" ELSE "login.used"

VerifyLogin2FA(h, u) ==
    /\ Free(h)
    /\ login2FA[u] # None
    /\ \E shown \in told.login \cup {None} :
        Begin(h, [pc |-> LoginVerdict(login2FA[u], shown), user |-> u,
                  code |-> login2FA[u].code, attempts |-> login2FA[u].attempts])
    /\ UNCHANGED login

DropLoginCode(h) ==
    /\ At(h, "login.drop")
    /\ login2FA' = [login2FA EXCEPT ![req[h].user] = None]
    /\ Done(h)
    /\ UNCHANGED <<columns, switchOtp, made, signed, history, past>>

(* Mutant: the attempts are written back as they were read.                *)
ForgetWrongLogin(h) ==
    /\ At(h, "login.count")
    /\ login2FA' = [login2FA EXCEPT ![req[h].user] = [code |-> req[h].code,
                        attempts |-> req[h].attempts, left |-> LoginLife]]
    /\ guessed' = [guessed EXCEPT ![req[h].code] = @ + 1]
    /\ Done(h)
    /\ UNCHANGED <<columns, switchOtp, made, signed, opened, switched, past>>

(* As for registration, what was read is written back, counted once more.  *)
CountWrongLogin(h) ==
    /\ At(h, "login.count")
    /\ login2FA' = [login2FA EXCEPT ![req[h].user] = [code |-> req[h].code,
                        attempts |-> req[h].attempts + 1, left |-> LoginLife]]
    /\ guessed' = [guessed EXCEPT ![req[h].code] = @ + 1]
    /\ Done(h)
    /\ UNCHANGED <<columns, switchOtp, made, signed, opened, switched, past>>

(* Mutant: the code stays until it expires.                                *)
KeepLoginCode(h) ==
    /\ At(h, "login.used")
    /\ Step(h, "login.user")
    /\ UNCHANGED login

DeleteLoginCode(h) ==
    /\ At(h, "login.used")
    /\ login2FA' = [login2FA EXCEPT ![req[h].user] = None]
    /\ Step(h, "login.user")
    /\ UNCHANGED <<columns, switchOtp, made, signed, history, past>>

(* The row is found although the account may be deleted.                   *)
SignAfterCode(h) ==
    /\ At(h, "login.user")
    /\ signed' = signed \cup {req[h].user}
    /\ opened' = [opened EXCEPT ![req[h].code] = @ + 1]
    /\ Done(h)
    /\ UNCHANGED <<columns, keys, made, guessed, switched, past>>

-----------------------------------------------------------------------------
(* The guard                                                               *)

Arrive(h, u) ==
    /\ Free(h)
    /\ u \in signed
    /\ \E for \in Guarded, shown \in told.switch \cup {None} :
        /\ for # "switch.verify" => shown = None
        /\ Begin(h, [pc |-> "guard", user |-> u, for |-> for, shown |-> shown])
    /\ past' = past \ {h}
    /\ UNCHANGED <<columns, keys, made, signed, history>>

(* Mutant: a row is enough, deleted or not.                                *)
AnyRowPasses(u) == u \in Members

(* findUnique({ id, isDeleted: false })                                    *)
GuardPasses(u) == u \notin isDeleted

CanActivate(h) ==
    /\ At(h, "guard")
    /\ IF GuardPasses(req[h].user) THEN Step(h, req[h].for) ELSE Done(h)
    /\ UNCHANGED login

-----------------------------------------------------------------------------
(* sendTwoFACode and verifyTwoFA: one code switches either way.            *)

SendTwoFACode(h) ==
    /\ At(h, "switch.send")
    /\ Begin(h, [pc |-> "switch.store", user |-> req[h].user, code |-> None])
    /\ UNCHANGED login

StoreSwitchCode(h) ==
    /\ At(h, "switch.store")
    /\ \E c \in SwitchCodes :
        /\ IsNext(c, switchFor)
        /\ switchFor' = [switchFor EXCEPT ![c] = req[h].user]
        /\ switchOtp' = [switchOtp EXCEPT ![req[h].user] = [code |-> c, left |-> LoginLife]]
        /\ Begin(h, [req[h] EXCEPT !.pc = "switch.mail", !.code = c])
    /\ UNCHANGED <<columns, login2FA, madeFor, told, signed, history, past>>

MailSwitchCode(h) ==
    /\ At(h, "switch.mail")
    /\ \/ told' = [told EXCEPT !.switch = @ \cup {req[h].code}] /\ Done(h)
       \/ Fail(h) /\ UNCHANGED told
    /\ UNCHANGED <<columns, keys, madeFor, switchFor, signed, history, past>>

VerifyTwoFA(h) ==
    /\ At(h, "switch.verify")
    /\ Begin(h, [pc |-> "switch.get", user |-> req[h].user, shown |-> req[h].shown,
                 flag |-> req[h].user \in twoFactorEnabled])
    /\ UNCHANGED login

CompareSwitchCode(h) ==
    /\ At(h, "switch.get")
    /\ LET there == switchOtp[req[h].user]
       IN  IF there # None /\ there.code = req[h].shown
           THEN Step(h, "switch.used") ELSE Done(h)
    /\ UNCHANGED login

(* Mutant: the code stays until it expires.                                *)
KeepSwitchCode(h) ==
    /\ At(h, "switch.used")
    /\ Step(h, "switch.update")
    /\ UNCHANGED login

DeleteSwitchCode(h) ==
    /\ At(h, "switch.used")
    /\ switchOtp' = [switchOtp EXCEPT ![req[h].user] = None]
    /\ Step(h, "switch.update")
    /\ UNCHANGED <<columns, login2FA, made, signed, history, past>>

(* The opposite of what was read at first.                                 *)
UpdateTwoFactor(h) ==
    /\ At(h, "switch.update")
    /\ twoFactorEnabled' = IF req[h].flag THEN twoFactorEnabled \ {req[h].user}
                                          ELSE twoFactorEnabled \cup {req[h].user}
    /\ switched' = [switched EXCEPT ![req[h].shown] = @ + 1]
    /\ Done(h)
    /\ UNCHANGED <<isDeleted, keys, made, signed, guessed, opened, past>>

-----------------------------------------------------------------------------
(* deleteAccount; past remembers the handlers that were ahead of it.       *)
PastGuard(u) == {h \in Handlers : /\ ~Free(h)
                                  /\ req[h].user = u
                                  /\ req[h].pc # "guard"}

(* The same call of an administrator (user-management.service.ts), who     *)
(* looks the user up first.                                                *)
AdminDelete(h, u) ==
    /\ Free(h)
    /\ u \notin isDeleted
    /\ Begin(h, [pc |-> "delete", user |-> u, for |-> "delete", shown |-> None])
    /\ past' = past \ {h}
    /\ UNCHANGED <<columns, keys, made, signed, history>>

DeleteAccount(h) ==
    /\ At(h, "delete")
    /\ isDeleted' = isDeleted \cup {req[h].user}
    /\ past' = IF req[h].user \in isDeleted THEN past ELSE past \cup PastGuard(req[h].user)
    /\ Done(h)
    /\ UNCHANGED <<twoFactorEnabled, keys, made, signed, history>>

-----------------------------------------------------------------------------
LoginTick ==
    /\ login2FA' = Aged(login2FA)
    /\ switchOtp' = Aged(switchOtp)
    /\ UNCHANGED <<columns, made, signed, history, past>>
    /\ UNCHANGED backend

LoginHandler(h) ==
    \/ \E u \in Members : Login(h, u)
    \/ PasswordIsValid(h)
    \/ FindLoginCode(h)
    \/ StoreLoginCode(h)
    \/ MailLoginCode(h)
    \/ \E u \in Members : VerifyLogin2FA(h, u)
    \/ DropLoginCode(h)
    \/ CountWrongLogin(h)
    \/ DeleteLoginCode(h)
    \/ SignAfterCode(h)
    \/ \E u \in Members : Arrive(h, u)
    \/ CanActivate(h)
    \/ SendTwoFACode(h)
    \/ StoreSwitchCode(h)
    \/ MailSwitchCode(h)
    \/ VerifyTwoFA(h)
    \/ CompareSwitchCode(h)
    \/ DeleteSwitchCode(h)
    \/ UpdateTwoFactor(h)
    \/ \E u \in Members : AdminDelete(h, u)
    \/ DeleteAccount(h)

LoginNext ==
    \/ \E h \in Handlers : LoginHandler(h)
    \/ LoginTick
    \/ Restart /\ UNCHANGED login

-----------------------------------------------------------------------------
(* However wrong guesses overlap, a login code answers a bounded number.   *)
LoginGuessesBounded ==
    \A c \in LoginCodes : guessed[c] <= Answers[Cardinality(Handlers)][LoginAttempts]

(* A wrong guess that was read before the code was used brings it back, so *)
(* one code may open several sessions; never more than this.               *)
OpenedBounded ==
    \A c \in LoginCodes : opened[c] <= Uses[Cardinality(Handlers)][LoginAttempts]

(* A code switches once; verifications that overlap repeat it, each once.  *)
SwitchedBounded == \A c \in SwitchCodes : switched[c] <= Cardinality(Handlers)

(* A deleted account stays deleted, and nobody switches its second factor  *)
(* but requests that had passed the guard before: a token signed for it    *)
(* later does not get past.  (changePassword, behind no guard, asks nobody *)
(* whether the account is deleted.)                                        *)
DeletedKeepsTwoFactor ==
    [][\A u \in isDeleted, h \in Handlers :
        /\ u \in isDeleted'
        /\ (At(h, "switch.update") /\ req[h].user = u /\ switched' # switched) => h \in past]_login
=============================================================================

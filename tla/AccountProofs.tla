----------------------------- MODULE AccountProofs -----------------------------
(***************************************************************************)
(* What is proved about registration, logging in and forgotten passwords,  *)
(* each on its own.                                                        *)
(***************************************************************************)
EXTENDS Registration, Login, PasswordReset, BackendProofs

(* Registration.                                                           *)

RegistrationSpec ==
    BackendInit /\ RegistrationInit /\ [][RegistrationNext]_<<backend, registration>>

(* Where a code and a token come from.                                     *)
CodeIsFor(c, e) == c \in OtpCodes /\ otpFor[c] = e
TokenIsFor(t, e) == t \in OtpTokens /\ bought[t] \in mailed /\ otpFor[bought[t]] = e

(* A handler holds a code of its own address; one that will issue a token  *)
(* was shown a code that had been mailed; one that counts found the limit  *)
(* not reached; one that will create an account holds a token bought for   *)
(* its address.                                                            *)
RequestIsBacked(r) ==
    /\ r.pc \in {"otp.mail", "otp.drop", "otp.count", "otp.token", "otp.used"} =>
            CodeIsFor(r.code, r.email)
    /\ r.pc = "otp.token" => r.code \in mailed
    /\ r.pc = "otp.count" => r.attempts < OtpAttempts
    /\ r.pc \in {"acc.find", "acc.insert", "acc.token"} => TokenIsFor(r.token, r.email)

RequestsAreBacked == \A h \in Handlers : RequestIsBacked(req[h])
CodesAreFor == \A e \in Addresses : otp[e] # None => CodeIsFor(otp[e].code, e)
TokensAreFor == \A t \in OtpTokens : token[t] # None => TokenIsFor(t, token[t].email)

RegistrationInv ==
    /\ RegistrationTypeOK
    /\ RequestsAreBacked
    /\ CodesAreFor
    /\ TokensAreFor
    /\ AccountIsConfirmed

(* Codes and tokens are never made again, mails never unsent.              *)
RegistrationGrows ==
    /\ mailed \subseteq mailed'
    /\ \A c \in OtpCodes : otpFor[c] # None => otpFor'[c] = otpFor[c]
    /\ \A t \in OtpTokens : bought[t] # None => bought'[t] = bought[t]

LEMMA BackingIsKept ==
  ASSUME RegistrationTypeOK, RegistrationGrows, NEW e \in Addresses
  PROVE  /\ \A c : CodeIsFor(c, e) => c \in OtpCodes /\ otpFor'[c] = e
         /\ \A t : TokenIsFor(t, e) =>
                t \in OtpTokens /\ bought'[t] \in mailed' /\ otpFor'[bought'[t]] = e
         /\ \A t \in OtpTokens : (bought[t] # None /\ bought[t] \in mailed
                                   /\ otpFor[bought[t]] = e) => TokenIsFor(t, e)
  BY RegistrationNone DEF RegistrationTypeOK, RegistrationGrows, CodeIsFor, TokenIsFor

LEMMA RegistrationMove ==
  ASSUME RegistrationInv, RegistrationTypeOK', RegistrationGrows,
         \A k \in Handlers : req'[k] = req[k] \/ RequestIsBacked(req[k])',
         \A e \in Addresses : \/ otp'[e] = None
                              \/ otp[e] # None /\ otp'[e].code = otp[e].code
                              \/ CodeIsFor(otp[e].code, e)',
         \A t \in OtpTokens : \/ token'[t] = None
                              \/ token[t] # None /\ token'[t].email = token[t].email
                              \/ TokenIsFor(t, token[t].email)',
         \A e \in account' \ byAdmin' :
            \/ e \in account \ byAdmin
            \/ \E t \in OtpTokens : TokenIsFor(t, e)'
  PROVE  RegistrationInv'
<1>t. /\ RegistrationTypeOK /\ RequestsAreBacked /\ CodesAreFor /\ TokensAreFor
      /\ AccountIsConfirmed
  BY DEF RegistrationInv
<1>1. RequestsAreBacked'
  <2> SUFFICES ASSUME NEW k \in Handlers PROVE RequestIsBacked(req[k])'
    BY DEF RequestsAreBacked
  <2>1. CASE req'[k] = req[k]
    <3>1. RequestIsBacked(req[k]) BY <1>t DEF RequestsAreBacked
    <3>2. req[k] \in RegistrationRequest \/ req[k] = Idle BY <1>t DEF RegistrationTypeOK
    <3>3. req[k] = Idle \/ req[k].email \in Addresses BY <3>2 DEF RegistrationRequest
    <3>q. QED BY <2>1, <3>1, <3>3, <1>t, BackingIsKept
          DEF RequestIsBacked, CodeIsFor, TokenIsFor, Idle, RegistrationGrows
  <2>q. QED BY <2>1
<1>2. CodesAreFor'
  BY <1>t, BackingIsKept DEF CodesAreFor, CodeIsFor
<1>3. TokensAreFor'
  <2>1. \A t \in OtpTokens : token[t] # None => token[t].email \in Addresses
    BY <1>t DEF RegistrationTypeOK, VerifiedToken
  <2>q. QED BY <1>t, <2>1, BackingIsKept DEF TokensAreFor, TokenIsFor
<1>4. AccountIsConfirmed'
  <2> SUFFICES ASSUME NEW e \in account' \ byAdmin'
               PROVE  \E t \in OtpTokens : /\ bought'[t] # None
                                           /\ bought'[t] \in mailed'
                                           /\ otpFor'[bought'[t]] = e
    BY DEF AccountIsConfirmed
  <2>0. mailed' \subseteq OtpCodes /\ None \notin OtpCodes
    BY RegistrationNone DEF RegistrationTypeOK
  <2>1. CASE e \in account \ byAdmin
    <3>1. e \in Addresses BY <1>t, <2>1 DEF RegistrationTypeOK
    <3>2. PICK t \in OtpTokens : TokenIsFor(t, e)
      BY <1>t, <2>1, <3>1, BackingIsKept DEF AccountIsConfirmed
    <3>q. QED BY <2>0, <3>1, <3>2, <1>t, BackingIsKept
  <2>2. CASE \E t \in OtpTokens : TokenIsFor(t, e)'
    BY <2>0, <2>2 DEF TokenIsFor
  <2>q. QED BY <2>1, <2>2
<1>q. QED BY <1>1, <1>2, <1>3, <1>4 DEF RegistrationInv

LEMMA RegistrationStep ==
  ASSUME RegistrationInv, NEW h \in Handlers, RegistrationHandler(h)
  PROVE  RegistrationInv'
<1> USE DEF registration
<1>t. /\ RegistrationTypeOK /\ RequestsAreBacked /\ CodesAreFor /\ TokensAreFor
  BY DEF RegistrationInv
<1>r. /\ req \in [Handlers -> RegistrationRequest \cup {Idle}]
      /\ faults \in 0..MaxFaults
      /\ RequestIsBacked(req[h])
  BY <1>t DEF RegistrationTypeOK, RequestsAreBacked
(* The tables stay as they are; h arrives, goes on, answers or fails.      *)
<1>u. ASSUME UNCHANGED registration, \A k \in Handlers \ {h} : req'[k] = req[k],
             req' \in [Handlers -> RegistrationRequest \cup {Idle}],
             faults' \in 0..MaxFaults, RequestIsBacked(req[h])'
      PROVE  RegistrationInv'
  <2>1. RegistrationTypeOK' BY <1>u, <1>t DEF RegistrationTypeOK
  <2>2. RegistrationGrows BY <1>u DEF RegistrationGrows
  <2>q. QED BY <2>1, <2>2, <1>u, RegistrationMove
<1>a. ASSUME UNCHANGED registration, Done(h) PROVE RegistrationInv'
  <2>1. /\ req'[h] = Idle
        /\ \A k \in Handlers \ {h} : req'[k] = req[k]
        /\ req' \in [Handlers -> RegistrationRequest \cup {Idle}]
        /\ faults' = faults
    BY <1>a, <1>r, DoneChange
  <2>q. QED BY <1>a, <1>r, <1>u, <2>1 DEF RequestIsBacked, Idle
<1>1. ASSUME NEW e \in Addresses, SendRegistrationOtp(h, e) PROVE RegistrationInv'
  <2> DEFINE r == [pc |-> "otp.store", email |-> e, code |-> None]
  <2>1. r \in RegistrationRequest BY DEF RegistrationRequest
  <2>2. /\ req'[h] = r
        /\ \A k \in Handlers \ {h} : req'[k] = req[k]
        /\ req' \in [Handlers -> RegistrationRequest \cup {Idle}]
        /\ faults' = faults
    BY <1>1, <2>1, <1>r, BeginChange DEF SendRegistrationOtp
  <2>q. QED BY <1>1, <1>r, <1>u, <2>2 DEF SendRegistrationOtp, RequestIsBacked
<1>2. CASE StoreOtp(h)
  <2>1. req[h] \in RegistrationRequest /\ req[h].pc = "otp.store" /\ req[h].email \in Addresses
    BY <1>2, <1>r DEF StoreOtp, At, Idle, RegistrationRequest
  <2>2. PICK c \in OtpCodes :
            /\ otpFor[c] = None
            /\ otpFor' = [otpFor EXCEPT ![c] = req[h].email]
            /\ otp' = [otp EXCEPT ![req[h].email] =
                            [code |-> c, attempts |-> 0, left |-> OtpLife]]
            /\ Begin(h, [req[h] EXCEPT !.pc = "otp.mail", !.code = c])
    BY <1>2 DEF StoreOtp, IsNext
  <2> DEFINE r == [req[h] EXCEPT !.pc = "otp.mail", !.code = c]
             new == [code |-> c, attempts |-> 0, left |-> OtpLife]
  <2>3. r \in RegistrationRequest /\ r.pc = "otp.mail" /\ r.code = c /\ r.email = req[h].email
    BY <2>1 DEF RegistrationRequest
  <2>4. new \in Otp /\ new.code = c BY RegistrationAssumption DEF Otp
  <2>5. /\ req'[h] = r
        /\ \A k \in Handlers \ {h} : req'[k] = req[k]
        /\ req' \in [Handlers -> RegistrationRequest \cup {Idle}]
        /\ faults' = faults
    BY <2>2, <2>3, <1>r, BeginChange
  <2>6. UNCHANGED <<account, byAdmin, token, mailed, wrong, bought>> BY <1>2 DEF StoreOtp
  <2>7. otp' = [otp EXCEPT ![req[h].email] = new] BY <2>2
  <2> HIDE DEF r, new
  <2>8. RegistrationTypeOK'
    BY <1>t, <2>1, <2>2, <2>4, <2>5, <2>6, <2>7 DEF RegistrationTypeOK
  <2>9. RegistrationGrows BY <2>2, <2>6 DEF RegistrationGrows
  <2>10. otpFor'[c] = req[h].email BY <1>t, <2>2 DEF RegistrationTypeOK
  <2>11. RequestIsBacked(req[h])' BY <2>3, <2>5, <2>10 DEF RequestIsBacked, CodeIsFor
  <2>12. \A e \in Addresses : \/ otp'[e] = otp[e]
                              \/ CodeIsFor(otp[e].code, e)'
    BY <1>t, <2>1, <2>4, <2>7, <2>10 DEF RegistrationTypeOK, CodeIsFor
  <2>q. QED BY <2>5, <2>6, <2>8, <2>9, <2>11, <2>12, RegistrationMove
<1>3. CASE MailOtp(h)
  <2>1. req[h] \in RegistrationRequest /\ req[h].pc = "otp.mail" /\ req[h].code \in OtpCodes
    BY <1>3, <1>r DEF MailOtp, At, Idle, RequestIsBacked, CodeIsFor
  <2>2. /\ req'[h] = Idle
        /\ \A k \in Handlers \ {h} : req'[k] = req[k]
        /\ req' \in [Handlers -> RegistrationRequest \cup {Idle}]
        /\ faults' \in 0..MaxFaults
    BY <1>3, <1>r, DoneChange, FailChange DEF MailOtp
  <2>3. /\ mailed' = mailed \/ mailed' = mailed \cup {req[h].code}
        /\ UNCHANGED <<account, byAdmin, otp, token, otpFor, wrong, bought>>
    BY <1>3 DEF MailOtp
  <2>4. RegistrationTypeOK' BY <1>t, <2>1, <2>2, <2>3 DEF RegistrationTypeOK
  <2>5. RegistrationGrows BY <2>3 DEF RegistrationGrows
  <2>6. RequestIsBacked(req[h])' BY <2>2 DEF RequestIsBacked, Idle
  <2>q. QED BY <2>2, <2>3, <2>4, <2>5, <2>6, RegistrationMove
<1>4. ASSUME NEW e \in Addresses, VerifyRegistrationOtp(h, e) PROVE RegistrationInv'
  <2>1. PICK shown \in mailed \cup {None} :
          Begin(h, [pc |-> OtpVerdict(otp[e], shown), email |-> e,
                    code |-> otp[e].code, attempts |-> otp[e].attempts])
    BY <1>4 DEF VerifyRegistrationOtp
  <2> DEFINE r == [pc |-> OtpVerdict(otp[e], shown), email |-> e,
                   code |-> otp[e].code, attempts |-> otp[e].attempts]
  <2>2. otp[e] \in Otp /\ CodeIsFor(otp[e].code, e)
    BY <1>4, <1>t DEF VerifyRegistrationOtp, RegistrationTypeOK, CodesAreFor
  <2>3. /\ otp[e].code \in OtpCodes /\ otp[e].attempts \in 0..OtpAttempts
        /\ OtpAttempts \in Nat /\ otpFor[otp[e].code] = e
    BY <2>2, RegistrationAssumption DEF Otp, CodeIsFor
  <2>4. /\ r.pc \in {"otp.drop", "otp.count", "otp.token"}
        /\ r.pc = "otp.count" => otp[e].attempts < OtpAttempts
        /\ r.pc = "otp.token" => otp[e].code = shown
    BY <2>3 DEF OtpVerdict
  <2>5. r \in RegistrationRequest BY <2>3, <2>4 DEF RegistrationRequest
  <2>6. /\ req'[h] = r
        /\ \A k \in Handlers \ {h} : req'[k] = req[k]
        /\ req' \in [Handlers -> RegistrationRequest \cup {Idle}]
        /\ faults' = faults
    BY <2>1, <2>5, <1>r, BeginChange
  <2>7. r.email = e /\ r.code = otp[e].code /\ r.attempts = otp[e].attempts
        /\ UNCHANGED registration
    BY <1>4 DEF VerifyRegistrationOtp
  <2>8. None \notin OtpCodes BY RegistrationNone
  <2> HIDE DEF r
  <2>9. RequestIsBacked(req[h])'
    BY <2>3, <2>4, <2>6, <2>7, <2>8 DEF RequestIsBacked, CodeIsFor
  <2>q. QED BY <1>r, <1>u, <2>6, <2>7, <2>9
<1>5. CASE DropOtp(h) \/ DeleteUsedOtp(h)
  <2>1. /\ req'[h] = Idle
        /\ \A k \in Handlers \ {h} : req'[k] = req[k]
        /\ req' \in [Handlers -> RegistrationRequest \cup {Idle}]
        /\ faults' = faults
    BY <1>5, <1>r, DoneChange DEF DropOtp, DeleteUsedOtp
  <2>2. /\ otp' = [otp EXCEPT ![req[h].email] = None]
        /\ UNCHANGED <<account, byAdmin, token, otpFor, mailed, wrong, bought>>
    BY <1>5 DEF DropOtp, DeleteUsedOtp
  <2>3. RegistrationTypeOK' BY <1>t, <2>1, <2>2 DEF RegistrationTypeOK
  <2>4. RegistrationGrows BY <2>2 DEF RegistrationGrows
  <2>5. RequestIsBacked(req[h])' BY <2>1 DEF RequestIsBacked, Idle
  <2>6. \A e \in Addresses : otp'[e] = None \/ otp'[e] = otp[e]
    BY <1>t, <2>2 DEF RegistrationTypeOK
  <2>q. QED BY <2>1, <2>2, <2>3, <2>4, <2>5, <2>6, RegistrationMove
<1>6. CASE CountWrongOtp(h)
  <2>1. /\ req'[h] = Idle
        /\ \A k \in Handlers \ {h} : req'[k] = req[k]
        /\ req' \in [Handlers -> RegistrationRequest \cup {Idle}]
        /\ faults' = faults
    BY <1>6, <1>r, DoneChange DEF CountWrongOtp
  <2> DEFINE new == [code |-> req[h].code, attempts |-> req[h].attempts + 1,
                     left |-> OtpLife]
  <2>2. /\ otp' = [otp EXCEPT ![req[h].email] = new]
        /\ wrong' = [wrong EXCEPT ![req[h].code] = @ + 1]
        /\ UNCHANGED <<account, byAdmin, token, otpFor, mailed, bought>>
    BY <1>6 DEF CountWrongOtp
  <2>3. /\ req[h].pc = "otp.count" /\ CodeIsFor(req[h].code, req[h].email)
        /\ req[h].attempts < OtpAttempts /\ req[h] \in RegistrationRequest
    BY <1>6, <1>r DEF CountWrongOtp, At, RequestIsBacked, Idle
  <2>4. req[h].email \in Addresses /\ req[h].code \in OtpCodes
        /\ req[h].attempts \in 0..OtpAttempts
    BY <2>3 DEF RegistrationRequest
  <2>5. new \in Otp /\ new.code = req[h].code BY <2>3, <2>4, RegistrationAssumption DEF Otp
  <2> HIDE DEF new
  <2>6. RegistrationTypeOK' BY <1>t, <2>1, <2>2, <2>4, <2>5 DEF RegistrationTypeOK
  <2>7. RegistrationGrows BY <2>2 DEF RegistrationGrows
  <2>8. RequestIsBacked(req[h])' BY <2>1 DEF RequestIsBacked, Idle
  <2>9. \A e \in Addresses : otp'[e] = otp[e] \/ CodeIsFor(otp[e].code, e)'
    BY <1>t, <2>2, <2>3, <2>4, <2>5 DEF RegistrationTypeOK, CodeIsFor
  <2>q. QED BY <2>1, <2>2, <2>6, <2>7, <2>8, <2>9, RegistrationMove
<1>7. CASE IssueToken(h)
  <2>1. /\ req[h].pc = "otp.token" /\ CodeIsFor(req[h].code, req[h].email)
        /\ req[h].code \in mailed /\ req[h] \in RegistrationRequest
    BY <1>7, <1>r DEF IssueToken, At, RequestIsBacked, Idle
  <2>2. req[h].email \in Addresses /\ req[h].code \in OtpCodes
    BY <2>1 DEF RegistrationRequest
  <2>3. PICK t \in OtpTokens :
            /\ bought[t] = None
            /\ token' = [token EXCEPT ![t] = [email |-> req[h].email, left |-> TokenLife]]
            /\ bought' = [bought EXCEPT ![t] = req[h].code]
    BY <1>7 DEF IssueToken, IsNext
  <2> DEFINE new == [email |-> req[h].email, left |-> TokenLife]
             r == [req[h] EXCEPT !.pc = "otp.used"]
  <2>4. new \in VerifiedToken /\ new.email = req[h].email
    BY <2>2, RegistrationAssumption DEF VerifiedToken
  <2>5. /\ r \in RegistrationRequest /\ r.pc = "otp.used"
        /\ r.code = req[h].code /\ r.email = req[h].email
    BY <2>1 DEF RegistrationRequest
  <2>6. /\ req'[h] = r
        /\ \A k \in Handlers \ {h} : req'[k] = req[k]
        /\ req' \in [Handlers -> RegistrationRequest \cup {Idle}]
        /\ faults' = faults
    <3>1. Step(h, "otp.used") BY <1>7 DEF IssueToken
    <3> HIDE DEF r
    <3>q. QED BY <3>1, <2>5, <1>r, StepChange DEF r
  <2>7. /\ UNCHANGED <<account, byAdmin, otp, otpFor, mailed, wrong>>
        /\ token' = [token EXCEPT ![t] = new]
    BY <1>7, <2>3 DEF IssueToken
  <2> HIDE DEF new, r
  <2>8. RegistrationTypeOK'
    BY <1>t, <2>2, <2>3, <2>4, <2>6, <2>7 DEF RegistrationTypeOK
  <2>9. RegistrationGrows BY <2>3, <2>7 DEF RegistrationGrows
  <2>10. RequestIsBacked(req[h])' BY <2>1, <2>5, <2>6, <2>7 DEF RequestIsBacked, CodeIsFor
  <2>11. \A s \in OtpTokens : token'[s] = token[s] \/ TokenIsFor(s, token[s].email)'
    BY <1>t, <2>1, <2>2, <2>3, <2>4, <2>7 DEF RegistrationTypeOK, CodeIsFor, TokenIsFor
  <2>q. QED BY <2>6, <2>7, <2>8, <2>9, <2>10, <2>11, RegistrationMove
<1>8. ASSUME NEW e \in Addresses, NEW t \in OtpTokens, CompleteRegistration(h, e, t)
      PROVE  RegistrationInv'
  <2> DEFINE r == [pc |-> "acc.find", email |-> e, token |-> t]
  <2>1. r \in RegistrationRequest BY DEF RegistrationRequest
  <2>2. /\ req'[h] = r
        /\ \A k \in Handlers \ {h} : req'[k] = req[k]
        /\ req' \in [Handlers -> RegistrationRequest \cup {Idle}]
        /\ faults' = faults
    BY <1>8, <2>1, <1>r, BeginChange DEF CompleteRegistration
  <2>3. TokenIsFor(t, e) /\ UNCHANGED registration
    BY <1>8, <1>t DEF CompleteRegistration, TokenOpens, TokensAreFor
  <2>4. RequestIsBacked(req[h])' BY <2>2, <2>3 DEF RequestIsBacked, TokenIsFor
  <2>q. QED BY <1>r, <1>u, <2>2, <2>3, <2>4
<1>9. CASE FindAccount(h)
  <2> DEFINE r == [req[h] EXCEPT !.pc = "acc.insert"]
  <2>1. /\ UNCHANGED registration
        /\ Done(h) \/ Step(h, "acc.insert")
    BY <1>9 DEF FindAccount
  <2>2. /\ req[h].pc = "acc.find" /\ req[h] \in RegistrationRequest
        /\ TokenIsFor(req[h].token, req[h].email)
    BY <1>9, <1>r DEF FindAccount, At, Idle, RequestIsBacked
  <2>3. r \in RegistrationRequest /\ r.pc = "acc.insert" /\ r.token = req[h].token
        /\ r.email = req[h].email
    BY <2>2 DEF RegistrationRequest
  <2> HIDE DEF r
  <2>4. ASSUME Step(h, "acc.insert") PROVE RegistrationInv'
    <3>1. /\ req'[h] = r
          /\ \A k \in Handlers \ {h} : req'[k] = req[k]
          /\ req' \in [Handlers -> RegistrationRequest \cup {Idle}]
          /\ faults' = faults
      BY <2>4, <2>3, <1>r, StepChange DEF r
    <3>2. RequestIsBacked(req[h])' BY <2>1, <2>2, <2>3, <3>1 DEF RequestIsBacked, TokenIsFor
    <3>q. QED BY <1>r, <1>u, <2>1, <3>1, <3>2
  <2>q. QED BY <1>a, <2>1, <2>4
<1>10. CASE InsertAccount(h)
  <2>1. /\ req[h].pc = "acc.insert" /\ req[h] \in RegistrationRequest
        /\ TokenIsFor(req[h].token, req[h].email)
    BY <1>10, <1>r DEF InsertAccount, At, Idle, RequestIsBacked
  <2>2. CASE req[h].email \in account BY <1>10, <1>a, <2>2 DEF InsertAccount
  <2>3. CASE req[h].email \notin account
    <3> DEFINE r == [req[h] EXCEPT !.pc = "acc.token"]
    <3>1. r \in RegistrationRequest /\ r.pc = "acc.token" /\ r.token = req[h].token
          /\ r.email = req[h].email /\ req[h].email \in Addresses
      BY <2>1 DEF RegistrationRequest
    <3>2. /\ req'[h] = r
          /\ \A k \in Handlers \ {h} : req'[k] = req[k]
          /\ req' \in [Handlers -> RegistrationRequest \cup {Idle}]
          /\ faults' = faults
      BY <1>10, <2>3, <3>1, <1>r, StepChange DEF InsertAccount
    <3>3. /\ account' = account \cup {req[h].email}
          /\ UNCHANGED <<byAdmin, otp, token, otpFor, mailed, wrong, bought>>
      BY <1>10, <2>3 DEF InsertAccount
    <3> HIDE DEF r
    <3>4. RegistrationTypeOK' BY <1>t, <3>1, <3>2, <3>3 DEF RegistrationTypeOK
    <3>5. RegistrationGrows BY <3>3 DEF RegistrationGrows
    <3>6. RequestIsBacked(req[h])' BY <2>1, <3>1, <3>2, <3>3 DEF RequestIsBacked, TokenIsFor
    <3>7. \A e \in account' \ byAdmin' :
            e \in account \ byAdmin \/ \E t \in OtpTokens : TokenIsFor(t, e)'
      BY <2>1, <3>3 DEF TokenIsFor
    <3>q. QED BY <3>2, <3>3, <3>4, <3>5, <3>6, <3>7, RegistrationMove
  <2>q. QED BY <2>2, <2>3
<1>11. CASE DeleteToken(h)
  <2>1. /\ req'[h] = Idle
        /\ \A k \in Handlers \ {h} : req'[k] = req[k]
        /\ req' \in [Handlers -> RegistrationRequest \cup {Idle}]
        /\ faults' = faults
    BY <1>11, <1>r, DoneChange DEF DeleteToken
  <2>2. /\ token' = [token EXCEPT ![req[h].token] = None]
        /\ UNCHANGED <<account, byAdmin, otp, otpFor, mailed, wrong, bought>>
    BY <1>11 DEF DeleteToken
  <2>3. RegistrationTypeOK' BY <1>t, <2>1, <2>2 DEF RegistrationTypeOK
  <2>4. RegistrationGrows BY <2>2 DEF RegistrationGrows
  <2>5. RequestIsBacked(req[h])' BY <2>1 DEF RequestIsBacked, Idle
  <2>6. \A t \in OtpTokens : token'[t] = None \/ token'[t] = token[t]
    BY <1>t, <2>2 DEF RegistrationTypeOK
  <2>q. QED BY <2>1, <2>2, <2>3, <2>4, <2>5, <2>6, RegistrationMove
<1>12. ASSUME NEW e \in Addresses, CreateUser(h, e) PROVE RegistrationInv'
  <2> DEFINE r == [pc |-> "admin.insert", email |-> e]
  <2>1. r \in RegistrationRequest BY DEF RegistrationRequest
  <2>2. /\ req'[h] = r
        /\ \A k \in Handlers \ {h} : req'[k] = req[k]
        /\ req' \in [Handlers -> RegistrationRequest \cup {Idle}]
        /\ faults' = faults
    BY <1>12, <2>1, <1>r, BeginChange DEF CreateUser
  <2>q. QED BY <1>12, <1>r, <1>u, <2>2 DEF CreateUser, RequestIsBacked
<1>13. CASE InsertUser(h)
  <2>1. req[h].pc = "admin.insert" /\ req[h] \in RegistrationRequest
    BY <1>13, <1>r DEF InsertUser, At, Idle
  <2>2. CASE req[h].email \in account BY <1>13, <1>a, <2>2 DEF InsertUser
  <2>3. CASE req[h].email \notin account
    <3> DEFINE r == [req[h] EXCEPT !.pc = "admin.mail"]
    <3>1. r \in RegistrationRequest /\ r.pc = "admin.mail" /\ req[h].email \in Addresses
      BY <2>1 DEF RegistrationRequest
    <3>2. /\ req'[h] = r
          /\ \A k \in Handlers \ {h} : req'[k] = req[k]
          /\ req' \in [Handlers -> RegistrationRequest \cup {Idle}]
          /\ faults' = faults
      BY <1>13, <2>3, <3>1, <1>r, StepChange DEF InsertUser
    <3>3. /\ account' = account \cup {req[h].email}
          /\ byAdmin' = byAdmin \cup {req[h].email}
          /\ UNCHANGED <<otp, token, otpFor, mailed, wrong, bought>>
      BY <1>13, <2>3 DEF InsertUser
    <3> HIDE DEF r
    <3>4. RegistrationTypeOK' BY <1>t, <3>1, <3>2, <3>3 DEF RegistrationTypeOK
    <3>5. RegistrationGrows BY <3>3 DEF RegistrationGrows
    <3>6. RequestIsBacked(req[h])' BY <3>1, <3>2 DEF RequestIsBacked
    <3>q. QED BY <3>2, <3>3, <3>4, <3>5, <3>6, RegistrationMove
  <2>q. QED BY <2>2, <2>3
<1>14. CASE MailPassword(h)
  <2>1. /\ req'[h] = Idle
        /\ \A k \in Handlers \ {h} : req'[k] = req[k]
        /\ req' \in [Handlers -> RegistrationRequest \cup {Idle}]
        /\ faults' \in 0..MaxFaults
    BY <1>14, <1>r, DoneChange, FailChange DEF MailPassword
  <2>q. QED BY <1>14, <1>u, <2>1 DEF MailPassword, RequestIsBacked, Idle
<1>q. QED BY <1>1, <1>2, <1>3, <1>4, <1>5, <1>6, <1>7, <1>8, <1>9, <1>10, <1>11, <1>12,
             <1>13, <1>14 DEF RegistrationHandler

LEMMA RegistrationInvariance == RegistrationSpec => []RegistrationInv
<1>1. BackendInit /\ RegistrationInit => RegistrationInv
  <2> SUFFICES ASSUME BackendInit, RegistrationInit PROVE RegistrationInv
    OBVIOUS
  <2>1. /\ req \in [Handlers -> RegistrationRequest \cup {Idle}]
        /\ \A k \in Handlers : req[k] = Idle
        /\ faults = 0 /\ faults \in 0..MaxFaults
    BY InitialRequests
  <2>q. QED BY <2>1
        DEF RegistrationInit, RegistrationInv, RegistrationTypeOK, RequestsAreBacked,
            RequestIsBacked, CodesAreFor, TokensAreFor, AccountIsConfirmed, Idle
<1>2. RegistrationInv /\ [RegistrationNext]_<<backend, registration>> => RegistrationInv'
  <2>1. ASSUME RegistrationInv, UNCHANGED <<backend, registration>> PROVE RegistrationInv'
    BY <2>1
       DEF backend, registration, RegistrationInv, RegistrationTypeOK, RequestsAreBacked,
           RequestIsBacked, CodesAreFor, TokensAreFor, CodeIsFor, TokenIsFor,
           AccountIsConfirmed
  <2>2. ASSUME RegistrationInv, Restart, UNCHANGED registration PROVE RegistrationInv'
    <3>t. RegistrationTypeOK BY <2>2 DEF RegistrationInv
    <3>1. /\ \A k \in Handlers : req'[k] = Idle
          /\ req' \in [Handlers -> RegistrationRequest \cup {Idle}]
          /\ faults' \in 0..MaxFaults
      BY <2>2, <3>t, RestartChange DEF RegistrationTypeOK
    <3>2. RegistrationTypeOK' BY <2>2, <3>t, <3>1 DEF registration, RegistrationTypeOK
    <3>3. RegistrationGrows BY <2>2 DEF registration, RegistrationGrows
    <3>4. \A k \in Handlers : RequestIsBacked(req[k])' BY <3>1 DEF RequestIsBacked, Idle
    <3>q. QED BY <2>2, <3>2, <3>3, <3>4, RegistrationMove DEF registration
  <2>3. ASSUME RegistrationInv, RegistrationTick PROVE RegistrationInv'
    <3>t. RegistrationTypeOK BY <2>3 DEF RegistrationInv
    <3>u. /\ UNCHANGED <<account, byAdmin, otpFor, mailed, wrong, bought>>
          /\ UNCHANGED <<req, faults>> /\ otp' = Aged(otp) /\ token' = Aged(token)
      BY <2>3 DEF RegistrationTick, backend
    <3>1. /\ DOMAIN otp = Addresses /\ DOMAIN token = OtpTokens
      BY <3>t DEF RegistrationTypeOK
    <3>2. /\ otp' = [e \in Addresses |-> otp'[e]]
          /\ \A e \in Addresses : \/ otp'[e] = None
                                  \/ /\ otp[e] # None /\ otp[e].left # 1
                                     /\ otp'[e] = [otp[e] EXCEPT !.left = otp[e].left - 1]
      BY <3>u, <3>1, AgedKeys
    <3>3. /\ token' = [t \in OtpTokens |-> token'[t]]
          /\ \A t \in OtpTokens : \/ token'[t] = None
                                  \/ /\ token[t] # None /\ token[t].left # 1
                                     /\ token'[t] = [token[t] EXCEPT !.left = token[t].left - 1]
      BY <3>u, <3>1, AgedKeys
    <3>4. \A e \in Addresses :
            otp'[e] # None => otp'[e] \in Otp /\ otp[e] # None /\ otp'[e].code = otp[e].code
      <4> SUFFICES ASSUME NEW e \in Addresses, otp'[e] # None
                   PROVE  otp'[e] \in Otp /\ otp[e] # None /\ otp'[e].code = otp[e].code
        OBVIOUS
      <4>1. otp[e] \in Otp /\ otp[e].left # 1
            /\ otp'[e] = [otp[e] EXCEPT !.left = otp[e].left - 1]
        BY <3>2, <3>t DEF RegistrationTypeOK
      <4>q. QED BY <4>1, RegistrationAssumption, <3>2 DEF Otp
    <3>5. \A t \in OtpTokens :
            token'[t] # None => /\ token'[t] \in VerifiedToken
                                /\ token[t] # None /\ token'[t].email = token[t].email
      <4> SUFFICES ASSUME NEW t \in OtpTokens, token'[t] # None
                   PROVE  /\ token'[t] \in VerifiedToken
                          /\ token[t] # None /\ token'[t].email = token[t].email
        OBVIOUS
      <4>1. token[t] \in VerifiedToken /\ token[t].left # 1
            /\ token'[t] = [token[t] EXCEPT !.left = token[t].left - 1]
        BY <3>3, <3>t DEF RegistrationTypeOK
      <4>q. QED BY <4>1, RegistrationAssumption, <3>3 DEF VerifiedToken
    <3>6. otp' \in [Addresses -> Otp \cup {None}] BY <3>2, <3>4
    <3>7. token' \in [OtpTokens -> VerifiedToken \cup {None}] BY <3>3, <3>5
    <3>8. RegistrationTypeOK' BY <3>t, <3>u, <3>6, <3>7 DEF RegistrationTypeOK
    <3>9. RegistrationGrows BY <3>u DEF RegistrationGrows
    <3>q. QED BY <2>3, <3>u, <3>4, <3>5, <3>8, <3>9, RegistrationMove
  <2>q. QED BY <2>1, <2>2, <2>3, RegistrationStep DEF RegistrationNext
<1>q. QED BY <1>1, <1>2, PTL DEF RegistrationSpec

(* Whoever has an account that no administrator created was mailed a code  *)
(* at its address and entered it.                                          *)
THEOREM AccountsAreConfirmed == RegistrationSpec => []AccountIsConfirmed
<1>1. RegistrationInv => AccountIsConfirmed BY DEF RegistrationInv
<1>q. QED BY <1>1, RegistrationInvariance, PTL

-----------------------------------------------------------------------------
(* How many wrong guesses a code of registration answers.  A key allows,   *)
(* and a handler holds, guesses at c with more than t attempts left.       *)
OtpAllows(k, c, t) == k # None /\ k.code = c /\ k.attempts + t < OtpAttempts
OtpHeld(r, c, t) == r.pc = "otp.count" /\ r.code = c /\ r.attempts + t < OtpAttempts

(* The handlers that have no guess at c with more than t attempts left.    *)
OtpSpent == [c \in OtpCodes |-> [t \in Nat |->
    {h \in Handlers : /\ ~OtpHeld(req[h], c, t)
                      /\ \A e \in Addresses : ~OtpAllows(otp[e], c, t)}]]

GuessesAreCounted ==
    \A c \in OtpCodes : /\ Ladder(Answers, OtpSpent[c], wrong[c], OtpAttempts)
                        /\ otpFor[c] = None => wrong[c] = 0

(* A handler that was spent stays so, if no key and no handler comes to    *)
(* allow more guesses at c.                                                *)
LEMMA GuessesQuiet ==
  ASSUME RegistrationInv, RegistrationInv', GuessesAreCounted, wrong' = wrong,
         \A c \in OtpCodes : otpFor'[c] = None => otpFor[c] = None,
         \A e \in Addresses :
            \/ otp'[e] = None
            \/ /\ otp[e] # None
               /\ otp'[e].code = otp[e].code /\ otp'[e].attempts = otp[e].attempts
            \/ otpFor[otp'[e].code] = None,
         \A k \in Handlers :
            \/ req'[k] = req[k]
            \/ req'[k].pc # "otp.count"
            \/ \E e \in Addresses : /\ otp[e] # None
                                    /\ req'[k].code = otp[e].code
                                    /\ req'[k].attempts = otp[e].attempts
  PROVE  GuessesAreCounted'
<1>1. One \in [Nat -> Nat] /\ OtpAttempts \in Nat BY RegistrationAssumption DEF One
<1>2. wrong \in [OtpCodes -> Nat] BY DEF RegistrationInv, RegistrationTypeOK
<1> SUFFICES ASSUME NEW c \in OtpCodes
             PROVE  /\ Ladder(Answers, OtpSpent'[c], wrong[c], OtpAttempts)
                    /\ otpFor'[c] = None => wrong[c] = 0
  BY DEF GuessesAreCounted
<1>3. /\ Ladder(Answers, OtpSpent[c], wrong[c], OtpAttempts)
      /\ otpFor[c] = None => wrong[c] = 0
  BY DEF GuessesAreCounted
<1>4. /\ OtpSpent[c] \in [Nat -> SUBSET Handlers]
      /\ OtpSpent'[c] \in [Nat -> SUBSET Handlers]
  BY DEF OtpSpent
<1>5. CASE otpFor[c] = None
  BY <1>1, <1>3, <1>4, <1>5, AnswersIsTable, LadderStarts
<1>6. CASE otpFor[c] # None
  <2>1. ASSUME NEW t \in Nat, NEW h \in OtpSpent[c][t] PROVE h \in OtpSpent'[c][t]
    <3>1. /\ h \in Handlers /\ ~OtpHeld(req[h], c, t)
          /\ \A e \in Addresses : ~OtpAllows(otp[e], c, t)
      BY <2>1 DEF OtpSpent
    <3>2. ASSUME NEW e \in Addresses PROVE ~OtpAllows(otp'[e], c, t)
      BY <1>6, <3>1 DEF OtpAllows
    <3>3. ~OtpHeld(req'[h], c, t)
      <4>1. CASE req'[h] = req[h] BY <3>1, <4>1
      <4>2. CASE req'[h].pc # "otp.count" BY <4>2 DEF OtpHeld
      <4>3. ASSUME NEW e \in Addresses, otp[e] # None, req'[h].code = otp[e].code,
                   req'[h].attempts = otp[e].attempts
            PROVE  ~OtpHeld(req'[h], c, t)
        BY <3>1, <4>3 DEF OtpAllows, OtpHeld
      <4>q. QED BY <3>1, <4>1, <4>2, <4>3
    <3>q. QED BY <3>1, <3>2, <3>3 DEF OtpSpent
  <2>2. \A t \in Nat : OtpSpent[c][t] \subseteq OtpSpent'[c][t] BY <2>1
  <2>3. wrong[c] \in Nat /\ wrong[c] <= wrong[c] BY <1>2
  <2>4. Ladder(Answers, OtpSpent'[c], wrong[c], OtpAttempts)
    <3> HIDE DEF OtpSpent
    <3> DEFINE B == OtpSpent[c]
               C == OtpSpent'[c]
    <3>1. /\ B \in [Nat -> SUBSET Handlers] /\ C \in [Nat -> SUBSET Handlers]
          /\ Ladder(Answers, B, wrong[c], OtpAttempts)
          /\ \A t \in Nat : B[t] \subseteq C[t]
      BY <1>3, <1>4, <2>2
    <3> HIDE DEF B, C
    <3>2. Ladder(Answers, C, wrong[c], OtpAttempts)
      BY <1>1, <2>3, <3>1, AnswersIsTable, LadderStays
    <3>q. QED BY <3>2 DEF C
  <2>q. QED BY <1>3, <2>4
<1>q. QED BY <1>5, <1>6

LEMMA GuessCounted ==
  ASSUME RegistrationInv, RegistrationInv', GuessesAreCounted,
         NEW h \in Handlers, CountWrongOtp(h)
  PROVE  GuessesAreCounted'
<1>t. /\ RegistrationTypeOK /\ RequestsAreBacked /\ CodesAreFor /\ RegistrationTypeOK'
      /\ CodesAreFor'
  BY DEF RegistrationInv
<1>a. One \in [Nat -> Nat] /\ OtpAttempts \in Nat BY RegistrationAssumption DEF One
<1>1. /\ req'[h] = Idle
      /\ \A k \in Handlers \ {h} : req'[k] = req[k]
  BY <1>t, DoneChange DEF CountWrongOtp, RegistrationTypeOK
<1>2. /\ req[h].pc = "otp.count" /\ CodeIsFor(req[h].code, req[h].email)
      /\ req[h].attempts < OtpAttempts /\ req[h] \in RegistrationRequest
  BY <1>t DEF CountWrongOtp, At, RequestIsBacked, RequestsAreBacked, Idle, RegistrationTypeOK
<1> DEFINE g == req[h].code
           a == req[h].attempts
           new == [code |-> g, attempts |-> a + 1, left |-> OtpLife]
           u == req[h].email
<1>3. u \in Addresses /\ g \in OtpCodes /\ a \in 0..OtpAttempts /\ a < OtpAttempts
  BY <1>2 DEF RegistrationRequest
<1>4. /\ otp' = [otp EXCEPT ![u] = new]
      /\ wrong' = [wrong EXCEPT ![g] = @ + 1]
      /\ otpFor' = otpFor
  BY DEF CountWrongOtp
<1>5. new.code = g /\ new.attempts = a + 1 /\ new # None
  <2>1. otp'[u] = new BY <1>3, <1>4, <1>t DEF RegistrationTypeOK
  <2>2. new \in Otp BY <1>3, RegistrationAssumption DEF Otp
  <2>q. QED BY <2>2, RegistrationNone
<1>6. otpFor[g] = u BY <1>2 DEF CodeIsFor
<1>7. req[h].pc = "otp.count" /\ req[h].code = g /\ req[h].attempts = a BY <1>2
<1> HIDE DEF g, a, new, u
<1>8. \A e \in Addresses : otp'[e] = IF e = u THEN new ELSE otp[e]
  BY <1>3, <1>4, <1>t DEF RegistrationTypeOK
<1>9. wrong \in [OtpCodes -> Nat] /\ \A c \in OtpCodes : wrong'[c] = IF c = g THEN wrong[g] + 1
                                                                   ELSE wrong[c]
  BY <1>3, <1>4, <1>t DEF RegistrationTypeOK
<1> SUFFICES ASSUME NEW c \in OtpCodes
             PROVE  /\ Ladder(Answers, OtpSpent'[c], wrong'[c], OtpAttempts)
                    /\ otpFor'[c] = None => wrong'[c] = 0
  BY DEF GuessesAreCounted
<1>10. /\ Ladder(Answers, OtpSpent[c], wrong[c], OtpAttempts)
       /\ otpFor[c] = None => wrong[c] = 0
  BY DEF GuessesAreCounted
<1> DEFINE B == OtpSpent[c]
           C == OtpSpent'[c]
<1>11. B \in [Nat -> SUBSET Handlers] /\ C \in [Nat -> SUBSET Handlers] BY DEF OtpSpent
(* Who belongs to B[t] and to C[t].                                        *)
<1>12. ASSUME NEW t \in Nat, NEW k \in Handlers
       PROVE  /\ k \in B[t] <=> /\ ~OtpHeld(req[k], c, t)
                                /\ \A e \in Addresses : ~OtpAllows(otp[e], c, t)
              /\ k \in C[t] <=> /\ ~OtpHeld(req'[k], c, t)
                                /\ \A e \in Addresses : ~OtpAllows(otp'[e], c, t)
  BY DEF OtpSpent
<1>13. \A k \in Handlers, t \in Nat : OtpHeld(req'[k], c, t) => k # h /\ OtpHeld(req[k], c, t)
  BY <1>1 DEF OtpHeld, Idle
<1>14. wrong[c] \in Nat BY <1>9
<1>15. Ladder(Answers, B, wrong[c], OtpAttempts) BY <1>10
<1> HIDE DEF B, C
<1>16. CASE c # g
  <2>1. \A t \in Nat : B[t] \subseteq C[t]
    <3> SUFFICES ASSUME NEW t \in Nat, NEW k \in B[t] PROVE k \in C[t] OBVIOUS
    <3>1. k \in Handlers BY <1>11
    <3>2. ~OtpHeld(req'[k], c, t) BY <1>12, <1>13, <3>1
    <3>3. \A e \in Addresses : ~OtpAllows(otp'[e], c, t)
      BY <1>5, <1>8, <1>12, <1>16, <3>1 DEF OtpAllows
    <3>q. QED BY <1>12, <3>1, <3>2, <3>3
  <2>2. wrong'[c] = wrong[c] /\ wrong[c] <= wrong[c] BY <1>9, <1>14, <1>16
  <2>3. Ladder(Answers, C, wrong[c], OtpAttempts)
    BY <1>a, <1>11, <1>14, <1>15, <2>1, <2>2, AnswersIsTable, LadderStays
  <2>q. QED BY <1>4, <1>10, <2>2, <2>3 DEF C
<1>17. CASE c = g
  <2> DEFINE d == OtpAttempts - a
  <2>d. d \in 1..OtpAttempts /\ d - 1 \in Nat /\ a + (d - 1) < OtpAttempts
    BY <1>3, <1>a
  <2>n. \A t \in Nat : /\ t >= d - 1 => ~(a + 1 + t < OtpAttempts)
                       /\ t < d - 1 => a + 1 + t < OtpAttempts
                       /\ t >= d => ~(a + t < OtpAttempts)
    BY <1>3, <1>a
  <2> HIDE DEF d
  (* Only the address of g has it in its key.                              *)
  <2>1. ASSUME NEW e \in Addresses, NEW t \in Nat, e # u PROVE ~OtpAllows(otp'[e], c, t)
    <3>1. otp'[e] = otp[e] BY <1>8, <2>1
    <3>2. otp[e] # None => otpFor[otp[e].code] = e BY <1>t DEF CodesAreFor, CodeIsFor
    <3>q. QED BY <1>6, <1>17, <2>1, <3>1, <3>2 DEF OtpAllows
  <2>2. ASSUME NEW e \in Addresses, NEW t \in Nat, t >= d - 1
        PROVE  ~OtpAllows(otp'[e], c, t)
    <3>1. CASE e # u BY <2>1, <3>1
    <3>2. CASE e = u BY <1>5, <1>8, <2>2, <2>n, <3>2 DEF OtpAllows
    <3>q. QED BY <3>1, <3>2
  <2>3. h \notin B[d - 1]
    <3>1. OtpHeld(req[h], c, d - 1) BY <1>7, <1>17, <2>d DEF OtpHeld
    <3>q. QED BY <1>12, <2>d, <3>1
  <2>4. \A t \in Nat : t < d - 1 => B[t] \subseteq B[d - 1]
    <3> SUFFICES ASSUME NEW t \in Nat, t < d - 1, NEW k \in B[t] PROVE k \in B[d - 1]
      OBVIOUS
    <3>1. k \in Handlers BY <1>11
    <3>2. \A n \in Nat : n + (d - 1) < OtpAttempts => n + t < OtpAttempts BY <1>a, <2>d
    <3>3. ~OtpHeld(req[k], c, d - 1)
      <4>1. OtpHeld(req[k], c, d - 1) => req[k].attempts \in Nat
        <5>1. req[k].pc = "otp.count" => req[k].attempts \in 0..OtpAttempts
          BY <1>t, <3>1 DEF RegistrationTypeOK, RegistrationRequest, Idle
        <5>q. QED BY <5>1 DEF OtpHeld
      <4>2. ~OtpHeld(req[k], c, t) BY <1>12, <3>1
      <4>q. QED BY <3>2, <4>1, <4>2 DEF OtpHeld
    <3>4. ASSUME NEW e \in Addresses PROVE ~OtpAllows(otp[e], c, d - 1)
      <4>1. otp[e] # None => otp[e].attempts \in Nat
        BY <1>t DEF RegistrationTypeOK, Otp
      <4>2. ~OtpAllows(otp[e], c, t) BY <1>12, <3>1
      <4>q. QED BY <3>2, <4>1, <4>2 DEF OtpAllows
    <3>q. QED BY <1>12, <2>d, <3>1, <3>3, <3>4
  <2>5. B[d - 1] \cup {h} \subseteq C[d - 1]
    <3> SUFFICES ASSUME NEW k \in B[d - 1] \cup {h} PROVE k \in C[d - 1] OBVIOUS
    <3>1. k \in Handlers BY <1>11, <2>d
    <3>2. ~OtpHeld(req'[k], c, d - 1)
      <4>1. k = h \/ ~OtpHeld(req[k], c, d - 1) BY <1>12, <2>d, <3>1
      <4>q. QED BY <1>13, <2>d, <3>1, <4>1
    <3>3. \A e \in Addresses : ~OtpAllows(otp'[e], c, d - 1)
      <4>1. d - 1 >= d - 1 BY <2>d
      <4>q. QED BY <2>2, <2>d, <4>1
    <3>q. QED BY <1>12, <2>d, <3>1, <3>2, <3>3
  <2>6. \A t \in Nat : t >= d => B[t] \subseteq C[t]
    <3> SUFFICES ASSUME NEW t \in Nat, t >= d, NEW k \in B[t] PROVE k \in C[t] OBVIOUS
    <3>1. k \in Handlers BY <1>11
    <3>2. ~OtpHeld(req'[k], c, t) BY <1>12, <1>13, <3>1
    <3>3. t >= d - 1 BY <2>d
    <3>q. QED BY <1>12, <2>2, <3>1, <3>2, <3>3
  <2>7. 1 \in Nat /\ 1 <= One[d - 1] BY <2>d DEF One
  <2>8. Ladder(Answers, C, wrong[c] + 1, OtpAttempts)
    BY <1>a, <1>11, <1>14, <1>15, <2>d, <2>3, <2>4, <2>5, <2>6, <2>7, AnswersIsTable,
       LadderClimbs
  <2>9. wrong'[c] = wrong[c] + 1 BY <1>9, <1>17
  <2>10. otpFor'[c] # None
    BY <1>3, <1>4, <1>6, <1>17, RegistrationNone
  <2>q. QED BY <2>8, <2>9, <2>10 DEF C
<1>q. QED BY <1>16, <1>17

(* Of the handlers' calls only the counting of a wrong guess is not quiet. *)
LEMMA GuessStep ==
  ASSUME RegistrationInv, RegistrationInv', GuessesAreCounted,
         NEW h \in Handlers, RegistrationHandler(h)
  PROVE  GuessesAreCounted'
<1> USE DEF registration
<1>t. RegistrationTypeOK /\ RegistrationTypeOK' BY DEF RegistrationInv
<1>r. req \in [Handlers -> RegistrationRequest \cup {Idle}] BY <1>t DEF RegistrationTypeOK
(* What becomes of h when it answers, fails or goes on.                    *)
<1>d. ASSUME Done(h) \/ Fail(h)
      PROVE  \A k \in Handlers : req'[k] = req[k] \/ req'[k].pc # "otp.count"
  BY <1>d, <1>r DEF Done, Fail, Idle
<1>s. ASSUME NEW pc, Step(h, pc), pc # "otp.count", req[h] \in RegistrationRequest
      PROVE  \A k \in Handlers : req'[k] = req[k] \/ req'[k].pc # "otp.count"
  <2> DEFINE r == [req[h] EXCEPT !.pc = pc]
  <2>1. r.pc = pc BY <1>s DEF RegistrationRequest
  <2>2. req' = [req EXCEPT ![h] = r] BY <1>s DEF Step
  <2> HIDE DEF r
  <2>q. QED BY <1>r, <1>s, <2>1, <2>2
<1>b. ASSUME NEW r, Begin(h, r), r.pc # "otp.count"
      PROVE  \A k \in Handlers : req'[k] = req[k] \/ req'[k].pc # "otp.count"
  BY <1>b, <1>r DEF Begin
(* Keys and guesses stay, and nobody comes to count.                       *)
<1>u. ASSUME UNCHANGED <<otp, wrong, otpFor>>,
             \A k \in Handlers : req'[k] = req[k] \/ req'[k].pc # "otp.count"
      PROVE  GuessesAreCounted'
  BY <1>u, GuessesQuiet
<1>1. ASSUME NEW e \in Addresses, SendRegistrationOtp(h, e) PROVE GuessesAreCounted'
  <2> DEFINE r == [pc |-> "otp.store", email |-> e, code |-> None]
  <2>1. Begin(h, r) /\ r.pc # "otp.count" BY <1>1 DEF SendRegistrationOtp
  <2> HIDE DEF r
  <2>q. QED BY <1>1, <1>u, <1>b, <2>1 DEF SendRegistrationOtp
<1>2. CASE StoreOtp(h)
  <2>1. req[h] \in RegistrationRequest /\ req[h].email \in Addresses
    BY <1>2, <1>r DEF StoreOtp, At, Idle, RegistrationRequest
  <2>2. PICK c \in OtpCodes :
            /\ otpFor[c] = None
            /\ otpFor' = [otpFor EXCEPT ![c] = req[h].email]
            /\ otp' = [otp EXCEPT ![req[h].email] =
                            [code |-> c, attempts |-> 0, left |-> OtpLife]]
            /\ Begin(h, [req[h] EXCEPT !.pc = "otp.mail", !.code = c])
    BY <1>2 DEF StoreOtp, IsNext
  <2> DEFINE r == [req[h] EXCEPT !.pc = "otp.mail", !.code = c]
             new == [code |-> c, attempts |-> 0, left |-> OtpLife]
  <2>3. r.pc # "otp.count" BY <2>1 DEF RegistrationRequest
  <2>4. Begin(h, r) BY <2>2
  <2>5. otp' = [otp EXCEPT ![req[h].email] = new] /\ new.code = c BY <2>2
  <2> HIDE DEF r, new
  <2>6. \A k \in Handlers : req'[k] = req[k] \/ req'[k].pc # "otp.count" BY <2>3, <2>4, <1>b
  <2>7. \A e \in Addresses : otp'[e] = otp[e] \/ otpFor[otp'[e].code] = None
    BY <1>t, <2>1, <2>2, <2>5 DEF RegistrationTypeOK
  <2>8. \A d \in OtpCodes : otpFor'[d] = None => otpFor[d] = None
    BY <1>t, <2>1, <2>2, RegistrationNone DEF RegistrationTypeOK
  <2>9. wrong' = wrong BY <1>2 DEF StoreOtp
  <2>10. \A e \in Addresses : \/ otp'[e] = None
                              \/ /\ otp[e] # None
                                 /\ otp'[e].code = otp[e].code
                                 /\ otp'[e].attempts = otp[e].attempts
                              \/ otpFor[otp'[e].code] = None
    BY <2>7
  <2>q. QED BY <2>6, <2>8, <2>9, <2>10, GuessesQuiet
<1>3. CASE MailOtp(h) BY <1>3, <1>d, <1>u DEF MailOtp
<1>4. ASSUME NEW e \in Addresses, VerifyRegistrationOtp(h, e) PROVE GuessesAreCounted'
  <2>1. PICK shown \in mailed \cup {None} :
          Begin(h, [pc |-> OtpVerdict(otp[e], shown), email |-> e,
                    code |-> otp[e].code, attempts |-> otp[e].attempts])
    BY <1>4 DEF VerifyRegistrationOtp
  <2> DEFINE r == [pc |-> OtpVerdict(otp[e], shown), email |-> e,
                   code |-> otp[e].code, attempts |-> otp[e].attempts]
  <2>2. r.code = otp[e].code /\ r.attempts = otp[e].attempts /\ Begin(h, r) BY <2>1
  <2> HIDE DEF r
  <2>3. \A k \in Handlers : \/ req'[k] = req[k]
                            \/ /\ otp[e] # None
                               /\ req'[k].code = otp[e].code
                               /\ req'[k].attempts = otp[e].attempts
    BY <1>4, <1>r, <2>2 DEF Begin, VerifyRegistrationOtp
  <2>4. UNCHANGED <<otp, wrong, otpFor>> BY <1>4 DEF VerifyRegistrationOtp
  <2>q. QED BY <2>3, <2>4, GuessesQuiet
<1>5. CASE DropOtp(h) \/ DeleteUsedOtp(h)
  <2>1. \A k \in Handlers : req'[k] = req[k] \/ req'[k].pc # "otp.count"
    BY <1>5, <1>d DEF DropOtp, DeleteUsedOtp
  <2>2. /\ otp' = [otp EXCEPT ![req[h].email] = None]
        /\ UNCHANGED <<otpFor, wrong>>
    BY <1>5 DEF DropOtp, DeleteUsedOtp
  <2>3. \A e \in Addresses : \/ otp'[e] = None
                             \/ otp'[e] = otp[e]
    BY <1>t, <2>2 DEF RegistrationTypeOK
  <2>4. \A e \in Addresses : \/ otp'[e] = None
                             \/ /\ otp[e] # None
                                /\ otp'[e].code = otp[e].code
                                /\ otp'[e].attempts = otp[e].attempts
    BY <2>3
  <2>q. QED BY <2>1, <2>2, <2>4, GuessesQuiet
<1>6. CASE CountWrongOtp(h) BY <1>6, GuessCounted
<1>7. CASE IssueToken(h)
  <2>1. req[h] \in RegistrationRequest BY <1>7, <1>r DEF IssueToken, At, Idle
  <2>2. Step(h, "otp.used") /\ UNCHANGED <<otp, wrong, otpFor>> BY <1>7 DEF IssueToken
  <2>3. "otp.used" # "otp.count" OBVIOUS
  <2>q. QED BY <1>s, <1>u, <2>1, <2>2, <2>3
<1>8. ASSUME NEW e \in Addresses, NEW t \in OtpTokens, CompleteRegistration(h, e, t)
      PROVE  GuessesAreCounted'
  <2> DEFINE r == [pc |-> "acc.find", email |-> e, token |-> t]
  <2>1. Begin(h, r) /\ r.pc # "otp.count" BY <1>8 DEF CompleteRegistration
  <2> HIDE DEF r
  <2>q. QED BY <1>8, <1>u, <1>b, <2>1 DEF CompleteRegistration
<1>9. CASE FindAccount(h)
  <2>1. req[h] \in RegistrationRequest BY <1>9, <1>r DEF FindAccount, At, Idle
  <2>2. Done(h) \/ Step(h, "acc.insert") BY <1>9 DEF FindAccount
  <2>3. "acc.insert" # "otp.count" OBVIOUS
  <2>4. UNCHANGED <<otp, wrong, otpFor>> BY <1>9 DEF FindAccount
  <2>q. QED BY <1>d, <1>s, <1>u, <2>1, <2>2, <2>3, <2>4
<1>10. CASE InsertAccount(h)
  <2>1. req[h] \in RegistrationRequest BY <1>10, <1>r DEF InsertAccount, At, Idle
  <2>2. Done(h) \/ Step(h, "acc.token") BY <1>10 DEF InsertAccount
  <2>3. "acc.token" # "otp.count" OBVIOUS
  <2>4. UNCHANGED <<otp, wrong, otpFor>> BY <1>10 DEF InsertAccount
  <2>q. QED BY <1>d, <1>s, <1>u, <2>1, <2>2, <2>3, <2>4
<1>11. CASE DeleteToken(h) BY <1>11, <1>d, <1>u DEF DeleteToken
<1>12. ASSUME NEW e \in Addresses, CreateUser(h, e) PROVE GuessesAreCounted'
  <2> DEFINE r == [pc |-> "admin.insert", email |-> e]
  <2>1. Begin(h, r) /\ r.pc # "otp.count" BY <1>12 DEF CreateUser
  <2> HIDE DEF r
  <2>q. QED BY <1>12, <1>u, <1>b, <2>1 DEF CreateUser
<1>13. CASE InsertUser(h)
  <2>1. req[h] \in RegistrationRequest BY <1>13, <1>r DEF InsertUser, At, Idle
  <2>2. Done(h) \/ Step(h, "admin.mail") BY <1>13 DEF InsertUser
  <2>3. "admin.mail" # "otp.count" OBVIOUS
  <2>4. UNCHANGED <<otp, wrong, otpFor>> BY <1>13 DEF InsertUser
  <2>q. QED BY <1>d, <1>s, <1>u, <2>1, <2>2, <2>3, <2>4
<1>14. CASE MailPassword(h) BY <1>14, <1>d, <1>u DEF MailPassword
<1>q. QED BY <1>1, <1>2, <1>3, <1>4, <1>5, <1>6, <1>7, <1>8, <1>9, <1>10, <1>11, <1>12,
             <1>13, <1>14 DEF RegistrationHandler

LEMMA GuessInvariance == RegistrationSpec => []GuessesAreCounted
<1>1. BackendInit /\ RegistrationInit => GuessesAreCounted
  <2> SUFFICES ASSUME BackendInit, RegistrationInit PROVE GuessesAreCounted
    OBVIOUS
  <2>1. One \in [Nat -> Nat] /\ OtpAttempts \in Nat BY RegistrationAssumption DEF One
  <2>2. ASSUME NEW c \in OtpCodes
        PROVE  wrong[c] = 0 /\ OtpSpent[c] \in [Nat -> SUBSET Handlers]
    BY DEF RegistrationInit, OtpSpent
  <2> HIDE DEF OtpSpent
  <2>3. ASSUME NEW c \in OtpCodes PROVE Ladder(Answers, OtpSpent[c], 0, OtpAttempts)
    BY <2>1, <2>2, AnswersIsTable, LadderStarts
  <2>q. QED BY <2>2, <2>3 DEF GuessesAreCounted
<1>2. /\ RegistrationInv /\ RegistrationInv' /\ GuessesAreCounted
      /\ [RegistrationNext]_<<backend, registration>>
      => GuessesAreCounted'
  <2> SUFFICES ASSUME RegistrationInv, RegistrationInv', GuessesAreCounted,
                      [RegistrationNext]_<<backend, registration>>
               PROVE  GuessesAreCounted'
    OBVIOUS
  <2>t. RegistrationTypeOK BY DEF RegistrationInv
  <2>1. CASE UNCHANGED <<backend, registration>>
    BY <2>1, GuessesQuiet DEF backend, registration
  <2>2. CASE Restart /\ UNCHANGED registration
    <3>1. \A k \in Handlers : req'[k].pc # "otp.count" BY <2>2 DEF Restart, Idle
    <3>q. QED BY <2>2, <3>1, GuessesQuiet DEF registration
  <2>3. CASE RegistrationTick
    <3>u. UNCHANGED <<otpFor, wrong, req>> /\ otp' = Aged(otp)
      BY <2>3 DEF RegistrationTick, backend
    <3>1. DOMAIN otp = Addresses BY <2>t DEF RegistrationTypeOK
    <3>2. \A e \in Addresses : \/ otp'[e] = None
                               \/ /\ otp[e] # None /\ otp[e].left # 1
                                  /\ otp'[e] = [otp[e] EXCEPT !.left = otp[e].left - 1]
      BY <3>u, <3>1, AgedKeys
    <3>3. ASSUME NEW e \in Addresses
          PROVE  \/ otp'[e] = None
                 \/ /\ otp[e] # None
                    /\ otp'[e].code = otp[e].code
                    /\ otp'[e].attempts = otp[e].attempts
      <4>1. otp[e] # None => otp[e] \in Otp BY <2>t DEF RegistrationTypeOK
      <4>q. QED BY <3>2, <4>1 DEF Otp
    <3>q. QED BY <3>u, <3>3, GuessesQuiet
  <2>q. QED BY <2>1, <2>2, <2>3, GuessStep DEF RegistrationNext
<1>q. QED BY <1>1, <1>2, RegistrationInvariance, PTL DEF RegistrationSpec

(* However many clients guess at a code and however their guesses overlap, *)
(* it answers no more wrong ones than Answers says.                        *)
THEOREM OtpGuessesAreBounded == RegistrationSpec => []OtpGuessesBounded
<1>1. RegistrationInv /\ GuessesAreCounted => OtpGuessesBounded
  <2> SUFFICES ASSUME RegistrationInv, GuessesAreCounted, NEW c \in OtpCodes
               PROVE  wrong[c] <= Answers[Cardinality(Handlers)][OtpAttempts]
    BY DEF OtpGuessesBounded
  <2>1. One \in [Nat -> Nat] /\ OtpAttempts \in Nat BY RegistrationAssumption DEF One
  <2>2. wrong[c] \in Nat BY DEF RegistrationInv, RegistrationTypeOK
  <2>3. OtpSpent[c] \in [Nat -> SUBSET Handlers] BY DEF OtpSpent
  <2>4. Ladder(Answers, OtpSpent[c], wrong[c], OtpAttempts) BY DEF GuessesAreCounted
  <2> DEFINE B == OtpSpent[c]
             W == wrong[c]
  <2>5. B \in [Nat -> SUBSET Handlers] /\ W \in Nat /\ Ladder(Answers, B, W, OtpAttempts)
    BY <2>2, <2>3, <2>4
  <2> HIDE DEF B, W
  <2>6. W <= Answers[Cardinality(Handlers)][OtpAttempts]
    BY <2>1, <2>5, AnswersIsTable, LadderBounds
  <2>q. QED BY <2>6 DEF W
<1>q. QED BY <1>1, RegistrationInvariance, GuessInvariance, PTL

-----------------------------------------------------------------------------
(* Forgotten passwords.                                                    *)

ResetSpec == BackendInit /\ ResetInit /\ [][ResetNext]_<<backend, reset>>

(* Where a code and a crypto token come from.                              *)
ResetCodeIsFor(c, u) == c \in ResetCodes /\ resetFor[c] = u
CryptoIsFor(t, u) == t \in CryptoTokens /\ boughtWith[t] \in sent /\ resetFor[boughtWith[t]] = u

(* A handler holds a code of its own user, which had been mailed when it   *)
(* was shown, or a token bought with such a code.                          *)
ResetIsBacked(r) ==
    /\ r.pc \in {"reset.mail", "reset.used", "reset.token"} => ResetCodeIsFor(r.code, r.user)
    /\ r.pc \in {"reset.used", "reset.token"} => r.code \in sent
    /\ r.pc \in {"change.update", "change.del"} => CryptoIsFor(r.token, r.user)

ResetsAreBacked == \A h \in Handlers : ResetIsBacked(req[h])
ForPasAreFor == \A u \in Owners : forPas[u] # None => ResetCodeIsFor(forPas[u].code, u)
CrypAreFor == \A t \in CryptoTokens : cryp[t] # None => CryptoIsFor(t, cryp[t].user)
PasswordsAreFor ==
    \A u \in Owners : password[u].by = "token" => CryptoIsFor(password[u].token, u)

(* The handlers that will set a password through t, and those that have.   *)
Setting(t) == {h \in Handlers : At(h, "change.update") /\ req[h].token = t}
Deleting(t) == {h \in Handlers : At(h, "change.del") /\ req[h].token = t}

(* While a token is there, whoever used it has yet to delete it, or died;  *)
(* when it is gone, only those that saw it before will use it.             *)
Counted(t) ==
    /\ changed[t] + Cardinality(Setting(t))
            <= Cardinality(Handlers) * faults + Cardinality(Handlers)
    /\ cryp[t] # None =>
            changed[t] <= Cardinality(Handlers) * faults + Cardinality(Deleting(t))
    /\ boughtWith[t] = None => changed[t] = 0

ChangesAreCounted == \A t \in CryptoTokens : Counted(t)

ResetInv ==
    /\ ResetTypeOK
    /\ ResetsAreBacked
    /\ ForPasAreFor
    /\ CrypAreFor
    /\ PasswordsAreFor
    /\ ChangesAreCounted

ResetGrows ==
    /\ sent \subseteq sent'
    /\ \A c \in ResetCodes : resetFor[c] # None => resetFor'[c] = resetFor[c]
    /\ \A t \in CryptoTokens : boughtWith[t] # None => boughtWith'[t] = boughtWith[t]

LEMMA ResetBackingIsKept ==
  ASSUME ResetTypeOK, ResetGrows, NEW u \in Owners
  PROVE  /\ \A c : ResetCodeIsFor(c, u) => c \in ResetCodes /\ resetFor'[c] = u
         /\ \A t : CryptoIsFor(t, u) =>
                t \in CryptoTokens /\ boughtWith'[t] \in sent' /\ resetFor'[boughtWith'[t]] = u
  BY ResetNone DEF ResetTypeOK, ResetGrows, ResetCodeIsFor, CryptoIsFor

LEMMA ResetMove ==
  ASSUME ResetInv, ResetTypeOK', ResetGrows, ChangesAreCounted',
         \A k \in Handlers : req'[k] = req[k] \/ ResetIsBacked(req[k])',
         \A u \in Owners : \/ forPas'[u] = None
                           \/ forPas[u] # None /\ forPas'[u].code = forPas[u].code
                           \/ ResetCodeIsFor(forPas[u].code, u)',
         \A t \in CryptoTokens : \/ cryp'[t] = None
                                 \/ cryp[t] # None /\ cryp'[t].user = cryp[t].user
                                 \/ CryptoIsFor(t, cryp[t].user)',
         \A u \in Owners : \/ password'[u] = password[u]
                           \/ password'[u].by # "token"
                           \/ CryptoIsFor(password[u].token, u)'
  PROVE  ResetInv'
<1>t. /\ ResetTypeOK /\ ResetsAreBacked /\ ForPasAreFor /\ CrypAreFor /\ PasswordsAreFor
  BY DEF ResetInv
<1>1. ResetsAreBacked'
  <2> SUFFICES ASSUME NEW k \in Handlers PROVE ResetIsBacked(req[k])'
    BY DEF ResetsAreBacked
  <2>1. CASE req'[k] = req[k]
    <3>1. ResetIsBacked(req[k]) BY <1>t DEF ResetsAreBacked
    <3>2. req[k] \in ResetRequest \/ req[k] = Idle BY <1>t DEF ResetTypeOK
    <3>3. req[k] = Idle \/ req[k].user \in Owners BY <3>2 DEF ResetRequest
    <3>q. QED BY <2>1, <3>1, <3>3, <1>t, ResetBackingIsKept
          DEF ResetIsBacked, ResetCodeIsFor, CryptoIsFor, Idle, ResetGrows
  <2>q. QED BY <2>1
<1>2. ForPasAreFor' BY <1>t, ResetBackingIsKept DEF ForPasAreFor, ResetCodeIsFor
<1>3. CrypAreFor'
  <2>1. \A t \in CryptoTokens : cryp[t] # None => cryp[t].user \in Owners
    BY <1>t DEF ResetTypeOK, Cryp
  <2>q. QED BY <1>t, <2>1, ResetBackingIsKept DEF CrypAreFor, CryptoIsFor
<1>4. PasswordsAreFor' BY <1>t, ResetBackingIsKept DEF PasswordsAreFor, CryptoIsFor
<1>q. QED BY <1>1, <1>2, <1>3, <1>4 DEF ResetInv

(* The numbers the counts are made of.                                     *)
LEMMA ResetNumbers ==
  ASSUME ResetTypeOK, NEW t \in CryptoTokens
  PROVE  /\ Setting(t) \in SUBSET Handlers /\ Deleting(t) \in SUBSET Handlers
         /\ Setting(t) \cap Deleting(t) = {}
         /\ Cardinality(Setting(t)) \in Nat /\ Cardinality(Deleting(t)) \in Nat
         /\ Cardinality(Handlers) \in Nat /\ changed[t] \in Nat /\ faults \in Nat
         /\ Cardinality(Handlers) * faults \in Nat
         /\ Cardinality(Setting(t)) + Cardinality(Deleting(t)) <= Cardinality(Handlers)
<1>1. /\ Setting(t) \in SUBSET Handlers /\ Deleting(t) \in SUBSET Handlers
      /\ Setting(t) \cap Deleting(t) = {}
  BY DEF Setting, Deleting, At
<1>2. /\ Cardinality(Setting(t)) \in Nat /\ Cardinality(Deleting(t)) \in Nat
      /\ Cardinality(Handlers) \in Nat
  BY <1>1, HandlerCount
<1>3. Cardinality(Setting(t)) + Cardinality(Deleting(t)) <= Cardinality(Handlers)
  BY <1>1, TwoKindsOfHandlers
<1>4. changed[t] \in Nat /\ faults \in Nat BY DEF ResetTypeOK
<1>5. Cardinality(Handlers) * faults \in Nat BY <1>2, <1>4
<1>q. QED BY <1>1, <1>2, <1>3, <1>4, <1>5

LEMMA OneMoreFault ==
  ASSUME NEW m \in Nat, NEW n \in Nat
  PROVE  m * (n + 1) = m * n + m
  OBVIOUS

(* A step by which no further handler came to hold t, and which did not    *)
(* let one go while t was there.                                           *)
LEMMA CountIsKept ==
  ASSUME ResetTypeOK, ResetTypeOK', NEW t \in CryptoTokens, Counted(t),
         faults' \in {faults, faults + 1},
         changed'[t] = changed[t],
         Setting(t)' \subseteq Setting(t),
         cryp'[t] # None => cryp[t] # None /\ Deleting(t) \subseteq Deleting(t)',
         boughtWith'[t] = None => boughtWith[t] = None
  PROVE  Counted(t)'
<1> DEFINE H == Cardinality(Handlers)
           s == Cardinality(Setting(t))
           d == Cardinality(Deleting(t))
           s2 == Cardinality(Setting(t)')
           d2 == Cardinality(Deleting(t)')
           b == H * faults
           b2 == H * faults'
<1>1. /\ s \in Nat /\ d \in Nat /\ H \in Nat /\ b \in Nat /\ changed[t] \in Nat
      /\ Setting(t) \in SUBSET Handlers /\ Deleting(t) \in SUBSET Handlers
      /\ faults \in Nat
  BY ResetNumbers
<1>2. Setting(t)' \in SUBSET Handlers /\ Deleting(t)' \in SUBSET Handlers
  BY DEF Setting, Deleting
<1>3. s2 \in Nat /\ d2 \in Nat BY <1>2, HandlerCount
<1>4. s2 <= s BY <1>1, FewerHandlers
<1>5. Deleting(t) \subseteq Deleting(t)' => d <= d2 BY <1>2, FewerHandlers
<1>6. b2 \in Nat /\ b <= b2
  <2>1. H * (faults + 1) = b + H BY <1>1, OneMoreFault
  <2>q. QED BY <2>1, <1>1
<1>7. /\ changed[t] + s <= b + H
      /\ cryp[t] # None => changed[t] <= b + d
      /\ boughtWith[t] = None => changed[t] = 0
  BY DEF Counted
<1>8. (Counted(t))' <=> /\ changed'[t] + s2 <= b2 + H
                        /\ cryp'[t] # None => changed'[t] <= b2 + d2
                        /\ boughtWith'[t] = None => changed'[t] = 0
  BY DEF Counted
<1> HIDE DEF s, d, s2, d2, b, b2, H
<1>q. QED BY <1>1, <1>3, <1>4, <1>5, <1>6, <1>7, <1>8

(* A step that moves no handler to or from a token, and issues none.       *)
LEMMA CountsAreKept ==
  ASSUME ResetTypeOK, ResetTypeOK', ChangesAreCounted,
         faults' \in {faults, faults + 1}, changed' = changed,
         boughtWith' = boughtWith,
         \A t \in CryptoTokens : cryp'[t] # None => cryp[t] # None,
         \A k \in Handlers : \/ req'[k] = req[k]
                             \/ ~At(k, "change.del")
                                /\ req'[k].pc \notin {"change.update", "change.del"}
  PROVE  ChangesAreCounted'
<1> SUFFICES ASSUME NEW t \in CryptoTokens PROVE Counted(t)'
  BY DEF ChangesAreCounted
<1>1. Setting(t)' \subseteq Setting(t) /\ Deleting(t) \subseteq Deleting(t)'
  BY DEF Setting, Deleting, At
<1>2. Counted(t) BY DEF ChangesAreCounted
<1>q. QED BY <1>1, <1>2, CountIsKept

LEMMA ResetStep ==
  ASSUME ResetInv, NEW h \in Handlers, ResetHandler(h)
  PROVE  ResetInv'
<1> USE DEF reset
<1>t. /\ ResetTypeOK /\ ResetsAreBacked /\ ForPasAreFor /\ CrypAreFor /\ PasswordsAreFor
      /\ ChangesAreCounted
  BY DEF ResetInv
<1>r. /\ req \in [Handlers -> ResetRequest \cup {Idle}]
      /\ faults \in 0..MaxFaults
      /\ ResetIsBacked(req[h])
  BY <1>t DEF ResetTypeOK, ResetsAreBacked
<1>1. ASSUME NEW u \in Owners, SendForgetPassCode(h, u) PROVE ResetInv'
  <2> DEFINE r == [pc |-> "reset.del", user |-> u, code |-> None]
  <2>1. r \in ResetRequest /\ Begin(h, r) /\ UNCHANGED reset /\ r.pc = "reset.del" /\ Free(h)
    BY <1>1 DEF ResetRequest, SendForgetPassCode
  <2> HIDE DEF r
  <2>2. /\ req'[h] = r
        /\ \A k \in Handlers \ {h} : req'[k] = req[k]
        /\ req' \in [Handlers -> ResetRequest \cup {Idle}]
        /\ faults' = faults
    BY <2>1, <1>r, BeginChange
  <2>3. ResetTypeOK' BY <1>t, <2>1, <2>2 DEF ResetTypeOK
  <2>4. ResetGrows BY <2>1 DEF ResetGrows
  <2>5. ChangesAreCounted' BY <1>t, <2>1, <2>2, <2>3, CountsAreKept DEF At, Free, Idle
  <2>6. ResetIsBacked(req[h])' BY <2>1, <2>2 DEF ResetIsBacked
  <2>q. QED BY <2>1, <2>2, <2>3, <2>4, <2>5, <2>6, ResetMove
<1>2. CASE DeleteOldCode(h) \/ DeleteResetCode(h)
  <2>1. PICK pc \in {"reset.store", "reset.token"} :
            /\ Step(h, pc)
            /\ IF pc = "reset.store" THEN req[h].pc = "reset.del" ELSE req[h].pc = "reset.used"
    BY <1>2 DEF DeleteOldCode, DeleteResetCode, At
  <2>2. /\ forPas' = [forPas EXCEPT ![req[h].user] = None]
        /\ UNCHANGED <<password, cryp, resetFor, sent, boughtWith, changed>>
    BY <1>2 DEF DeleteOldCode, DeleteResetCode
  <2> DEFINE r == [req[h] EXCEPT !.pc = pc]
  <2>3. req[h] \in ResetRequest BY <2>1, <1>r DEF Idle
  <2>4. r \in ResetRequest /\ r.pc = pc /\ r.code = req[h].code /\ r.user = req[h].user
    BY <2>1, <2>3 DEF ResetRequest
  <2> HIDE DEF r
  <2>5. /\ req'[h] = r
        /\ \A k \in Handlers \ {h} : req'[k] = req[k]
        /\ req' \in [Handlers -> ResetRequest \cup {Idle}]
        /\ faults' = faults
    <3>1. Step(h, pc) /\ [req[h] EXCEPT !.pc = pc] \in ResetRequest BY <2>1, <2>4 DEF r
    <3>2. /\ req'[h] = [req[h] EXCEPT !.pc = pc]
          /\ \A k \in Handlers \ {h} : req'[k] = req[k]
          /\ req' \in [Handlers -> ResetRequest \cup {Idle}]
          /\ faults' = faults
      BY <3>1, <1>r, StepChange
    <3>q. QED BY <3>2 DEF r
  <2>6. ResetTypeOK' BY <1>t, <2>2, <2>5 DEF ResetTypeOK
  <2>7. ResetGrows BY <2>2 DEF ResetGrows
  <2>8. ChangesAreCounted' BY <1>t, <2>1, <2>2, <2>4, <2>5, <2>6, CountsAreKept DEF At
  <2>9. ResetIsBacked(req[h])'
    BY <1>r, <2>1, <2>2, <2>4, <2>5 DEF ResetIsBacked, ResetCodeIsFor
  <2>10. \A u \in Owners : forPas'[u] = None \/ forPas'[u] = forPas[u]
    BY <1>t, <2>2 DEF ResetTypeOK
  <2>q. QED BY <2>2, <2>5, <2>6, <2>7, <2>8, <2>9, <2>10, ResetMove
<1>3. CASE StoreResetCode(h)
  <2>1. req[h] \in ResetRequest /\ req[h].pc = "reset.store" /\ req[h].user \in Owners
    BY <1>3, <1>r DEF StoreResetCode, At, Idle, ResetRequest
  <2>2. PICK c \in ResetCodes :
            /\ resetFor[c] = None
            /\ resetFor' = [resetFor EXCEPT ![c] = req[h].user]
            /\ forPas' = [forPas EXCEPT ![req[h].user] = [code |-> c, left |-> ResetLife]]
            /\ Begin(h, [req[h] EXCEPT !.pc = "reset.mail", !.code = c])
    BY <1>3 DEF StoreResetCode, IsNext
  <2> DEFINE r == [req[h] EXCEPT !.pc = "reset.mail", !.code = c]
             new == [code |-> c, left |-> ResetLife]
  <2>3. r \in ResetRequest /\ r.pc = "reset.mail" /\ r.code = c /\ r.user = req[h].user
    BY <2>1 DEF ResetRequest
  <2>4. new \in ForPas /\ new.code = c BY ResetAssumption DEF ForPas
  <2>5. /\ req'[h] = r
        /\ \A k \in Handlers \ {h} : req'[k] = req[k]
        /\ req' \in [Handlers -> ResetRequest \cup {Idle}]
        /\ faults' = faults
    BY <2>2, <2>3, <1>r, BeginChange
  <2>6. /\ UNCHANGED <<password, cryp, sent, boughtWith, changed>>
        /\ forPas' = [forPas EXCEPT ![req[h].user] = new]
    BY <1>3, <2>2 DEF StoreResetCode
  <2> HIDE DEF r, new
  <2>7. ResetTypeOK' BY <1>t, <2>1, <2>2, <2>4, <2>5, <2>6 DEF ResetTypeOK
  <2>8. ResetGrows BY <2>2, <2>6 DEF ResetGrows
  <2>9. ChangesAreCounted' BY <1>t, <2>1, <2>3, <2>5, <2>6, <2>7, CountsAreKept DEF At
  <2>10. resetFor'[c] = req[h].user BY <1>t, <2>2 DEF ResetTypeOK
  <2>11. ResetIsBacked(req[h])' BY <2>3, <2>5, <2>10 DEF ResetIsBacked, ResetCodeIsFor
  <2>12. \A u \in Owners : forPas'[u] = forPas[u] \/ ResetCodeIsFor(forPas[u].code, u)'
    BY <1>t, <2>1, <2>4, <2>6, <2>10 DEF ResetTypeOK, ResetCodeIsFor
  <2>q. QED BY <2>5, <2>6, <2>7, <2>8, <2>9, <2>11, <2>12, ResetMove
<1>4. CASE MailResetCode(h)
  <2>1. req[h] \in ResetRequest /\ req[h].pc = "reset.mail" /\ req[h].code \in ResetCodes
    BY <1>4, <1>r DEF MailResetCode, At, Idle, ResetIsBacked, ResetCodeIsFor
  <2>2. /\ req'[h] = Idle
        /\ \A k \in Handlers \ {h} : req'[k] = req[k]
        /\ req' \in [Handlers -> ResetRequest \cup {Idle}]
        /\ faults' \in 0..MaxFaults
        /\ faults' \in {faults, faults + 1}
    BY <1>4, <1>r, DoneChange, FailChange DEF MailResetCode
  <2>3. /\ sent' = sent \/ sent' = sent \cup {req[h].code}
        /\ UNCHANGED <<password, forPas, cryp, resetFor, boughtWith, changed>>
    BY <1>4 DEF MailResetCode
  <2>4. ResetTypeOK' BY <1>t, <2>1, <2>2, <2>3 DEF ResetTypeOK
  <2>5. ResetGrows BY <2>3 DEF ResetGrows
  <2>6. ChangesAreCounted' BY <1>t, <2>1, <2>2, <2>3, <2>4, CountsAreKept DEF At, Idle
  <2>7. ResetIsBacked(req[h])' BY <2>2 DEF ResetIsBacked, Idle
  <2>q. QED BY <2>2, <2>3, <2>4, <2>5, <2>6, <2>7, ResetMove
<1>5. ASSUME NEW u \in Owners, VerifyForgetPassCode(h, u) PROVE ResetInv'
  <2>1. PICK shown \in sent :
            /\ forPas[u] # None /\ forPas[u].code = shown
            /\ Begin(h, [pc |-> "reset.used", user |-> u, code |-> shown])
    BY <1>5 DEF VerifyForgetPassCode, CodeIsRight
  <2> DEFINE r == [pc |-> "reset.used", user |-> u, code |-> shown]
  <2>2. ResetCodeIsFor(shown, u) /\ shown \in ResetCodes
    BY <1>t, <2>1 DEF ForPasAreFor, ResetCodeIsFor
  <2>3. r \in ResetRequest /\ r.pc = "reset.used" /\ r.code = shown /\ r.user = u
    BY <2>2 DEF ResetRequest
  <2>4. Begin(h, r) /\ UNCHANGED reset /\ Free(h) BY <1>5, <2>1 DEF VerifyForgetPassCode
  <2> HIDE DEF r
  <2>5. /\ req'[h] = r
        /\ \A k \in Handlers \ {h} : req'[k] = req[k]
        /\ req' \in [Handlers -> ResetRequest \cup {Idle}]
        /\ faults' = faults
    BY <2>3, <2>4, <1>r, BeginChange
  <2>6. ResetTypeOK' BY <1>t, <2>4, <2>5 DEF ResetTypeOK
  <2>7. ResetGrows BY <2>4 DEF ResetGrows
  <2>8. ChangesAreCounted' BY <1>t, <2>3, <2>4, <2>5, <2>6, CountsAreKept DEF At, Free, Idle
  <2>9. ResetIsBacked(req[h])'
    BY <2>1, <2>2, <2>3, <2>4, <2>5 DEF ResetIsBacked, ResetCodeIsFor
  <2>q. QED BY <2>4, <2>5, <2>6, <2>7, <2>8, <2>9, ResetMove
<1>6. CASE IssueCrypto(h)
  <2>1. /\ req[h].pc = "reset.token" /\ ResetCodeIsFor(req[h].code, req[h].user)
        /\ req[h].code \in sent /\ req[h] \in ResetRequest
    BY <1>6, <1>r DEF IssueCrypto, At, ResetIsBacked, Idle
  <2>2. req[h].user \in Owners /\ req[h].code \in ResetCodes /\ None \notin ResetCodes
    BY <2>1, ResetNone DEF ResetRequest, ResetCodeIsFor
  <2>3. PICK t \in CryptoTokens :
            /\ boughtWith[t] = None
            /\ cryp' = [cryp EXCEPT ![t] = [user |-> req[h].user, left |-> ResetLife]]
            /\ boughtWith' = [boughtWith EXCEPT ![t] = req[h].code]
    BY <1>6 DEF IssueCrypto, IsNext
  <2> DEFINE new == [user |-> req[h].user, left |-> ResetLife]
  <2>4. new \in Cryp /\ new.user = req[h].user BY <2>2, ResetAssumption DEF Cryp
  <2>5. /\ req'[h] = Idle
        /\ \A k \in Handlers \ {h} : req'[k] = req[k]
        /\ req' \in [Handlers -> ResetRequest \cup {Idle}]
        /\ faults' = faults
    BY <1>6, <1>r, DoneChange DEF IssueCrypto
  <2>6. /\ UNCHANGED <<password, forPas, resetFor, sent, changed>>
        /\ cryp' = [cryp EXCEPT ![t] = new]
    BY <1>6, <2>3 DEF IssueCrypto
  <2> HIDE DEF new
  <2>7. ResetTypeOK' BY <1>t, <2>2, <2>3, <2>4, <2>5, <2>6 DEF ResetTypeOK
  <2>8. ResetGrows BY <2>3, <2>6 DEF ResetGrows
  <2>9. ResetIsBacked(req[h])' BY <2>5 DEF ResetIsBacked, Idle
  <2>10. \A s \in CryptoTokens : cryp'[s] = cryp[s] \/ CryptoIsFor(s, cryp[s].user)'
    BY <1>t, <2>1, <2>2, <2>3, <2>4, <2>6 DEF ResetTypeOK, ResetCodeIsFor, CryptoIsFor
  <2>11. ASSUME NEW s \in CryptoTokens PROVE Counted(s)'
    <3>1. Setting(s)' = Setting(s) /\ Deleting(s)' = Deleting(s)
      BY <2>1, <2>5 DEF Setting, Deleting, At, Idle
    <3>2. Counted(s) BY <1>t DEF ChangesAreCounted
    <3>3. CASE s = t
      <4>1. changed[s] = 0 /\ boughtWith'[s] # None
        BY <1>t, <2>2, <2>3, <3>2, <3>3 DEF Counted, ResetTypeOK
      <4> DEFINE b == Cardinality(Handlers) * faults
                 d == Cardinality(Deleting(s))
      <4>2. b \in Nat /\ d \in Nat BY <1>t, ResetNumbers
      <4> HIDE DEF b, d
      <4>3. changed[s] <= b + d BY <4>1, <4>2
      <4>q. QED BY <3>1, <3>2, <4>1, <4>3, <2>5, <2>6 DEF Counted, b, d
    <3>4. CASE s # t
      <4>1. cryp'[s] = cryp[s] /\ boughtWith'[s] = boughtWith[s]
        BY <1>t, <2>3, <2>6, <3>4 DEF ResetTypeOK
      <4>q. QED BY <1>t, <2>5, <2>6, <2>7, <3>1, <3>2, <4>1, CountIsKept
    <3>q. QED BY <3>3, <3>4
  <2>12. ChangesAreCounted' BY <2>11 DEF ChangesAreCounted
  <2>q. QED BY <2>5, <2>6, <2>7, <2>8, <2>9, <2>10, <2>12, ResetMove
<1>7. ASSUME NEW t \in CryptoTokens, ChangePassword(h, t) PROVE ResetInv'
  <2> DEFINE r == [pc |-> "change.update", user |-> cryp[t].user, token |-> t]
  <2>1. CryptoIsFor(t, cryp[t].user) /\ cryp[t].user \in Owners /\ cryp[t] # None
    BY <1>7, <1>t DEF ChangePassword, CrypAreFor, ResetTypeOK, Cryp
  <2>2. /\ r \in ResetRequest /\ r.pc = "change.update" /\ r.token = t
        /\ r.user = cryp[t].user /\ Begin(h, r) /\ UNCHANGED reset /\ Free(h)
    BY <1>7, <2>1 DEF ResetRequest, ChangePassword
  <2> HIDE DEF r
  <2>3. /\ req'[h] = r
        /\ \A k \in Handlers \ {h} : req'[k] = req[k]
        /\ req' \in [Handlers -> ResetRequest \cup {Idle}]
        /\ faults' = faults
    BY <2>2, <1>r, BeginChange
  <2>4. ResetTypeOK' BY <1>t, <2>2, <2>3 DEF ResetTypeOK
  <2>5. ResetGrows BY <2>2 DEF ResetGrows
  <2>6. ResetIsBacked(req[h])' BY <2>1, <2>2, <2>3 DEF ResetIsBacked, CryptoIsFor
  <2>7. ASSUME NEW s \in CryptoTokens PROVE Counted(s)'
    <3>1. Deleting(s)' = Deleting(s) BY <2>2, <2>3 DEF Deleting, At, Free, Idle
    <3>2. Counted(s) BY <1>t DEF ChangesAreCounted
    <3>3. CASE s = t
      <4> DEFINE H == Cardinality(Handlers)
                 b == H * faults
                 d == Cardinality(Deleting(s))
                 s2 == Cardinality(Setting(s)')
      <4>1. Setting(s)' \in SUBSET Handlers /\ Deleting(s) \in SUBSET Handlers
            /\ Setting(s)' \cap Deleting(s) = {}
        BY <2>2, <2>3, <3>1 DEF Setting, Deleting, At
      <4>2. s2 + d <= H /\ s2 \in Nat BY <4>1, TwoKindsOfHandlers, HandlerCount
      <4>3. /\ b \in Nat /\ d \in Nat /\ H \in Nat /\ changed[s] \in Nat
        BY <1>t, ResetNumbers
      <4>4. changed[s] <= b + d BY <2>1, <3>2, <3>3 DEF Counted
      <4> HIDE DEF H, b, d, s2
      <4>5. changed[s] + s2 <= b + H BY <4>2, <4>3, <4>4
      <4>q. QED BY <2>2, <2>3, <3>1, <3>2, <4>5 DEF Counted, H, b, s2
    <3>4. CASE s # t
      <4>1. Setting(s)' = Setting(s) BY <2>2, <2>3, <3>4 DEF Setting, At, Free, Idle
      <4>q. QED BY <1>t, <2>2, <2>3, <2>4, <3>1, <3>2, <4>1, CountIsKept
    <3>q. QED BY <3>3, <3>4
  <2>8. ChangesAreCounted' BY <2>7 DEF ChangesAreCounted
  <2>q. QED BY <2>2, <2>3, <2>4, <2>5, <2>6, <2>8, ResetMove
<1>8. CASE SetForgotten(h)
  <2> DEFINE t == req[h].token
             r == [req[h] EXCEPT !.pc = "change.del"]
  <2>1. /\ req[h].pc = "change.update" /\ req[h] \in ResetRequest
        /\ CryptoIsFor(t, req[h].user) /\ t \in CryptoTokens /\ req[h].user \in Owners
    BY <1>8, <1>r DEF SetForgotten, At, Idle, ResetIsBacked, ResetRequest, CryptoIsFor
  <2>2. /\ r \in ResetRequest /\ r.pc = "change.del" /\ r.token = t /\ r.user = req[h].user
    BY <2>1 DEF ResetRequest
  <2>3. Step(h, "change.del") BY <1>8 DEF SetForgotten
  <2>4. /\ password' = [password EXCEPT ![req[h].user] = [by |-> "token", token |-> t]]
        /\ changed' = [changed EXCEPT ![t] = @ + 1]
        /\ UNCHANGED <<forPas, cryp, resetFor, sent, boughtWith>>
    BY <1>8 DEF SetForgotten
  <2>5. [by |-> "token", token |-> t] \in Password BY <2>1 DEF Password
  <2> HIDE DEF r
  <2>6. /\ req'[h] = r
        /\ \A k \in Handlers \ {h} : req'[k] = req[k]
        /\ req' \in [Handlers -> ResetRequest \cup {Idle}]
        /\ faults' = faults
    BY <2>2, <2>3, <1>r, StepChange DEF r
  <2>i. req[h].token = t OBVIOUS
  <2> HIDE DEF t
  <2>7. ResetTypeOK' BY <1>t, <2>1, <2>4, <2>5, <2>6 DEF ResetTypeOK
  <2>8. ResetGrows BY <2>4 DEF ResetGrows
  <2>9. ResetIsBacked(req[h])' BY <2>1, <2>2, <2>4, <2>6 DEF ResetIsBacked, CryptoIsFor
  <2>10. \A u \in Owners : password'[u] = password[u] \/ CryptoIsFor(password[u].token, u)'
    BY <1>t, <2>1, <2>4 DEF ResetTypeOK, CryptoIsFor
  <2>11. ASSUME NEW s \in CryptoTokens PROVE Counted(s)'
    <3>2. Counted(s) BY <1>t DEF ChangesAreCounted
    <3>3. CASE s = t
      <4> DEFINE H == Cardinality(Handlers)
                 b == H * faults
                 d == Cardinality(Deleting(s))
                 d2 == Cardinality(Deleting(s)')
                 s1 == Cardinality(Setting(s))
                 s2 == Cardinality(Setting(s)')
      <4>1. /\ Setting(s)' = Setting(s) \ {h} /\ h \in Setting(s)
            /\ Deleting(s)' = Deleting(s) \cup {h} /\ h \notin Deleting(s)
        BY <2>1, <2>2, <2>6, <2>i, <3>3 DEF Setting, Deleting, At
      <4>2. /\ Setting(s) \in SUBSET Handlers /\ Deleting(s) \in SUBSET Handlers
            /\ b \in Nat /\ d \in Nat /\ H \in Nat /\ changed[s] \in Nat /\ s1 \in Nat
        BY <1>t, ResetNumbers
      <4>3. s2 = s1 - 1 /\ d2 = d + 1 BY <4>1, <4>2, OneHandlerLess, OneMoreHandler
      <4>4. changed'[s] = changed[s] + 1 BY <1>t, <2>4, <3>3 DEF ResetTypeOK
      <4>5. boughtWith[s] # None BY <2>1, <3>3, <1>t, ResetNone DEF CryptoIsFor, ResetTypeOK
      <4>6. /\ changed[s] + s1 <= b + H
            /\ cryp[s] # None => changed[s] <= b + d
        BY <3>2 DEF Counted
      <4> HIDE DEF H, b, d, d2, s1, s2
      <4>7. /\ changed'[s] + s2 <= b + H
            /\ cryp[s] # None => changed'[s] <= b + d2
        BY <4>2, <4>3, <4>4, <4>6
      <4>q. QED BY <2>4, <2>6, <4>5, <4>7 DEF Counted, H, b, d2, s2
    <3>4. CASE s # t
      <4>1. Setting(s)' = Setting(s) /\ Deleting(s)' = Deleting(s)
        BY <2>1, <2>2, <2>6, <2>i, <3>4 DEF Setting, Deleting, At
      <4>2. changed'[s] = changed[s] BY <1>t, <2>4, <3>4 DEF ResetTypeOK
      <4>q. QED BY <1>t, <2>4, <2>6, <2>7, <3>2, <4>1, <4>2, CountIsKept
    <3>q. QED BY <3>3, <3>4
  <2>12. ChangesAreCounted' BY <2>11 DEF ChangesAreCounted
  <2>q. QED BY <2>4, <2>6, <2>7, <2>8, <2>9, <2>10, <2>12, ResetMove
<1>9. CASE DeleteCrypto(h)
  <2>1. /\ req'[h] = Idle
        /\ \A k \in Handlers \ {h} : req'[k] = req[k]
        /\ req' \in [Handlers -> ResetRequest \cup {Idle}]
        /\ faults' = faults
    BY <1>9, <1>r, DoneChange DEF DeleteCrypto
  <2>2. /\ cryp' = [cryp EXCEPT ![req[h].token] = None]
        /\ UNCHANGED <<password, forPas, resetFor, sent, boughtWith, changed>>
        /\ req[h].pc = "change.del"
    BY <1>9 DEF DeleteCrypto, At
  <2>3. ResetTypeOK' BY <1>t, <2>1, <2>2 DEF ResetTypeOK
  <2>4. ResetGrows BY <2>2 DEF ResetGrows
  <2>5. ResetIsBacked(req[h])' BY <2>1 DEF ResetIsBacked, Idle
  <2>6. \A t \in CryptoTokens : IF t = req[h].token THEN cryp'[t] = None
                                ELSE cryp'[t] = cryp[t]
    BY <1>t, <2>2 DEF ResetTypeOK
  <2>7. ASSUME NEW t \in CryptoTokens PROVE Counted(t)'
    <3>1. Setting(t)' \subseteq Setting(t) BY <2>1 DEF Setting, At, Idle
    <3>2. t # req[h].token => Deleting(t) \subseteq Deleting(t)'
      BY <2>1 DEF Deleting, At
    <3>3. Counted(t) BY <1>t DEF ChangesAreCounted
    <3>q. QED BY <1>t, <2>1, <2>2, <2>3, <2>6, <3>1, <3>2, <3>3, CountIsKept
  <2>8. ChangesAreCounted' BY <2>7 DEF ChangesAreCounted
  <2>q. QED BY <2>1, <2>2, <2>3, <2>4, <2>5, <2>6, <2>8, ResetMove
<1>10. ASSUME NEW u \in Owners, UpdatePassword(h, u) PROVE ResetInv'
  <2> DEFINE r == [pc |-> "update", user |-> u]
  <2>1. r \in ResetRequest /\ Begin(h, r) /\ UNCHANGED reset /\ r.pc = "update" /\ Free(h)
    BY <1>10 DEF ResetRequest, UpdatePassword
  <2> HIDE DEF r
  <2>2. /\ req'[h] = r
        /\ \A k \in Handlers \ {h} : req'[k] = req[k]
        /\ req' \in [Handlers -> ResetRequest \cup {Idle}]
        /\ faults' = faults
    BY <2>1, <1>r, BeginChange
  <2>3. ResetTypeOK' BY <1>t, <2>1, <2>2 DEF ResetTypeOK
  <2>4. ResetGrows BY <2>1 DEF ResetGrows
  <2>5. ChangesAreCounted' BY <1>t, <2>1, <2>2, <2>3, CountsAreKept DEF At, Free, Idle
  <2>6. ResetIsBacked(req[h])' BY <2>1, <2>2 DEF ResetIsBacked
  <2>q. QED BY <2>1, <2>2, <2>3, <2>4, <2>5, <2>6, ResetMove
<1>11. CASE SetUpdated(h)
  <2>1. /\ req[h].pc = "update" /\ req[h].user \in Owners
    BY <1>11, <1>r DEF SetUpdated, At, Idle, ResetRequest
  <2>2. /\ req'[h] = Idle
        /\ \A k \in Handlers \ {h} : req'[k] = req[k]
        /\ req' \in [Handlers -> ResetRequest \cup {Idle}]
        /\ faults' = faults
    BY <1>11, <1>r, DoneChange DEF SetUpdated
  <2>3. /\ password' = [password EXCEPT ![req[h].user] = [by |-> "updatePassword"]]
        /\ UNCHANGED <<forPas, cryp, resetFor, sent, boughtWith, changed>>
    BY <1>11 DEF SetUpdated
  <2>4. [by |-> "updatePassword"] \in Password BY DEF Password
  <2>5. ResetTypeOK' BY <1>t, <2>2, <2>3, <2>4 DEF ResetTypeOK
  <2>6. ResetGrows BY <2>3 DEF ResetGrows
  <2>7. ChangesAreCounted' BY <1>t, <2>1, <2>2, <2>3, <2>5, CountsAreKept DEF At, Idle
  <2>8. ResetIsBacked(req[h])' BY <2>2 DEF ResetIsBacked, Idle
  <2>9. \A u \in Owners : password'[u] = password[u] \/ password'[u].by # "token"
    BY <1>t, <2>3 DEF ResetTypeOK
  <2>q. QED BY <2>2, <2>3, <2>5, <2>6, <2>7, <2>8, <2>9, ResetMove
<1>q. QED BY <1>1, <1>2, <1>3, <1>4, <1>5, <1>6, <1>7, <1>8, <1>9, <1>10, <1>11
      DEF ResetHandler

LEMMA ResetInvariance == ResetSpec => []ResetInv
<1>1. BackendInit /\ ResetInit => ResetInv
  <2> SUFFICES ASSUME BackendInit, ResetInit PROVE ResetInv
    OBVIOUS
  <2>1. /\ req \in [Handlers -> ResetRequest \cup {Idle}]
        /\ \A k \in Handlers : req[k] = Idle
        /\ faults = 0 /\ faults \in 0..MaxFaults
    BY InitialRequests
  <2>2. ResetTypeOK BY <2>1 DEF ResetInit, ResetTypeOK, Password
  <2>3. ASSUME NEW t \in CryptoTokens PROVE Counted(t)
    <3>1. changed[t] = 0 /\ cryp[t] = None BY DEF ResetInit
    <3>2. Cardinality(Setting(t)) <= Cardinality(Handlers)
      BY HandlerCount DEF Setting
    <3>3. Cardinality(Setting(t)) \in Nat /\ Cardinality(Handlers) \in Nat
          /\ Cardinality(Handlers) * faults = 0
      BY <2>1, <2>2, ResetNumbers
    <3>q. QED BY <3>1, <3>2, <3>3 DEF Counted
  <2>q. QED BY <2>1, <2>2, <2>3
        DEF ResetInit, ResetInv, ResetsAreBacked, ResetIsBacked, ForPasAreFor, CrypAreFor,
            PasswordsAreFor, ChangesAreCounted, Idle
<1>2. ResetInv /\ [ResetNext]_<<backend, reset>> => ResetInv'
  <2>1. ASSUME ResetInv, UNCHANGED <<backend, reset>> PROVE ResetInv'
    BY <2>1
       DEF backend, reset, ResetInv, ResetTypeOK, ResetsAreBacked, ResetIsBacked, ForPasAreFor,
           CrypAreFor, PasswordsAreFor, ResetCodeIsFor, CryptoIsFor, ChangesAreCounted,
           Counted, Setting, Deleting, At
  <2>2. ASSUME ResetInv, Restart, UNCHANGED reset PROVE ResetInv'
    <3>t. ResetTypeOK /\ ChangesAreCounted BY <2>2 DEF ResetInv
    <3>1. /\ \A k \in Handlers : req'[k] = Idle
          /\ req' \in [Handlers -> ResetRequest \cup {Idle}]
          /\ faults' \in 0..MaxFaults /\ faults' = faults + 1
      BY <2>2, <3>t, RestartChange DEF ResetTypeOK
    <3>2. ResetTypeOK' BY <2>2, <3>t, <3>1 DEF reset, ResetTypeOK
    <3>3. ResetGrows BY <2>2 DEF reset, ResetGrows
    <3>4. \A k \in Handlers : ResetIsBacked(req[k])' BY <3>1 DEF ResetIsBacked, Idle
    <3>5. ASSUME NEW t \in CryptoTokens PROVE Counted(t)'
      <4> DEFINE H == Cardinality(Handlers)
                 b == H * faults
                 d == Cardinality(Deleting(t))
                 s == Cardinality(Setting(t))
                 s2 == Cardinality(Setting(t)')
                 d2 == Cardinality(Deleting(t)')
                 b2 == H * faults'
      <4>1. /\ H \in Nat /\ b \in Nat /\ d \in Nat /\ s \in Nat /\ changed[t] \in Nat
            /\ s + d <= H /\ faults \in Nat
        BY <3>t, ResetNumbers
      <4>2. b2 = b + H BY <4>1, <3>1, OneMoreFault
      <4>3. Setting(t)' = {} /\ Deleting(t)' = {}
        BY <3>1 DEF Setting, Deleting, At, Idle
      <4>4. s2 = 0 /\ d2 = 0 BY <4>3, FS_EmptySet
      <4>5. /\ changed[t] + s <= b + H
            /\ boughtWith[t] = None => changed[t] = 0
        BY <3>t DEF ChangesAreCounted, Counted
      <4>6. UNCHANGED <<changed, cryp, boughtWith>> BY <2>2 DEF reset
      <4> HIDE DEF H, b, d, s, s2, d2, b2
      <4>7. changed[t] + s2 <= b2 + H /\ changed[t] <= b2 + d2
        BY <4>1, <4>2, <4>4, <4>5
      <4>q. QED BY <4>5, <4>6, <4>7 DEF Counted, H, s2, d2, b2
    <3>6. ChangesAreCounted' BY <3>5 DEF ChangesAreCounted
    <3>q. QED BY <2>2, <3>2, <3>3, <3>4, <3>6, ResetMove DEF reset
  <2>3. ASSUME ResetInv, ResetTick PROVE ResetInv'
    <3>t. ResetTypeOK /\ ChangesAreCounted BY <2>3 DEF ResetInv
    <3>u. /\ UNCHANGED <<password, resetFor, sent, boughtWith, changed>>
          /\ UNCHANGED <<req, faults>> /\ forPas' = Aged(forPas) /\ cryp' = Aged(cryp)
      BY <2>3 DEF ResetTick, backend
    <3>1. /\ DOMAIN forPas = Owners /\ DOMAIN cryp = CryptoTokens
      BY <3>t DEF ResetTypeOK
    <3>2. /\ forPas' = [u \in Owners |-> forPas'[u]]
          /\ \A u \in Owners : \/ forPas'[u] = None
                               \/ /\ forPas[u] # None /\ forPas[u].left # 1
                                  /\ forPas'[u] = [forPas[u] EXCEPT !.left = forPas[u].left - 1]
      BY <3>u, <3>1, AgedKeys
    <3>3. /\ cryp' = [t \in CryptoTokens |-> cryp'[t]]
          /\ \A t \in CryptoTokens :
                \/ cryp'[t] = None
                \/ /\ cryp[t] # None /\ cryp[t].left # 1
                   /\ cryp'[t] = [cryp[t] EXCEPT !.left = cryp[t].left - 1]
      BY <3>u, <3>1, AgedKeys
    <3>4. \A u \in Owners :
            forPas'[u] # None => /\ forPas'[u] \in ForPas
                                 /\ forPas[u] # None /\ forPas'[u].code = forPas[u].code
      <4> SUFFICES ASSUME NEW u \in Owners, forPas'[u] # None
                   PROVE  /\ forPas'[u] \in ForPas
                          /\ forPas[u] # None /\ forPas'[u].code = forPas[u].code
        OBVIOUS
      <4>1. forPas[u] \in ForPas /\ forPas[u].left # 1
            /\ forPas'[u] = [forPas[u] EXCEPT !.left = forPas[u].left - 1]
        BY <3>2, <3>t DEF ResetTypeOK
      <4>q. QED BY <4>1, ResetAssumption, <3>2 DEF ForPas
    <3>5. \A t \in CryptoTokens :
            cryp'[t] # None => /\ cryp'[t] \in Cryp
                               /\ cryp[t] # None /\ cryp'[t].user = cryp[t].user
      <4> SUFFICES ASSUME NEW t \in CryptoTokens, cryp'[t] # None
                   PROVE  /\ cryp'[t] \in Cryp
                          /\ cryp[t] # None /\ cryp'[t].user = cryp[t].user
        OBVIOUS
      <4>1. cryp[t] \in Cryp /\ cryp[t].left # 1
            /\ cryp'[t] = [cryp[t] EXCEPT !.left = cryp[t].left - 1]
        BY <3>3, <3>t DEF ResetTypeOK
      <4>q. QED BY <4>1, ResetAssumption, <3>3 DEF Cryp
    <3>6. forPas' \in [Owners -> ForPas \cup {None}] BY <3>2, <3>4
    <3>7. cryp' \in [CryptoTokens -> Cryp \cup {None}] BY <3>3, <3>5
    <3>8. ResetTypeOK' BY <3>t, <3>u, <3>6, <3>7 DEF ResetTypeOK
    <3>9. ResetGrows BY <3>u DEF ResetGrows
    <3>10. ChangesAreCounted' BY <3>t, <3>u, <3>5, <3>8, CountsAreKept
    <3>q. QED BY <2>3, <3>u, <3>4, <3>5, <3>8, <3>9, <3>10, ResetMove
  <2>q. QED BY <2>1, <2>2, <2>3, ResetStep DEF ResetNext
<1>q. QED BY <1>1, <1>2, PTL DEF ResetSpec

(* A password set through a token was set by somebody who read a code that *)
(* was mailed to that user.                                                *)
THEOREM ResetsAreConfirmed == ResetSpec => []ResetIsConfirmed
<1>1. ResetInv => ResetIsConfirmed
  BY DEF ResetInv, ResetIsConfirmed, PasswordsAreFor, CryptoIsFor
<1>q. QED BY <1>1, ResetInvariance, PTL

(* A token sets one password for each handler that saw it, and as many     *)
(* again for each failure.                                                 *)
THEOREM ResetsAreBounded == ResetSpec => []ResetsBounded
<1>1. ResetInv => ResetsBounded
  <2> SUFFICES ASSUME ResetInv, NEW t \in CryptoTokens
               PROVE  changed[t] <= Cardinality(Handlers) * (faults + 1)
    BY DEF ResetsBounded
  <2> DEFINE H == Cardinality(Handlers)
             b == H * faults
             s == Cardinality(Setting(t))
  <2>1. /\ H \in Nat /\ faults \in Nat /\ b \in Nat /\ s \in Nat /\ changed[t] \in Nat
    BY ResetNumbers DEF ResetInv
  <2>2. H * (faults + 1) = b + H BY <2>1, OneMoreFault
  <2>3. changed[t] + s <= b + H BY DEF ResetInv, ChangesAreCounted, Counted
  <2> HIDE DEF b, s
  <2>q. QED BY <2>1, <2>2, <2>3
<1>q. QED BY <1>1, ResetInvariance, PTL
-----------------------------------------------------------------------------
(* Logging in, the second factor, and the guard.                           *)

LoginSpec == BackendInit /\ LoginInit /\ [][LoginNext]_<<backend, login>>

SwitchCodeIsFor(c, u) == c \in SwitchCodes /\ switchFor[c] = u

(* A handler mails a code that was made; one that counts found the limit   *)
(* not reached; one that will switch was shown a code of its own user.     *)
LoginIsBacked(r) ==
    /\ r.pc = "login.mail" => r.code \in LoginCodes
    /\ r.pc = "login.count" => r.attempts < LoginAttempts
    /\ r.pc = "switch.mail" => r.code \in SwitchCodes
    /\ r.pc \in {"switch.used", "switch.update"} => SwitchCodeIsFor(r.shown, r.user)

LoginsAreBacked == \A h \in Handlers : LoginIsBacked(req[h])
SwitchOtpsAreFor ==
    \A u \in Members : switchOtp[u] # None => SwitchCodeIsFor(switchOtp[u].code, u)

(* Who is behind the guard and serves a deleted member is in past.         *)
BehindGuard == Guarded \cup {"switch.store", "switch.mail", "switch.get", "switch.used",
                             "switch.update"}
DeletedBehindGuard ==
    \A h \in Handlers : req[h].pc \in BehindGuard /\ req[h].user \in isDeleted => h \in past

(* Those that will switch by the code c.  While it is there nobody has     *)
(* switched by it; when it is gone nobody joins them.                      *)
Switching(c) ==
    {h \in Handlers : req[h].pc \in {"switch.used", "switch.update"} /\ req[h].shown = c}
IsThere(c) == \E u \in Members : switchOtp[u] # None /\ switchOtp[u].code = c
SwitchCounted(c) ==
    /\ switched[c] + Cardinality(Switching(c)) <= Cardinality(Handlers)
    /\ IsThere(c) => /\ switched[c] = 0
                     /\ \A h \in Handlers : ~(At(h, "switch.update") /\ req[h].shown = c)
    /\ switchFor[c] = None => switched[c] = 0

SwitchesAreCounted == \A c \in SwitchCodes : SwitchCounted(c)

LoginInv ==
    /\ LoginTypeOK
    /\ LoginsAreBacked
    /\ SwitchOtpsAreFor
    /\ DeletedBehindGuard
    /\ SwitchesAreCounted

LEMMA LoginMove ==
  ASSUME LoginInv, LoginTypeOK', DeletedBehindGuard', SwitchesAreCounted',
         \A c \in SwitchCodes : switchFor[c] # None => switchFor'[c] = switchFor[c],
         \A k \in Handlers : req'[k] = req[k] \/ LoginIsBacked(req[k])',
         \A u \in Members : \/ switchOtp'[u] = None
                            \/ switchOtp[u] # None /\ switchOtp'[u].code = switchOtp[u].code
                            \/ SwitchCodeIsFor(switchOtp[u].code, u)'
  PROVE  LoginInv'
<1>t. LoginTypeOK /\ LoginsAreBacked /\ SwitchOtpsAreFor BY DEF LoginInv
<1>0. \A u \in Members : \A c : SwitchCodeIsFor(c, u) => c \in SwitchCodes /\ switchFor'[c] = u
  BY LoginNone DEF SwitchCodeIsFor
<1>1. LoginsAreBacked'
  <2> SUFFICES ASSUME NEW k \in Handlers PROVE LoginIsBacked(req[k])'
    BY DEF LoginsAreBacked
  <2>1. CASE req'[k] = req[k]
    <3>1. LoginIsBacked(req[k]) BY <1>t DEF LoginsAreBacked
    <3>2. req[k] \in LoginRequest \/ req[k] = Idle BY <1>t DEF LoginTypeOK
    <3>3. req[k] = Idle \/ req[k].user \in Members BY <3>2 DEF LoginRequest
    <3>q. QED BY <2>1, <3>1, <3>3, <1>0 DEF LoginIsBacked, SwitchCodeIsFor, Idle
  <2>q. QED BY <2>1
<1>2. SwitchOtpsAreFor' BY <1>t, <1>0 DEF SwitchOtpsAreFor, SwitchCodeIsFor
<1>q. QED BY <1>1, <1>2 DEF LoginInv

LEMMA SwitchNumbers ==
  ASSUME LoginTypeOK, NEW c \in SwitchCodes
  PROVE  /\ Switching(c) \in SUBSET Handlers
         /\ Cardinality(Switching(c)) \in Nat /\ Cardinality(Handlers) \in Nat
         /\ Cardinality(Switching(c)) <= Cardinality(Handlers)
         /\ switched[c] \in Nat
  BY HandlerCount DEF Switching, LoginTypeOK

(* A step by which nobody comes to hold the code c, and which does not     *)
(* bring it back.                                                          *)
LEMMA SwitchCountIsKept ==
  ASSUME LoginTypeOK, NEW c \in SwitchCodes, SwitchCounted(c),
         switched'[c] = switched[c], Switching(c)' \subseteq Switching(c),
         IsThere(c)' => IsThere(c),
         \A k \in Handlers : At(k, "switch.update")' /\ req'[k].shown = c =>
            \/ ~IsThere(c)'
            \/ At(k, "switch.update") /\ req[k].shown = c,
         switchFor'[c] = None => switchFor[c] = None
  PROVE  SwitchCounted(c)'
<1> DEFINE s == Cardinality(Switching(c))
           s2 == Cardinality(Switching(c)')
           H == Cardinality(Handlers)
<1>1. /\ Switching(c) \in SUBSET Handlers /\ s \in Nat /\ H \in Nat /\ switched[c] \in Nat
  BY SwitchNumbers
<1>2. s2 <= s BY <1>1, FewerHandlers
<1>3. s2 \in Nat
  <2>1. Switching(c)' \in SUBSET Handlers BY DEF Switching
  <2>q. QED BY <2>1, HandlerCount
<1>4. switched[c] + s <= H BY DEF SwitchCounted
<1> HIDE DEF s, s2, H
<1>5. switched'[c] + s2 <= H BY <1>1, <1>2, <1>3, <1>4
<1>q. QED BY <1>5 DEF SwitchCounted, s2, H

(* A step of h that neither switches nor is about to, nor deletes anybody, *)
(* and leaves no new code for the switch.                                  *)
LEMMA LoginQuiet ==
  ASSUME LoginInv, LoginTypeOK', NEW h \in Handlers,
         UNCHANGED <<isDeleted, switchFor, switched>>,
         \A k \in Handlers \ {h} : req'[k] = req[k],
         \A u \in Members : \/ switchOtp'[u] = None
                            \/ switchOtp[u] # None /\ switchOtp'[u].code = switchOtp[u].code,
         past' \in {past, past \ {h}},
         LoginIsBacked(req[h])',
         req'[h].pc \notin {"switch.used", "switch.update"},
         req'[h].pc \in BehindGuard /\ req'[h].user \in isDeleted => h \in past'
  PROVE  LoginInv'
<1>t. LoginTypeOK /\ DeletedBehindGuard /\ SwitchesAreCounted BY DEF LoginInv
<1>1. DeletedBehindGuard' BY <1>t DEF DeletedBehindGuard, BehindGuard, Guarded
<1>2. ASSUME NEW c \in SwitchCodes PROVE SwitchCounted(c)'
  <2>1. Switching(c)' \subseteq Switching(c) BY DEF Switching
  <2>2. IsThere(c)' => IsThere(c) BY DEF IsThere
  <2>3. SwitchCounted(c) BY <1>t DEF SwitchesAreCounted
  <2>4. \A k \in Handlers : At(k, "switch.update")' /\ req'[k].shown = c =>
            At(k, "switch.update") /\ req[k].shown = c
    BY DEF At
  <2>q. QED BY <1>t, <2>1, <2>2, <2>3, <2>4, SwitchCountIsKept
<1>3. SwitchesAreCounted' BY <1>2 DEF SwitchesAreCounted
<1>q. QED BY <1>1, <1>3, LoginMove

(* The requests by their pc, which tells the fields.                       *)
Making == [pc : {"login.get", "login.store", "login.mail"}, user : Members,
           code : LoginCodes \cup {None}]
Answering == [pc : {"login.drop", "login.count", "login.used", "login.user"}, user : Members,
              code : LoginCodes, attempts : 0..LoginAttempts]
Guarding == [pc : {"guard", "switch.send", "switch.verify", "delete"}, user : Members,
             for : Guarded, shown : SwitchCodes \cup {None}]
MakingSwitch == [pc : {"switch.store", "switch.mail"}, user : Members,
                 code : SwitchCodes \cup {None}]
Turning == [pc : {"switch.get", "switch.used", "switch.update"}, user : Members,
            shown : SwitchCodes \cup {None}, flag : BOOLEAN]

LEMMA LoginRequestKinds ==
  ASSUME NEW r \in LoginRequest
  PROVE  /\ r.user \in Members
         /\ r.pc \in {"login.get", "login.store", "login.mail"} => r \in Making
         /\ r.pc \in {"login.drop", "login.count", "login.used", "login.user"} => r \in Answering
         /\ r.pc \in {"guard", "switch.send", "switch.verify", "delete"} => r \in Guarding
         /\ r.pc \in {"switch.store", "switch.mail"} => r \in MakingSwitch
         /\ r.pc \in {"switch.get", "switch.used", "switch.update"} => r \in Turning
<1>1. \/ r \in [pc : {"login.password"}, user : Members, second : BOOLEAN]
      \/ r \in Making \/ r \in Answering \/ r \in Guarding \/ r \in MakingSwitch
      \/ r \in Turning
  <2>1. {"guard"} \cup Guarded = {"guard", "switch.send", "switch.verify", "delete"}
    BY DEF Guarded
  <2>q. QED BY <2>1 DEF LoginRequest, Making, Answering, Guarding, MakingSwitch, Turning
<1>2. CASE r \in [pc : {"login.password"}, user : Members, second : BOOLEAN]
  BY <1>2
<1>3. CASE r \in Making BY <1>3 DEF Making
<1>4. CASE r \in Answering BY <1>4 DEF Answering
<1>5. CASE r \in Guarding BY <1>5 DEF Guarding
<1>6. CASE r \in MakingSwitch BY <1>6 DEF MakingSwitch
<1>7. CASE r \in Turning BY <1>7 DEF Turning
<1>q. QED BY <1>1, <1>2, <1>3, <1>4, <1>5, <1>6, <1>7

LEMMA KindsAreRequests ==
  /\ Making \subseteq LoginRequest /\ Answering \subseteq LoginRequest
  /\ Guarding \subseteq LoginRequest /\ MakingSwitch \subseteq LoginRequest
  /\ Turning \subseteq LoginRequest
<1>1. {"guard"} \cup Guarded = {"guard", "switch.send", "switch.verify", "delete"}
  BY DEF Guarded
<1>q. QED BY <1>1 DEF LoginRequest, Making, Answering, Guarding, MakingSwitch, Turning

(* The steps of logging in.                                                *)
LEMMA LoggingIn ==
  ASSUME LoginInv, NEW h \in Handlers,
         \/ \E u \in Members : Login(h, u)
         \/ PasswordIsValid(h) \/ FindLoginCode(h) \/ StoreLoginCode(h) \/ MailLoginCode(h)
         \/ \E u \in Members : VerifyLogin2FA(h, u)
         \/ DropLoginCode(h) \/ CountWrongLogin(h) \/ DeleteLoginCode(h) \/ SignAfterCode(h)
  PROVE  LoginInv'
<1> USE DEF login, columns, keys, made, history
<1>t. LoginTypeOK /\ LoginsAreBacked /\ SwitchOtpsAreFor BY DEF LoginInv
<1>r. /\ req \in [Handlers -> LoginRequest \cup {Idle}]
      /\ faults \in 0..MaxFaults
      /\ LoginIsBacked(req[h])
      /\ login2FA \in [Members -> Login2FA \cup {None}]
      /\ {LoginAttempts} \subseteq Nat /\ LoginLife \in Nat \ {0}
  BY <1>t, LoginAssumption DEF LoginTypeOK, LoginsAreBacked
<1>a. Idle.pc = "idle" BY DEF Idle
<1>d. ASSUME Done(h)
      PROVE  /\ req'[h] = Idle /\ \A k \in Handlers \ {h} : req'[k] = req[k]
             /\ req' \in [Handlers -> LoginRequest \cup {Idle}] /\ faults' = faults
             /\ LoginIsBacked(req[h])'
             /\ req'[h].pc \notin {"switch.used", "switch.update"} \cup BehindGuard
  <2>1. /\ req'[h] = Idle /\ \A k \in Handlers \ {h} : req'[k] = req[k]
        /\ req' \in [Handlers -> LoginRequest \cup {Idle}] /\ faults' = faults
    BY <1>d, <1>r, DoneChange
  <2>q. QED BY <2>1, <1>a DEF LoginIsBacked, BehindGuard, Guarded
<1>f. ASSUME Fail(h)
      PROVE  /\ req'[h] = Idle /\ \A k \in Handlers \ {h} : req'[k] = req[k]
             /\ req' \in [Handlers -> LoginRequest \cup {Idle}] /\ faults' \in 0..MaxFaults
             /\ LoginIsBacked(req[h])'
             /\ req'[h].pc \notin {"switch.used", "switch.update"} \cup BehindGuard
  <2>1. /\ req'[h] = Idle /\ \A k \in Handlers \ {h} : req'[k] = req[k]
        /\ req' \in [Handlers -> LoginRequest \cup {Idle}] /\ faults' \in 0..MaxFaults
    BY <1>f, <1>r, FailChange
  <2>q. QED BY <2>1, <1>a DEF LoginIsBacked, BehindGuard, Guarded
<1>b. ASSUME NEW r \in LoginRequest, Begin(h, r),
             r.pc \in {"login.password", "login.get", "login.store", "login.mail", "login.drop",
                       "login.count", "login.used", "login.user"},
             r.pc = "login.mail" => r.code \in LoginCodes,
             r.pc = "login.count" => r.attempts < LoginAttempts
      PROVE  /\ req'[h] = r /\ \A k \in Handlers \ {h} : req'[k] = req[k]
             /\ req' \in [Handlers -> LoginRequest \cup {Idle}] /\ faults' = faults
             /\ LoginIsBacked(req[h])'
             /\ req'[h].pc \notin {"switch.used", "switch.update"} \cup BehindGuard
  <2>1. /\ req'[h] = r /\ \A k \in Handlers \ {h} : req'[k] = req[k]
        /\ req' \in [Handlers -> LoginRequest \cup {Idle}] /\ faults' = faults
    BY <1>b, <1>r, BeginChange
  <2>q. QED BY <1>b, <2>1 DEF LoginIsBacked, BehindGuard, Guarded
<1>1. ASSUME NEW u \in Members, Login(h, u) PROVE LoginInv'
  <2> DEFINE r == [pc |-> "login.password", user |-> u, second |-> u \in twoFactorEnabled]
  <2>1. r \in LoginRequest /\ r.pc = "login.password" BY DEF LoginRequest
  <2>2. Begin(h, r) /\ UNCHANGED login BY <1>1 DEF Login
  <2> HIDE DEF r
  <2>3. LoginTypeOK' BY <1>t, <1>b, <2>1, <2>2 DEF LoginTypeOK
  <2>q. QED BY <1>b, <2>1, <2>2, <2>3, LoginQuiet
<1>2. CASE PasswordIsValid(h)
  <2>1. req[h].user \in Members BY <1>2, <1>r, <1>a DEF PasswordIsValid, At, LoginRequest
  <2>2. CASE req[h].second
    <3> DEFINE r == [pc |-> "login.get", user |-> req[h].user, code |-> None]
    <3>1. r \in LoginRequest /\ r.pc = "login.get" BY <2>1 DEF LoginRequest
    <3>2. Begin(h, r) /\ UNCHANGED login BY <1>2, <2>2 DEF PasswordIsValid
    <3> HIDE DEF r
    <3>3. LoginTypeOK' BY <1>t, <1>b, <3>1, <3>2 DEF LoginTypeOK
    <3>q. QED BY <1>b, <3>1, <3>2, <3>3, LoginQuiet
  <2>3. CASE ~req[h].second
    <3>1. /\ Done(h) /\ signed' = signed \cup {req[h].user}
          /\ UNCHANGED <<columns, keys, made, history, past>>
      BY <1>2, <2>3 DEF PasswordIsValid
    <3>2. LoginTypeOK' BY <1>t, <1>d, <2>1, <3>1 DEF LoginTypeOK
    <3>q. QED BY <1>d, <3>1, <3>2, LoginQuiet
  <2>q. QED BY <2>2, <2>3
<1>3. CASE FindLoginCode(h)
  <2>1. /\ req[h] \in LoginRequest /\ req[h].pc = "login.get" /\ req[h].user \in Members
        /\ UNCHANGED login
    BY <1>3, <1>r, <1>a DEF FindLoginCode, At, LoginRequest
  <2>2. PICK r \in LoginRequest :
            /\ Begin(h, r) /\ r.pc \in {"login.store", "login.mail"}
            /\ r.pc = "login.mail" => r.code \in LoginCodes
    <3>1. CASE login2FA[req[h].user] = None
      <4> DEFINE r == [req[h] EXCEPT !.pc = "login.store"]
      <4>1. r \in LoginRequest /\ r.pc = "login.store"
          BY <2>1, LoginRequestKinds, KindsAreRequests DEF Making
      <4>2. Step(h, "login.store") BY <1>3, <3>1 DEF FindLoginCode
      <4> HIDE DEF r
      <4>3. Begin(h, r) BY <4>2 DEF Step, Begin, r
      <4>q. QED BY <4>1, <4>3
    <3>2. CASE login2FA[req[h].user] # None
      <4> DEFINE c == login2FA[req[h].user].code
                 r == [req[h] EXCEPT !.pc = "login.mail", !.code = c]
      <4>1. c \in LoginCodes BY <1>r, <2>1, <3>2 DEF Login2FA
      <4>2. r \in LoginRequest /\ r.pc = "login.mail" /\ r.code = c
        BY <2>1, <4>1, LoginRequestKinds, KindsAreRequests DEF Making
      <4>3. Begin(h, r) BY <1>3, <3>2 DEF FindLoginCode
      <4> HIDE DEF r, c
      <4>q. QED BY <4>1, <4>2, <4>3
    <3>q. QED BY <3>1, <3>2
  <2>3. LoginTypeOK' BY <1>t, <1>b, <2>1, <2>2 DEF LoginTypeOK
  <2>q. QED BY <1>b, <2>1, <2>2, <2>3, LoginQuiet
<1>4. CASE StoreLoginCode(h)
  <2>1. /\ req[h] \in LoginRequest /\ req[h].pc = "login.store" /\ req[h].user \in Members
    BY <1>4, <1>r, <1>a DEF StoreLoginCode, At, LoginRequest
  <2>2. PICK c \in LoginCodes :
            /\ madeFor' = [madeFor EXCEPT ![c] = req[h].user]
            /\ login2FA' = [login2FA EXCEPT ![req[h].user] =
                                [code |-> c, attempts |-> 0, left |-> LoginLife]]
            /\ Begin(h, [req[h] EXCEPT !.pc = "login.mail", !.code = c])
    BY <1>4 DEF StoreLoginCode
  <2> DEFINE r == [req[h] EXCEPT !.pc = "login.mail", !.code = c]
             new == [code |-> c, attempts |-> 0, left |-> LoginLife]
  <2>3. r \in LoginRequest /\ r.pc = "login.mail" /\ r.code = c
    BY <2>1, LoginRequestKinds, KindsAreRequests DEF Making
  <2>4. new \in Login2FA BY <1>r DEF Login2FA
  <2>5. /\ Begin(h, r) /\ login2FA' = [login2FA EXCEPT ![req[h].user] = new]
        /\ UNCHANGED <<columns, switchOtp, switchFor, told, signed, history, past>>
    BY <1>4, <2>2 DEF StoreLoginCode
  <2> HIDE DEF r, new
  <2>6. LoginTypeOK' BY <1>t, <1>b, <2>1, <2>2, <2>3, <2>4, <2>5 DEF LoginTypeOK
  <2>q. QED BY <1>b, <2>3, <2>5, <2>6, LoginQuiet
<1>5. CASE MailLoginCode(h)
  <2>1. req[h].code \in LoginCodes
    BY <1>5, <1>r DEF MailLoginCode, At, LoginIsBacked
  <2>2. /\ told' \in {told, [told EXCEPT !.login = @ \cup {req[h].code}]}
        /\ Done(h) \/ Fail(h)
        /\ UNCHANGED <<columns, keys, madeFor, switchFor, signed, history, past>>
    BY <1>5 DEF MailLoginCode
  <2>3. told' \in [login : SUBSET LoginCodes, switch : SUBSET SwitchCodes]
    BY <1>t, <2>1, <2>2 DEF LoginTypeOK
  <2>4. LoginTypeOK' BY <1>t, <1>d, <1>f, <2>2, <2>3 DEF LoginTypeOK
  <2>q. QED BY <1>d, <1>f, <2>2, <2>4, LoginQuiet
<1>6. ASSUME NEW u \in Members, VerifyLogin2FA(h, u) PROVE LoginInv'
  <2>1. PICK shown \in told.login \cup {None} :
        Begin(h, [pc |-> LoginVerdict(login2FA[u], shown), user |-> u,
                  code |-> login2FA[u].code, attempts |-> login2FA[u].attempts])
    BY <1>6 DEF VerifyLogin2FA
  <2> DEFINE r == [pc |-> LoginVerdict(login2FA[u], shown), user |-> u,
                   code |-> login2FA[u].code, attempts |-> login2FA[u].attempts]
  <2>2. login2FA[u] \in Login2FA BY <1>6, <1>r DEF VerifyLogin2FA
  <2>3. /\ login2FA[u].code \in LoginCodes /\ login2FA[u].attempts \in 0..LoginAttempts
        /\ LoginAttempts \in Nat
    BY <2>2, <1>r DEF Login2FA
  <2>4. /\ r.pc \in {"login.drop", "login.count", "login.used"}
        /\ r.pc = "login.count" => login2FA[u].attempts < LoginAttempts
    BY <2>3 DEF LoginVerdict
  <2>5. r \in LoginRequest /\ r.attempts = login2FA[u].attempts
    BY <2>3, <2>4 DEF LoginRequest
  <2>6. Begin(h, r) /\ UNCHANGED login BY <1>6, <2>1 DEF VerifyLogin2FA
  <2> HIDE DEF r
  <2>7. LoginTypeOK' BY <1>t, <1>b, <2>4, <2>5, <2>6 DEF LoginTypeOK
  <2>q. QED BY <1>b, <2>4, <2>5, <2>6, <2>7, LoginQuiet
<1>7. CASE DropLoginCode(h)
  <2>1. /\ Done(h) /\ login2FA' = [login2FA EXCEPT ![req[h].user] = None]
        /\ UNCHANGED <<columns, switchOtp, made, signed, history, past>>
    BY <1>7 DEF DropLoginCode
  <2>2. LoginTypeOK' BY <1>t, <1>d, <2>1 DEF LoginTypeOK
  <2>q. QED BY <1>d, <2>1, <2>2, LoginQuiet
<1>8. CASE CountWrongLogin(h)
  <2>1. /\ req[h].user \in Members /\ req[h].code \in LoginCodes
        /\ req[h].attempts \in 0..LoginAttempts /\ req[h].attempts < LoginAttempts
    BY <1>8, <1>r, <1>a, LoginRequestKinds DEF CountWrongLogin, At, Answering, LoginIsBacked
  <2> DEFINE new == [code |-> req[h].code, attempts |-> req[h].attempts + 1,
                     left |-> LoginLife]
  <2>2. new \in Login2FA BY <2>1, <1>r DEF Login2FA
  <2>3. /\ Done(h) /\ login2FA' = [login2FA EXCEPT ![req[h].user] = new]
        /\ guessed' = [guessed EXCEPT ![req[h].code] = @ + 1]
        /\ UNCHANGED <<columns, switchOtp, made, signed, opened, switched, past>>
    BY <1>8 DEF CountWrongLogin
  <2> HIDE DEF new
  <2>4. LoginTypeOK' BY <1>t, <1>d, <2>1, <2>2, <2>3 DEF LoginTypeOK
  <2>q. QED BY <1>d, <2>3, <2>4, LoginQuiet
<1>9. CASE DeleteLoginCode(h)
  <2> DEFINE r == [req[h] EXCEPT !.pc = "login.user"]
  <2>1. req[h] \in LoginRequest /\ req[h].pc = "login.used"
    BY <1>9, <1>r, <1>a DEF DeleteLoginCode, At
  <2>2. r \in LoginRequest /\ r.pc = "login.user"
    BY <2>1, LoginRequestKinds, KindsAreRequests DEF Answering
  <2>3. /\ Step(h, "login.user") /\ login2FA' = [login2FA EXCEPT ![req[h].user] = None]
        /\ UNCHANGED <<columns, switchOtp, made, signed, history, past>>
    BY <1>9 DEF DeleteLoginCode
  <2> HIDE DEF r
  <2>4. Begin(h, r) BY <2>3 DEF Step, Begin, r
  <2>5. LoginTypeOK' BY <1>t, <1>b, <2>2, <2>3, <2>4 DEF LoginTypeOK
  <2>q. QED BY <1>b, <2>2, <2>3, <2>4, <2>5, LoginQuiet
<1>10. CASE SignAfterCode(h)
  <2>1. req[h].user \in Members /\ req[h].code \in LoginCodes
    BY <1>10, <1>r, <1>a, LoginRequestKinds DEF SignAfterCode, At, Answering
  <2>2. /\ Done(h) /\ signed' = signed \cup {req[h].user}
        /\ opened' = [opened EXCEPT ![req[h].code] = @ + 1]
        /\ UNCHANGED <<columns, keys, made, guessed, switched, past>>
    BY <1>10 DEF SignAfterCode
  <2>3. LoginTypeOK' BY <1>t, <1>d, <2>1, <2>2 DEF LoginTypeOK
  <2>q. QED BY <1>d, <2>2, <2>3, LoginQuiet
<1>q. QED BY <1>1, <1>2, <1>3, <1>4, <1>5, <1>6, <1>7, <1>8, <1>9, <1>10

(* The steps of passing the guard and of asking for a code.                *)
LEMMA PassingTheGuard ==
  ASSUME LoginInv, NEW h \in Handlers,
         \/ \E u \in Members : Arrive(h, u) \/ AdminDelete(h, u)
         \/ CanActivate(h) \/ SendTwoFACode(h) \/ MailSwitchCode(h) \/ VerifyTwoFA(h)
  PROVE  LoginInv'
<1> USE DEF login, columns, keys, made, history
<1>t. LoginTypeOK /\ LoginsAreBacked /\ DeletedBehindGuard BY DEF LoginInv
<1>r. /\ req \in [Handlers -> LoginRequest \cup {Idle}]
      /\ faults \in 0..MaxFaults
      /\ LoginIsBacked(req[h])
      /\ req[h].pc \in BehindGuard /\ req[h].user \in isDeleted => h \in past
      /\ told \in [login : SUBSET LoginCodes, switch : SUBSET SwitchCodes]
  BY <1>t DEF LoginTypeOK, LoginsAreBacked, DeletedBehindGuard
<1>a. Idle.pc = "idle" BY DEF Idle
<1>d. ASSUME Done(h) \/ Fail(h), UNCHANGED <<columns, keys, madeFor, switchFor, signed, history>>,
             told' \in [login : SUBSET LoginCodes, switch : SUBSET SwitchCodes], past' = past
      PROVE  LoginInv'
  <2>1. /\ req'[h] = Idle /\ \A k \in Handlers \ {h} : req'[k] = req[k]
        /\ req' \in [Handlers -> LoginRequest \cup {Idle}] /\ faults' \in 0..MaxFaults
    BY <1>d, <1>r, DoneChange, FailChange
  <2>2. LoginTypeOK' BY <1>t, <1>d, <2>1 DEF LoginTypeOK
  <2>3. /\ LoginIsBacked(req[h])'
        /\ req'[h].pc \notin {"switch.used", "switch.update"} \cup BehindGuard
    BY <2>1, <1>a DEF LoginIsBacked, BehindGuard, Guarded
  <2>q. QED BY <1>d, <2>1, <2>2, <2>3, LoginQuiet
<1>b. ASSUME NEW r \in LoginRequest, Begin(h, r),
             r.pc \in {"guard", "switch.send", "switch.verify", "delete", "switch.store",
                       "switch.get"},
             r.pc # "guard" => \/ r.user \notin isDeleted
                               \/ r.user = req[h].user /\ req[h].pc \in BehindGuard /\ past' = past,
             UNCHANGED <<columns, keys, made, signed, history>>, past' \in {past, past \ {h}}
      PROVE  LoginInv'
  <2>1. /\ req'[h] = r /\ \A k \in Handlers \ {h} : req'[k] = req[k]
        /\ req' \in [Handlers -> LoginRequest \cup {Idle}] /\ faults' = faults
    BY <1>b, <1>r, BeginChange
  <2>2. LoginTypeOK' BY <1>t, <1>b, <2>1 DEF LoginTypeOK
  <2>3. /\ LoginIsBacked(req[h])'
        /\ req'[h].pc \notin {"switch.used", "switch.update"}
        /\ req'[h].pc \in BehindGuard /\ req'[h].user \in isDeleted => h \in past'
    BY <1>b, <1>r, <2>1 DEF LoginIsBacked, BehindGuard, Guarded
  <2>q. QED BY <1>b, <2>1, <2>2, <2>3, LoginQuiet
<1>1. ASSUME NEW u \in Members, Arrive(h, u) PROVE LoginInv'
  <2>1. PICK for \in Guarded, shown \in told.switch \cup {None} :
            Begin(h, [pc |-> "guard", user |-> u, for |-> for, shown |-> shown])
    BY <1>1 DEF Arrive
  <2> DEFINE r == [pc |-> "guard", user |-> u, for |-> for, shown |-> shown]
  <2>2. r \in Guarding /\ r.pc = "guard" BY <1>r DEF Guarding
  <2>3. /\ Begin(h, r) /\ past' = past \ {h}
        /\ UNCHANGED <<columns, keys, made, signed, history>>
    BY <1>1, <2>1 DEF Arrive
  <2> HIDE DEF r
  <2>q. QED BY <1>b, <2>2, <2>3, KindsAreRequests
<1>2. ASSUME NEW u \in Members, AdminDelete(h, u) PROVE LoginInv'
  <2> DEFINE r == [pc |-> "delete", user |-> u, for |-> "delete", shown |-> None]
  <2>1. r \in Guarding /\ r.pc = "delete" /\ r.user = u BY DEF Guarding, Guarded
  <2>2. /\ Begin(h, r) /\ past' = past \ {h} /\ u \notin isDeleted
        /\ UNCHANGED <<columns, keys, made, signed, history>>
    BY <1>2 DEF AdminDelete
  <2> HIDE DEF r
  <2>q. QED BY <1>b, <2>1, <2>2, KindsAreRequests
<1>3. CASE CanActivate(h)
  <2>1. req[h] \in Guarding /\ req[h].pc = "guard" /\ req[h].for \in Guarded
    BY <1>3, <1>r, <1>a, LoginRequestKinds DEF CanActivate, At, Guarding
  <2>2. CASE GuardPasses(req[h].user)
    <3> DEFINE r == [req[h] EXCEPT !.pc = req[h].for]
    <3>1. r \in Guarding /\ r.pc \in Guarded /\ r.user = req[h].user
      BY <2>1 DEF Guarding, Guarded
    <3>2. Step(h, req[h].for) /\ UNCHANGED login BY <1>3, <2>2 DEF CanActivate
    <3> HIDE DEF r
    <3>3. Begin(h, r) BY <3>2 DEF Step, Begin, r
    <3>4. r.pc \in {"switch.send", "switch.verify", "delete"} BY <3>1 DEF Guarded
    <3>5. r.user \notin isDeleted BY <2>2, <3>1 DEF GuardPasses
    <3>q. QED BY <1>b, <3>1, <3>2, <3>3, <3>4, <3>5, KindsAreRequests
  <2>3. CASE ~GuardPasses(req[h].user)
    <3>1. Done(h) /\ UNCHANGED login BY <1>3, <2>3 DEF CanActivate
    <3>q. QED BY <1>d, <1>r, <3>1
  <2>q. QED BY <2>2, <2>3
<1>4. CASE SendTwoFACode(h)
  <2> DEFINE r == [pc |-> "switch.store", user |-> req[h].user, code |-> None]
  <2>1. req[h] \in Guarding /\ req[h].pc = "switch.send" /\ req[h].user \in Members
    BY <1>4, <1>r, <1>a, LoginRequestKinds DEF SendTwoFACode, At
  <2>2. r \in MakingSwitch /\ r.pc = "switch.store" /\ r.user = req[h].user
    BY <2>1 DEF MakingSwitch
  <2>3. Begin(h, r) /\ UNCHANGED login BY <1>4 DEF SendTwoFACode
  <2> HIDE DEF r
  <2>4. req[h].pc \in BehindGuard BY <2>1 DEF BehindGuard, Guarded
  <2>q. QED BY <1>b, <2>2, <2>3, <2>4, KindsAreRequests
<1>5. CASE MailSwitchCode(h)
  <2>1. req[h].code \in SwitchCodes
    BY <1>5, <1>r DEF MailSwitchCode, At, LoginIsBacked
  <2>2. /\ told' \in {told, [told EXCEPT !.switch = @ \cup {req[h].code}]}
        /\ Done(h) \/ Fail(h)
        /\ UNCHANGED <<columns, keys, madeFor, switchFor, signed, history, past>>
    BY <1>5 DEF MailSwitchCode
  <2>3. told' \in [login : SUBSET LoginCodes, switch : SUBSET SwitchCodes]
    BY <1>r, <2>1, <2>2
  <2>q. QED BY <1>d, <2>2, <2>3
<1>6. CASE VerifyTwoFA(h)
  <2> DEFINE r == [pc |-> "switch.get", user |-> req[h].user, shown |-> req[h].shown,
                   flag |-> req[h].user \in twoFactorEnabled]
  <2>1. /\ req[h] \in Guarding /\ req[h].pc = "switch.verify" /\ req[h].user \in Members
        /\ req[h].shown \in SwitchCodes \cup {None}
    BY <1>6, <1>r, <1>a, LoginRequestKinds DEF VerifyTwoFA, At, Guarding
  <2>2. r \in Turning /\ r.pc = "switch.get" /\ r.user = req[h].user
    BY <2>1 DEF Turning
  <2>3. Begin(h, r) /\ UNCHANGED login BY <1>6 DEF VerifyTwoFA
  <2> HIDE DEF r
  <2>4. req[h].pc \in BehindGuard BY <2>1 DEF BehindGuard, Guarded
  <2>q. QED BY <1>b, <2>2, <2>3, <2>4, KindsAreRequests
<1>q. QED BY <1>1, <1>2, <1>3, <1>4, <1>5, <1>6

(* The steps of switching and of deleting the account.                     *)
LEMMA SwitchingOrDeleting ==
  ASSUME LoginInv, NEW h \in Handlers,
         \/ StoreSwitchCode(h) \/ CompareSwitchCode(h) \/ DeleteSwitchCode(h)
         \/ UpdateTwoFactor(h) \/ DeleteAccount(h)
  PROVE  LoginInv'
<1> USE DEF login, columns, keys, made, history
<1>t. /\ LoginTypeOK /\ LoginsAreBacked /\ DeletedBehindGuard /\ SwitchOtpsAreFor
      /\ SwitchesAreCounted
  BY DEF LoginInv
<1>r. /\ req \in [Handlers -> LoginRequest \cup {Idle}]
      /\ faults \in 0..MaxFaults
      /\ LoginIsBacked(req[h])
      /\ req[h].pc \in BehindGuard /\ req[h].user \in isDeleted => h \in past
      /\ switchOtp \in [Members -> SwitchOtp \cup {None}]
  BY <1>t DEF LoginTypeOK, LoginsAreBacked, DeletedBehindGuard
<1>a. Idle.pc = "idle" BY DEF Idle
<1>n. None \notin Members /\ None \notin SwitchCodes /\ None \notin SwitchOtp BY LoginNone
(* h stays behind the guard, or answers.                                   *)
<1>g. ASSUME UNCHANGED <<isDeleted, past>>, \A k \in Handlers \ {h} : req'[k] = req[k],
             \/ req'[h] = Idle
             \/ req[h].pc \in BehindGuard /\ req'[h].user = req[h].user
      PROVE  DeletedBehindGuard'
  BY <1>g, <1>a, <1>t DEF DeletedBehindGuard, BehindGuard, Guarded
<1>1. CASE StoreSwitchCode(h)
  <2>1. /\ req[h] \in MakingSwitch /\ req[h].pc = "switch.store" /\ req[h].user \in Members
    <3>1. req[h].pc = "switch.store" BY <1>1 DEF StoreSwitchCode, At
    <3>2. req[h] \in LoginRequest BY <1>r, <1>a, <3>1
    <3>q. QED BY <3>1, <3>2, LoginRequestKinds
  <2>2. PICK c \in SwitchCodes :
            /\ switchFor[c] = None
            /\ switchFor' = [switchFor EXCEPT ![c] = req[h].user]
            /\ switchOtp' = [switchOtp EXCEPT ![req[h].user] =
                                [code |-> c, left |-> LoginLife]]
            /\ Begin(h, [req[h] EXCEPT !.pc = "switch.mail", !.code = c])
    BY <1>1 DEF StoreSwitchCode, IsNext
  <2> DEFINE r == [req[h] EXCEPT !.pc = "switch.mail", !.code = c]
             new == [code |-> c, left |-> LoginLife]
  <2>3. r \in MakingSwitch /\ r.pc = "switch.mail" /\ r.code = c /\ r.user = req[h].user
    BY <2>1 DEF MakingSwitch
  <2>4. new \in SwitchOtp /\ new.code = c BY LoginAssumption DEF SwitchOtp
  <2>5. /\ switchOtp' = [switchOtp EXCEPT ![req[h].user] = new]
        /\ UNCHANGED <<columns, login2FA, madeFor, told, signed, history, past>>
    BY <1>1, <2>2 DEF StoreSwitchCode
  <2>b. Begin(h, r) BY <2>2
  <2> HIDE DEF r, new
  <2>6. /\ req'[h] = r /\ \A k \in Handlers \ {h} : req'[k] = req[k]
        /\ req' \in [Handlers -> LoginRequest \cup {Idle}] /\ faults' = faults
    BY <1>r, <2>b, <2>3, KindsAreRequests, BeginChange
  <2>7. LoginTypeOK' BY <1>t, <2>1, <2>2, <2>4, <2>5, <2>6 DEF LoginTypeOK
  <2>8. DeletedBehindGuard' BY <1>g, <2>1, <2>3, <2>5, <2>6 DEF BehindGuard
  <2>9. /\ switchFor'[c] = req[h].user
        /\ \A d \in SwitchCodes \ {c} : switchFor'[d] = switchFor[d]
        /\ switchOtp'[req[h].user] = new
        /\ \A u \in Members \ {req[h].user} : switchOtp'[u] = switchOtp[u]
    BY <1>t, <2>1, <2>2, <2>5 DEF LoginTypeOK
  <2>10. ASSUME NEW d \in SwitchCodes PROVE SwitchCounted(d)'
    <3>1. Switching(d)' = Switching(d) BY <2>1, <2>3, <2>6 DEF Switching
    <3>2. \A k \in Handlers : At(k, "switch.update")' /\ req'[k].shown = d =>
            At(k, "switch.update") /\ req[k].shown = d
      BY <2>1, <2>3, <2>6 DEF At
    <3>3. SwitchCounted(d) BY <1>t DEF SwitchesAreCounted
    <3>4. CASE d = c
      <4>1. switched[d] = 0 BY <2>2, <3>3, <3>4 DEF SwitchCounted
      <4>2. ASSUME NEW k \in Handlers PROVE ~(At(k, "switch.update") /\ req[k].shown = c)
        <5>1. LoginIsBacked(req[k]) BY <1>t DEF LoginsAreBacked
        <5>2. CASE req[k] = Idle BY <5>2, <1>a DEF At
        <5>3. CASE req[k] # Idle
          <6>1. req[k].user \in Members BY <5>3, <1>r, LoginRequestKinds
          <6>q. QED BY <5>1, <6>1, <1>n, <2>2 DEF LoginIsBacked, SwitchCodeIsFor, At
        <5>q. QED BY <5>2, <5>3
      <4>3. switched'[d] = switched[d] BY <2>5
      <4>q. QED BY <1>n, <2>1, <2>9, <3>1, <3>2, <3>3, <3>4, <4>1, <4>2, <4>3
            DEF SwitchCounted
    <3>5. CASE d # c
      <4>1. IsThere(d)' => IsThere(d) BY <2>4, <2>9, <3>5 DEF IsThere
      <4>q. QED BY <1>t, <2>5, <2>9, <3>1, <3>2, <3>3, <3>5, <4>1, SwitchCountIsKept
    <3>q. QED BY <3>4, <3>5
  <2>11. SwitchesAreCounted' BY <2>10 DEF SwitchesAreCounted
  <2>12. LoginIsBacked(req[h])' BY <2>3, <2>6 DEF LoginIsBacked
  <2>13. \A d \in SwitchCodes : switchFor[d] # None => switchFor'[d] = switchFor[d]
    BY <2>2, <2>9
  <2>14. \A u \in Members : switchOtp'[u] = switchOtp[u] \/ SwitchCodeIsFor(switchOtp[u].code, u)'
    BY <2>4, <2>9 DEF SwitchCodeIsFor
  <2>q. QED BY <2>6, <2>7, <2>8, <2>11, <2>12, <2>13, <2>14, LoginMove
<1>2. CASE CompareSwitchCode(h)
  <2> DEFINE u == req[h].user
             c == req[h].shown
  <2>1. /\ req[h] \in Turning /\ req[h].pc = "switch.get" /\ u \in Members
        /\ UNCHANGED login
    BY <1>2, <1>r, <1>a, LoginRequestKinds DEF CompareSwitchCode, At
  <2>2. CASE switchOtp[u] # None /\ switchOtp[u].code = c
    <3> DEFINE r == [req[h] EXCEPT !.pc = "switch.used"]
    <3>1. /\ r \in Turning /\ r.pc = "switch.used" /\ r.shown = req[h].shown
          /\ r.user = req[h].user
      BY <2>1 DEF Turning
    <3>2. Step(h, "switch.used") BY <1>2, <2>2 DEF CompareSwitchCode
    <3> HIDE DEF r
    <3>3. /\ req'[h] = r /\ \A k \in Handlers \ {h} : req'[k] = req[k]
          /\ req' \in [Handlers -> LoginRequest \cup {Idle}] /\ faults' = faults
      BY <1>r, <3>1, <3>2, KindsAreRequests, StepChange DEF r
    <3>4. LoginTypeOK' BY <1>t, <2>1, <3>3 DEF LoginTypeOK
    <3>5. DeletedBehindGuard' BY <1>g, <2>1, <3>1, <3>3 DEF BehindGuard
    <3>6. SwitchCodeIsFor(c, u) BY <1>t, <2>1, <2>2 DEF SwitchOtpsAreFor
    <3>7. LoginIsBacked(req[h])'
      BY <2>1, <3>1, <3>3, <3>6 DEF LoginIsBacked, SwitchCodeIsFor
    <3>8. ASSUME NEW d \in SwitchCodes PROVE SwitchCounted(d)'
      <4>1. SwitchCounted(d) BY <1>t DEF SwitchesAreCounted
      <4>2. \A k \in Handlers : At(k, "switch.update")' /\ req'[k].shown = d =>
            At(k, "switch.update") /\ req[k].shown = d
        BY <3>1, <3>3 DEF At
      <4>3. IsThere(d)' => IsThere(d) BY <2>1 DEF IsThere
      <4>4. CASE d # c
        <5>1. Switching(d)' \subseteq Switching(d)
          BY <3>1, <3>3, <4>4 DEF Switching
        <5>q. QED BY <1>t, <2>1, <4>1, <4>2, <4>3, <5>1, SwitchCountIsKept
      <4>5. CASE d = c
        <5>1. IsThere(d) BY <2>1, <2>2, <4>5 DEF IsThere
        <5>2. switched[d] = 0 BY <4>1, <5>1 DEF SwitchCounted
        <5>3. Switching(d)' \in SUBSET Handlers BY DEF Switching
        <5>4. /\ Cardinality(Switching(d)') <= Cardinality(Handlers)
              /\ Cardinality(Switching(d)') \in Nat /\ Cardinality(Handlers) \in Nat
          BY <5>3, HandlerCount
        <5>q. QED BY <2>1, <4>1, <4>2, <5>1, <5>2, <5>4 DEF SwitchCounted
      <4>q. QED BY <4>4, <4>5
    <3>9. SwitchesAreCounted' BY <3>8 DEF SwitchesAreCounted
    <3>q. QED BY <2>1, <3>3, <3>4, <3>5, <3>7, <3>9, LoginMove
  <2>3. CASE ~(switchOtp[u] # None /\ switchOtp[u].code = c)
    <3>1. Done(h) BY <1>2, <2>3 DEF CompareSwitchCode
    <3>2. /\ req'[h] = Idle /\ \A k \in Handlers \ {h} : req'[k] = req[k]
          /\ req' \in [Handlers -> LoginRequest \cup {Idle}] /\ faults' = faults
      BY <1>r, <3>1, DoneChange
    <3>3. LoginTypeOK' BY <1>t, <2>1, <3>2 DEF LoginTypeOK
    <3>4. /\ LoginIsBacked(req[h])'
          /\ req'[h].pc \notin {"switch.used", "switch.update"} \cup BehindGuard
      BY <3>2, <1>a DEF LoginIsBacked, BehindGuard, Guarded
    <3>q. QED BY <2>1, <3>2, <3>3, <3>4, LoginQuiet
  <2>q. QED BY <2>2, <2>3
<1>3. CASE DeleteSwitchCode(h)
  <2> DEFINE r == [req[h] EXCEPT !.pc = "switch.update"]
  <2>1. /\ req[h] \in Turning /\ req[h].pc = "switch.used" /\ req[h].user \in Members
        /\ SwitchCodeIsFor(req[h].shown, req[h].user)
    BY <1>3, <1>r, <1>a, LoginRequestKinds DEF DeleteSwitchCode, At, LoginIsBacked
  <2>2. /\ r \in Turning /\ r.pc = "switch.update" /\ r.shown = req[h].shown
        /\ r.user = req[h].user
    BY <2>1 DEF Turning
  <2>3. /\ Step(h, "switch.update") /\ switchOtp' = [switchOtp EXCEPT ![req[h].user] = None]
        /\ UNCHANGED <<columns, login2FA, made, signed, history, past>>
    BY <1>3 DEF DeleteSwitchCode
  <2> HIDE DEF r
  <2>4. /\ req'[h] = r /\ \A k \in Handlers \ {h} : req'[k] = req[k]
        /\ req' \in [Handlers -> LoginRequest \cup {Idle}] /\ faults' = faults
    BY <1>r, <2>2, <2>3, KindsAreRequests, StepChange DEF r
  <2>5. LoginTypeOK' BY <1>t, <2>3, <2>4 DEF LoginTypeOK
  <2>6. DeletedBehindGuard' BY <1>g, <2>1, <2>2, <2>3, <2>4 DEF BehindGuard
  <2>7. LoginIsBacked(req[h])'
    BY <2>1, <2>2, <2>3, <2>4 DEF LoginIsBacked, SwitchCodeIsFor
  <2>8. /\ switchOtp'[req[h].user] = None
        /\ \A v \in Members \ {req[h].user} : switchOtp'[v] = switchOtp[v]
    BY <1>r, <2>1, <2>3
  <2>9. ASSUME NEW d \in SwitchCodes PROVE SwitchCounted(d)'
    <3>1. SwitchCounted(d) BY <1>t DEF SwitchesAreCounted
    <3>2. Switching(d)' \subseteq Switching(d) BY <2>1, <2>2, <2>4 DEF Switching
    <3>3. IsThere(d)' => IsThere(d) BY <2>8 DEF IsThere
    <3>4. d = req[h].shown => ~IsThere(d)'
      <4> SUFFICES ASSUME d = req[h].shown, NEW v \in Members, switchOtp'[v] # None,
                          switchOtp'[v].code = d
                   PROVE  FALSE
        BY DEF IsThere
      <4>1. v # req[h].user /\ switchOtp[v] # None /\ switchOtp[v].code = d BY <2>8
      <4>2. switchFor[d] = v BY <4>1, <1>t DEF SwitchOtpsAreFor, SwitchCodeIsFor
      <4>q. QED BY <4>1, <4>2, <2>1 DEF SwitchCodeIsFor
    <3>5. \A k \in Handlers : At(k, "switch.update")' /\ req'[k].shown = d =>
            \/ ~IsThere(d)'
            \/ At(k, "switch.update") /\ req[k].shown = d
      BY <2>2, <2>4, <3>4 DEF At
    <3>q. QED BY <1>t, <2>3, <3>1, <3>2, <3>3, <3>5, SwitchCountIsKept
  <2>10. SwitchesAreCounted' BY <2>9 DEF SwitchesAreCounted
  <2>q. QED BY <2>3, <2>4, <2>5, <2>6, <2>7, <2>8, <2>10, LoginMove
<1>4. CASE UpdateTwoFactor(h)
  <2>1. /\ req[h] \in Turning /\ req[h].pc = "switch.update" /\ req[h].user \in Members
        /\ req[h].shown \in SwitchCodes /\ SwitchCodeIsFor(req[h].shown, req[h].user)
    BY <1>4, <1>r, <1>a, LoginRequestKinds
       DEF UpdateTwoFactor, At, LoginIsBacked, SwitchCodeIsFor
  <2>2. /\ Done(h) /\ switched' = [switched EXCEPT ![req[h].shown] = @ + 1]
        /\ twoFactorEnabled' \subseteq Members
        /\ UNCHANGED <<isDeleted, keys, made, signed, guessed, opened, past>>
    BY <1>4, <1>t, <2>1 DEF UpdateTwoFactor, LoginTypeOK
  <2>3. /\ req'[h] = Idle /\ \A k \in Handlers \ {h} : req'[k] = req[k]
        /\ req' \in [Handlers -> LoginRequest \cup {Idle}] /\ faults' = faults
    BY <1>r, <2>2, DoneChange
  <2>4. LoginTypeOK' BY <1>t, <2>1, <2>2, <2>3 DEF LoginTypeOK
  <2>u. UNCHANGED <<isDeleted, past>> BY <2>2
  <2>5. DeletedBehindGuard'
    BY <1>a, <1>t, <2>3, <2>u DEF DeletedBehindGuard, BehindGuard, Guarded
  <2>6. LoginIsBacked(req[h])' BY <2>3, <1>a DEF LoginIsBacked
  <2>7. ASSUME NEW d \in SwitchCodes PROVE SwitchCounted(d)'
    <3>1. SwitchCounted(d) BY <1>t DEF SwitchesAreCounted
    <3>2. IsThere(d)' = IsThere(d) BY <2>2 DEF IsThere
    <3>3. CASE d = req[h].shown
      <4> DEFINE s == Cardinality(Switching(d))
                 s2 == Cardinality(Switching(d)')
                 H == Cardinality(Handlers)
      <4>1. h \in Switching(d) /\ Switching(d)' = Switching(d) \ {h}
        BY <1>a, <2>1, <2>3, <3>3 DEF Switching
      <4>2. /\ Switching(d) \in SUBSET Handlers /\ s \in Nat /\ H \in Nat
            /\ switched[d] \in Nat
        BY <1>t, SwitchNumbers
      <4>3. s2 = s - 1 BY <4>1, <4>2, OneHandlerLess
      <4>4. switched'[d] = switched[d] + 1 BY <1>t, <2>2, <3>3 DEF LoginTypeOK
      <4>5. ~IsThere(d) /\ switchFor[d] # None
        BY <1>n, <2>1, <3>1, <3>3 DEF SwitchCounted, At, SwitchCodeIsFor
      <4>6. switched[d] + s <= H BY <3>1 DEF SwitchCounted
      <4> HIDE DEF s, s2, H
      <4>7. switched'[d] + s2 <= H BY <4>2, <4>3, <4>4, <4>6
      <4>q. QED BY <2>2, <3>2, <4>5, <4>7 DEF SwitchCounted, s2, H
    <3>4. CASE d # req[h].shown
      <4>1. switched'[d] = switched[d] BY <1>t, <2>2, <3>4 DEF LoginTypeOK
      <4>2. Switching(d)' \subseteq Switching(d) BY <1>a, <2>3 DEF Switching
      <4>3. \A k \in Handlers : At(k, "switch.update")' /\ req'[k].shown = d =>
              At(k, "switch.update") /\ req[k].shown = d
        BY <1>a, <2>3 DEF At
      <4>q. QED BY <1>t, <2>2, <3>1, <3>2, <4>1, <4>2, <4>3, SwitchCountIsKept
    <3>q. QED BY <3>3, <3>4
  <2>8. SwitchesAreCounted' BY <2>7 DEF SwitchesAreCounted
  <2>q. QED BY <2>2, <2>3, <2>4, <2>5, <2>6, <2>8, LoginMove
<1>5. CASE DeleteAccount(h)
  <2>1. req[h].user \in Members /\ req[h].pc = "delete"
    BY <1>5, <1>r, <1>a, LoginRequestKinds DEF DeleteAccount, At
  <2>2. /\ Done(h) /\ isDeleted' = isDeleted \cup {req[h].user}
        /\ past' = IF req[h].user \in isDeleted THEN past
                   ELSE past \cup PastGuard(req[h].user)
        /\ UNCHANGED <<twoFactorEnabled, keys, made, signed, history>>
    BY <1>5 DEF DeleteAccount
  <2>3. /\ req'[h] = Idle /\ \A k \in Handlers \ {h} : req'[k] = req[k]
        /\ req' \in [Handlers -> LoginRequest \cup {Idle}] /\ faults' = faults
    BY <1>r, <2>2, DoneChange
  <2>4. LoginTypeOK' BY <1>t, <2>1, <2>2, <2>3 DEF LoginTypeOK, PastGuard
  <2>5. DeletedBehindGuard'
    <3> SUFFICES ASSUME NEW k \in Handlers, req'[k].pc \in BehindGuard,
                        req'[k].user \in isDeleted'
                 PROVE  k \in past'
      BY DEF DeletedBehindGuard
    <3>1. k # h /\ req'[k] = req[k] /\ req[k] # Idle /\ req[k].pc # "guard"
      BY <1>a, <2>3 DEF BehindGuard, Guarded
    <3>2. CASE req[k].user \in isDeleted
      BY <1>t, <2>2, <3>1, <3>2 DEF DeletedBehindGuard
    <3>3. CASE req[k].user \notin isDeleted
      BY <2>2, <3>1, <3>3 DEF PastGuard, Free
    <3>q. QED BY <3>2, <3>3
  <2>6. LoginIsBacked(req[h])' BY <2>3, <1>a DEF LoginIsBacked
  <2>7. ASSUME NEW d \in SwitchCodes PROVE SwitchCounted(d)'
    <3>1. SwitchCounted(d) BY <1>t DEF SwitchesAreCounted
    <3>2. IsThere(d)' = IsThere(d) BY <2>2 DEF IsThere
    <3>3. Switching(d)' \subseteq Switching(d) BY <1>a, <2>3 DEF Switching
    <3>4. \A k \in Handlers : At(k, "switch.update")' /\ req'[k].shown = d =>
            At(k, "switch.update") /\ req[k].shown = d
      BY <1>a, <2>3 DEF At
    <3>q. QED BY <1>t, <2>2, <3>1, <3>2, <3>3, <3>4, SwitchCountIsKept
  <2>8. SwitchesAreCounted' BY <2>7 DEF SwitchesAreCounted
  <2>q. QED BY <2>2, <2>3, <2>4, <2>5, <2>6, <2>8, LoginMove
<1>q. QED BY <1>1, <1>2, <1>3, <1>4, <1>5

LEMMA LoginStep ==
  ASSUME LoginInv, NEW h \in Handlers, LoginHandler(h)
  PROVE  LoginInv'
  BY LoggingIn, PassingTheGuard, SwitchingOrDeleting DEF LoginHandler

LEMMA LoginInvariance == LoginSpec => []LoginInv
<1>1. BackendInit /\ LoginInit => LoginInv
  <2> SUFFICES ASSUME BackendInit, LoginInit PROVE LoginInv
    OBVIOUS
  <2>1. /\ req \in [Handlers -> LoginRequest \cup {Idle}]
        /\ \A k \in Handlers : req[k] = Idle
        /\ faults = 0 /\ faults \in 0..MaxFaults
    BY InitialRequests
  <2>2. LoginTypeOK BY <2>1 DEF LoginInit, LoginTypeOK
  <2>3. ASSUME NEW c \in SwitchCodes PROVE SwitchCounted(c)
    <3>1. switched[c] = 0 BY DEF LoginInit
    <3>2. /\ Cardinality(Switching(c)) <= Cardinality(Handlers)
          /\ Cardinality(Switching(c)) \in Nat /\ Cardinality(Handlers) \in Nat
      BY <2>2, SwitchNumbers
    <3>3. \A k \in Handlers : ~At(k, "switch.update") BY <2>1 DEF At, Idle
    <3>q. QED BY <3>1, <3>2, <3>3 DEF SwitchCounted
  <2>q. QED BY <2>1, <2>2, <2>3
        DEF LoginInit, LoginInv, LoginsAreBacked, LoginIsBacked, SwitchOtpsAreFor,
            DeletedBehindGuard, SwitchesAreCounted, Idle
<1>2. LoginInv /\ [LoginNext]_<<backend, login>> => LoginInv'
  <2>1. ASSUME LoginInv, UNCHANGED <<backend, login>> PROVE LoginInv'
    <3>1. LoginTypeOK' BY <2>1 DEF backend, login, LoginInv, LoginTypeOK
    <3>2. LoginsAreBacked' /\ SwitchOtpsAreFor'
      BY <2>1 DEF backend, login, LoginInv, LoginsAreBacked, LoginIsBacked,
         SwitchOtpsAreFor, SwitchCodeIsFor
    <3>3. DeletedBehindGuard' BY <2>1 DEF backend, login, LoginInv, DeletedBehindGuard
    <3>4. ASSUME NEW c \in SwitchCodes PROVE SwitchCounted(c)'
      BY <2>1, <3>4 DEF backend, login, LoginInv, SwitchesAreCounted, SwitchCounted,
         Switching, IsThere, At
    <3>q. QED BY <3>1, <3>2, <3>3, <3>4 DEF LoginInv, SwitchesAreCounted
  <2>2. ASSUME LoginInv, Restart, UNCHANGED login PROVE LoginInv'
    <3>t. LoginTypeOK /\ SwitchesAreCounted BY <2>2 DEF LoginInv
    <3>1. /\ \A k \in Handlers : req'[k] = Idle
          /\ req' \in [Handlers -> LoginRequest \cup {Idle}]
          /\ faults' \in 0..MaxFaults
      BY <2>2, <3>t, RestartChange DEF LoginTypeOK
    <3>a. Idle.pc = "idle" BY DEF Idle
    <3>2. LoginTypeOK' BY <2>2, <3>t, <3>1 DEF login, LoginTypeOK
    <3>3. DeletedBehindGuard' BY <3>1, <3>a DEF DeletedBehindGuard, BehindGuard, Guarded
    <3>4. \A k \in Handlers : LoginIsBacked(req[k])' BY <3>1, <3>a DEF LoginIsBacked
    <3>5. ASSUME NEW c \in SwitchCodes PROVE SwitchCounted(c)'
      <4>1. SwitchCounted(c) BY <3>t DEF SwitchesAreCounted
      <4>2. Switching(c)' \subseteq Switching(c) BY <3>1, <3>a DEF Switching
      <4>3. IsThere(c)' = IsThere(c) BY <2>2 DEF login, IsThere
      <4>4. \A k \in Handlers : ~At(k, "switch.update")' BY <3>1, <3>a DEF At
      <4>5. switched' = switched /\ switchFor' = switchFor BY <2>2 DEF login
      <4>q. QED BY <3>t, <4>1, <4>2, <4>3, <4>4, <4>5, SwitchCountIsKept
    <3>6. SwitchesAreCounted' BY <3>5 DEF SwitchesAreCounted
    <3>q. QED BY <2>2, <3>2, <3>3, <3>4, <3>6, LoginMove DEF login
  <2>3. ASSUME LoginInv, LoginTick PROVE LoginInv'
    <3>t. LoginTypeOK /\ LoginsAreBacked BY <2>3 DEF LoginInv
    <3>u. /\ UNCHANGED <<isDeleted, twoFactorEnabled, madeFor, switchFor, told, signed,
                         guessed, opened, switched, past>>
          /\ UNCHANGED <<req, faults>> /\ login2FA' = Aged(login2FA) /\ switchOtp' = Aged(switchOtp)
      BY <2>3 DEF LoginTick, backend, columns, made, history
    <3>1. /\ DOMAIN login2FA = Members /\ DOMAIN switchOtp = Members
      BY <3>t DEF LoginTypeOK
    <3>2. /\ login2FA' = [u \in Members |-> login2FA'[u]]
          /\ \A u \in Members :
                \/ login2FA'[u] = None
                \/ /\ login2FA[u] # None /\ login2FA[u].left # 1
                   /\ login2FA'[u] = [login2FA[u] EXCEPT !.left = login2FA[u].left - 1]
      BY <3>u, <3>1, AgedKeys
    <3>3. /\ switchOtp' = [u \in Members |-> switchOtp'[u]]
          /\ \A u \in Members :
                \/ switchOtp'[u] = None
                \/ /\ switchOtp[u] # None /\ switchOtp[u].left # 1
                   /\ switchOtp'[u] = [switchOtp[u] EXCEPT !.left = switchOtp[u].left - 1]
      BY <3>u, <3>1, AgedKeys
    <3>4. \A u \in Members : login2FA'[u] # None => login2FA'[u] \in Login2FA
      <4> SUFFICES ASSUME NEW u \in Members, login2FA'[u] # None
                   PROVE  login2FA'[u] \in Login2FA
        OBVIOUS
      <4>1. login2FA[u] \in Login2FA /\ login2FA[u].left # 1
            /\ login2FA'[u] = [login2FA[u] EXCEPT !.left = login2FA[u].left - 1]
        BY <3>2, <3>t DEF LoginTypeOK
      <4>q. QED BY <4>1, LoginAssumption DEF Login2FA
    <3>5. \A u \in Members :
            switchOtp'[u] # None => /\ switchOtp'[u] \in SwitchOtp
                                    /\ switchOtp[u] # None
                                    /\ switchOtp'[u].code = switchOtp[u].code
      <4> SUFFICES ASSUME NEW u \in Members, switchOtp'[u] # None
                   PROVE  /\ switchOtp'[u] \in SwitchOtp
                          /\ switchOtp[u] # None
                          /\ switchOtp'[u].code = switchOtp[u].code
        OBVIOUS
      <4>1. switchOtp[u] \in SwitchOtp /\ switchOtp[u].left # 1
            /\ switchOtp'[u] = [switchOtp[u] EXCEPT !.left = switchOtp[u].left - 1]
        BY <3>3, <3>t DEF LoginTypeOK
      <4>q. QED BY <4>1, <3>3, LoginAssumption DEF SwitchOtp
    <3>6. login2FA' \in [Members -> Login2FA \cup {None}] BY <3>2, <3>4
    <3>7. switchOtp' \in [Members -> SwitchOtp \cup {None}] BY <3>3, <3>5
    <3>8. LoginTypeOK' BY <3>t, <3>u, <3>6, <3>7 DEF LoginTypeOK
    <3>9. DeletedBehindGuard' BY <2>3, <3>u DEF LoginInv, DeletedBehindGuard
    <3>10. ASSUME NEW c \in SwitchCodes PROVE SwitchCounted(c)'
      <4>1. SwitchCounted(c) BY <2>3 DEF LoginInv, SwitchesAreCounted
      <4>2. Switching(c)' = Switching(c) BY <3>u DEF Switching
      <4>3. IsThere(c)' => IsThere(c) BY <3>5 DEF IsThere
      <4>q. QED BY <3>t, <3>u, <4>1, <4>2, <4>3, SwitchCountIsKept DEF At
    <3>11. SwitchesAreCounted' BY <3>10 DEF SwitchesAreCounted
    <3>q. QED BY <2>3, <3>u, <3>5, <3>8, <3>9, <3>11, LoginMove
  <2>q. QED BY <2>1, <2>2, <2>3, LoginStep DEF LoginNext
<1>q. QED BY <1>1, <1>2, PTL DEF LoginSpec

(* A code switches the second factor at most once for each handler.        *)
THEOREM SwitchesAreBounded == LoginSpec => []SwitchedBounded
<1>1. LoginInv => SwitchedBounded
  <2> SUFFICES ASSUME LoginInv, NEW c \in SwitchCodes
               PROVE  switched[c] <= Cardinality(Handlers)
    BY DEF SwitchedBounded
  <2> DEFINE s == Cardinality(Switching(c))
             H == Cardinality(Handlers)
  <2>1. s \in Nat /\ H \in Nat /\ switched[c] \in Nat BY SwitchNumbers DEF LoginInv
  <2>2. switched[c] + s <= H BY DEF LoginInv, SwitchesAreCounted, SwitchCounted
  <2> HIDE DEF s, H
  <2>q. QED BY <2>1, <2>2 DEF H
<1>q. QED BY <1>1, LoginInvariance, PTL

(* After an account is deleted, only requests that had passed the guard    *)
(* before switch its second factor.                                        *)
THEOREM TwoFactorsAreKept == LoginSpec => DeletedKeepsTwoFactor
<1>1. LoginInv /\ [LoginNext]_<<backend, login>> =>
        [\A u \in isDeleted, h \in Handlers :
            /\ u \in isDeleted'
            /\ (At(h, "switch.update") /\ req[h].user = u /\ switched' # switched)
                    => h \in past]_login
  <2> SUFFICES ASSUME LoginInv, LoginNext, NEW u \in isDeleted, NEW h \in Handlers
               PROVE  /\ u \in isDeleted'
                      /\ At(h, "switch.update") /\ req[h].user = u => h \in past
    BY DEF backend, login
  <2>1. At(h, "switch.update") /\ req[h].user = u => h \in past
    BY DEF LoginInv, DeletedBehindGuard, BehindGuard, At
  <2>2. u \in isDeleted'
    <3>1. ASSUME NEW k \in Handlers, LoginHandler(k) PROVE isDeleted \subseteq isDeleted'
      <4>1. CASE DeleteAccount(k) BY <4>1 DEF DeleteAccount
      <4>2. CASE (\E v \in Members : Login(k, v)) \/ PasswordIsValid(k)
        BY <4>2 DEF Login, PasswordIsValid, login, columns
      <4>3. CASE FindLoginCode(k) \/ StoreLoginCode(k) \/ MailLoginCode(k)
        BY <4>3 DEF FindLoginCode, StoreLoginCode, MailLoginCode, login, columns
      <4>4. CASE (\E v \in Members : VerifyLogin2FA(k, v)) \/ DropLoginCode(k)
                 \/ CountWrongLogin(k)
        BY <4>4 DEF VerifyLogin2FA, DropLoginCode, CountWrongLogin, login, columns
      <4>5. CASE DeleteLoginCode(k) \/ SignAfterCode(k)
        BY <4>5 DEF DeleteLoginCode, SignAfterCode, login, columns
      <4>6. CASE (\E v \in Members : Arrive(k, v) \/ AdminDelete(k, v)) \/ CanActivate(k)
        BY <4>6 DEF Arrive, AdminDelete, CanActivate, login, columns
      <4>7. CASE SendTwoFACode(k) \/ StoreSwitchCode(k) \/ MailSwitchCode(k)
        BY <4>7 DEF SendTwoFACode, StoreSwitchCode, MailSwitchCode, login, columns
      <4>8. CASE VerifyTwoFA(k) \/ CompareSwitchCode(k) \/ DeleteSwitchCode(k)
                 \/ UpdateTwoFactor(k)
        BY <4>8 DEF VerifyTwoFA, CompareSwitchCode, DeleteSwitchCode, UpdateTwoFactor, login,
           columns
      <4>q. QED
        BY <3>1, <4>1, <4>2, <4>3, <4>4, <4>5, <4>6, <4>7, <4>8 DEF LoginHandler
    <3>2. CASE LoginTick BY <3>2 DEF LoginTick, login, columns
    <3>q. QED BY <3>1, <3>2 DEF LoginNext, login, columns
  <2>q. QED BY <2>1, <2>2
<1>q. QED BY <1>1, LoginInvariance, PTL DEF LoginSpec, DeletedKeepsTwoFactor
-----------------------------------------------------------------------------
(* How many wrong guesses a code for logging in answers, and how many      *)
(* sessions it opens.  A key allows guesses with more than t attempts      *)
(* left; a handler holds one that was wrong, or was right with any left.   *)

LoginAllows(k, c, t) == k # None /\ k.code = c /\ k.attempts + t < LoginAttempts
WrongHeld(r, c, t) == r.pc = "login.count" /\ r.code = c /\ r.attempts + t < LoginAttempts
RightHeld(r, c, t) == t = 0 /\ r.pc = "login.used" /\ r.code = c

GuessHolders == [c \in LoginCodes |-> [t \in Nat |->
    {h \in Handlers : WrongHeld(req[h], c, t)}]]
UseHolders == [c \in LoginCodes |-> [t \in Nat |->
    {h \in Handlers : WrongHeld(req[h], c, t) \/ RightHeld(req[h], c, t)}]]
LoginAllowed == [c \in LoginCodes |->
    {t \in Nat : \E u \in Members : LoginAllows(login2FA[u], c, t)}]

(* The handlers that are about to sign by the code c.                      *)
Signing == [c \in LoginCodes |-> {h \in Handlers : req[h].pc = "login.user" /\ req[h].code = c}]

(* Where a code comes from; a guess that goes on found the limit not       *)
(* reached.                                                                *)
LoginCodeIsFor(c, u) == c \in LoginCodes /\ madeFor[c] = u
AnswerIsBacked(r) ==
    /\ r.pc \in {"login.drop", "login.count", "login.used", "login.user"} =>
            LoginCodeIsFor(r.code, r.user)
    /\ r.pc \in {"login.count", "login.used"} => r.attempts < LoginAttempts
AnswersAreBacked == \A h \in Handlers : AnswerIsBacked(req[h])
LoginCodesAreFor ==
    \A u \in Members : login2FA[u] # None => LoginCodeIsFor(login2FA[u].code, u)

(* A session counts when it is certain that it will be opened.             *)
LoginCounted(c) ==
    /\ Ladder(Answers, Spent(GuessHolders[c], LoginAllowed[c]), guessed[c], LoginAttempts)
    /\ Ladder(Uses, Spent(UseHolders[c], LoginAllowed[c]),
              opened[c] + Cardinality(Signing[c]), LoginAttempts)
    /\ madeFor[c] = None => guessed[c] = 0 /\ opened[c] = 0

LoginCodesInv ==
    /\ AnswersAreBacked
    /\ LoginCodesAreFor
    /\ \A c \in LoginCodes : LoginCounted(c)

LEMMA LoginNumbers ==
  ASSUME LoginTypeOK, NEW c \in LoginCodes
  PROVE  /\ guessed[c] \in Nat /\ opened[c] \in Nat
         /\ Signing[c] \in SUBSET Handlers /\ Cardinality(Signing[c]) \in Nat
         /\ opened[c] + Cardinality(Signing[c]) \in Nat
         /\ LoginAttempts \in Nat /\ One \in [Nat -> Nat] /\ OneAtFirst \in [Nat -> Nat]
<1>1. Signing[c] \in SUBSET Handlers BY DEF Signing
<1>2. Cardinality(Signing[c]) \in Nat BY <1>1, HandlerCount
<1>3. guessed[c] \in Nat /\ opened[c] \in Nat BY DEF LoginTypeOK
<1>4. LoginAttempts \in Nat BY LoginAssumption
<1>5. One \in [Nat -> Nat] /\ OneAtFirst \in [Nat -> Nat] BY DEF One, OneAtFirst
<1>q. QED BY <1>1, <1>2, <1>3, <1>4, <1>5

LEMMA LoginHolders ==
  ASSUME NEW c \in LoginCodes, NEW t \in Nat, NEW k \in Handlers
  PROVE  /\ k \in GuessHolders[c][t] <=> WrongHeld(req[k], c, t)
         /\ k \in UseHolders[c][t] <=> WrongHeld(req[k], c, t) \/ RightHeld(req[k], c, t)
         /\ t \in LoginAllowed[c] <=> \E u \in Members : LoginAllows(login2FA[u], c, t)
         /\ k \in GuessHolders'[c][t] <=> WrongHeld(req'[k], c, t)
         /\ k \in UseHolders'[c][t] <=> WrongHeld(req'[k], c, t) \/ RightHeld(req'[k], c, t)
         /\ t \in LoginAllowed'[c] <=> \E u \in Members : LoginAllows(login2FA'[u], c, t)
  BY DEF GuessHolders, UseHolders, LoginAllowed

(* A step by which nobody gets a guess at c that was not there, and nobody *)
(* comes to sign.                                                          *)
LEMMA LoginCountIsKept ==
  ASSUME LoginTypeOK, LoginTypeOK', NEW c \in LoginCodes, LoginCounted(c),
         guessed'[c] = guessed[c],
         opened'[c] + Cardinality(Signing'[c]) <= opened[c] + Cardinality(Signing[c]),
         madeFor[c] # None => madeFor'[c] # None,
         madeFor'[c] = None => opened'[c] = 0,
         \A t \in Nat, k \in Handlers : WrongHeld(req'[k], c, t) =>
            \/ WrongHeld(req[k], c, t)
            \/ \E u \in Members : LoginAllows(login2FA[u], c, t),
         \A t \in Nat, k \in Handlers : RightHeld(req'[k], c, t) =>
            \/ RightHeld(req[k], c, t)
            \/ \E u \in Members : LoginAllows(login2FA[u], c, t),
         \A t \in Nat, u \in Members : LoginAllows(login2FA'[u], c, t) =>
            \E v \in Members : LoginAllows(login2FA[v], c, t)
  PROVE  LoginCounted(c)'
<1> DEFINE H == GuessHolders[c]   G == GuessHolders'[c]
           I == UseHolders[c]     J == UseHolders'[c]
           A == LoginAllowed[c]   B == LoginAllowed'[c]
           W == opened[c] + Cardinality(Signing[c])
           V == opened'[c] + Cardinality(Signing'[c])
           g == guessed[c]
<1>1. /\ g \in Nat /\ W \in Nat /\ LoginAttempts \in Nat
      /\ One \in [Nat -> Nat] /\ OneAtFirst \in [Nat -> Nat]
  BY LoginNumbers
<1>2. V \in Nat
  <2>1. Signing'[c] \in SUBSET Handlers BY DEF Signing
  <2>2. Cardinality(Signing'[c]) \in Nat BY <2>1, HandlerCount
  <2>3. opened'[c] \in Nat BY DEF LoginTypeOK
  <2>q. QED BY <2>2, <2>3
<1>3. Ladder(Answers, Spent(H, A), g, LoginAttempts) /\ Ladder(Uses, Spent(I, A), W, LoginAttempts)
  BY DEF LoginCounted
<1>4. ASSUME NEW t \in Nat
      PROVE  /\ t \in B => t \in A
             /\ \A k \in Handlers : k \in G[t] => k \in H[t] \/ t \in A
             /\ \A k \in Handlers : k \in J[t] => k \in I[t] \/ t \in A
  <2>1. \A k \in Handlers :
            /\ k \in H[t] <=> WrongHeld(req[k], c, t)
            /\ k \in I[t] <=> WrongHeld(req[k], c, t) \/ RightHeld(req[k], c, t)
            /\ k \in G[t] <=> WrongHeld(req'[k], c, t)
            /\ k \in J[t] <=> WrongHeld(req'[k], c, t) \/ RightHeld(req'[k], c, t)
    BY LoginHolders
  <2>2. /\ t \in A <=> \E u \in Members : LoginAllows(login2FA[u], c, t)
        /\ t \in B <=> \E u \in Members : LoginAllows(login2FA'[u], c, t)
    BY DEF LoginAllowed
  <2> HIDE DEF H, G, I, J, A, B
  <2>q. QED BY <2>1, <2>2
<1>5. V <= W /\ g <= g BY <1>1
<1> HIDE DEF H, G, I, J, A, B, W, V, g
<1>6. Ladder(Answers, Spent(G, B), g, LoginAttempts)
  BY <1>1, <1>3, <1>4, <1>5, AnswersIsTable, SpentStays
<1>7. Ladder(Uses, Spent(J, B), V, LoginAttempts)
  BY <1>1, <1>2, <1>3, <1>4, <1>5, UsesIsTable, SpentStays
<1>8. madeFor'[c] = None => guessed'[c] = 0 /\ opened'[c] = 0 BY DEF LoginCounted
<1>q. QED BY <1>6, <1>7, <1>8 DEF LoginCounted, G, J, B, V, g

(* A code that was not made before nobody guesses at.                      *)
LEMMA LoginCountStarts ==
  ASSUME LoginTypeOK, NEW c \in LoginCodes, LoginCounted(c), madeFor[c] = None,
         guessed'[c] = guessed[c], opened'[c] = opened[c], Signing'[c] = {}
  PROVE  LoginCounted(c)'
<1>1. LoginAttempts \in Nat /\ One \in [Nat -> Nat] /\ OneAtFirst \in [Nat -> Nat]
  BY LoginNumbers
<1>2. guessed'[c] = 0 /\ opened'[c] = 0 BY DEF LoginCounted
<1>3. opened'[c] + Cardinality(Signing'[c]) = 0
  <2>1. Cardinality({}) = 0 BY FS_EmptySet
  <2>q. QED BY <1>2, <2>1
<1> DEFINE G == GuessHolders'[c]   J == UseHolders'[c]   B == LoginAllowed'[c]
<1> HIDE DEF G, J, B
<1>4. Ladder(Answers, Spent(G, B), 0, LoginAttempts) BY <1>1, AnswersIsTable, SpentStarts
<1>5. Ladder(Uses, Spent(J, B), 0, LoginAttempts) BY <1>1, UsesIsTable, SpentStarts
<1>q. QED BY <1>2, <1>3, <1>4, <1>5 DEF LoginCounted, G, J, B

(* The backing is kept when codes are not made again.                      *)
LEMMA LoginBackingIsKept ==
  ASSUME LoginInv, LoginCodesInv,
         \A c \in LoginCodes : madeFor[c] # None => madeFor'[c] = madeFor[c],
         \A u \in Members :
            \/ login2FA'[u] = None
            \/ login2FA[u] # None /\ login2FA'[u].code = login2FA[u].code
            \/ LoginCodeIsFor(login2FA[u].code, u)',
         \A k \in Handlers : \/ req'[k] = req[k]
                             \/ AnswerIsBacked(req[k])'
  PROVE  AnswersAreBacked' /\ LoginCodesAreFor'
<1>t. LoginTypeOK /\ AnswersAreBacked /\ LoginCodesAreFor BY DEF LoginInv, LoginCodesInv
<1>1. ASSUME NEW u \in Members, NEW c, LoginCodeIsFor(c, u)
      PROVE  c \in LoginCodes /\ madeFor'[c] = u
  BY <1>1, LoginNone DEF LoginCodeIsFor
<1>2. AnswersAreBacked'
  <2> SUFFICES ASSUME NEW k \in Handlers PROVE AnswerIsBacked(req[k])'
    BY DEF AnswersAreBacked
  <2>1. CASE req'[k] = req[k]
    <3>1. AnswerIsBacked(req[k]) BY <1>t DEF AnswersAreBacked
    <3>2. req[k] = Idle \/ req[k].user \in Members BY <1>t, LoginRequestKinds DEF LoginTypeOK
    <3>q. QED BY <1>1, <2>1, <3>1, <3>2 DEF AnswerIsBacked, LoginCodeIsFor, Idle
  <2>q. QED BY <2>1
<1>3. LoginCodesAreFor' BY <1>t, <1>1 DEF LoginCodesAreFor, LoginCodeIsFor
<1>q. QED BY <1>2, <1>3

(* A step that neither counts a wrong guess nor uses a right one.          *)
LEMMA LoginCodesQuiet ==
  ASSUME LoginInv, LoginInv', LoginCodesInv,
         UNCHANGED <<guessed, opened>>,
         \A c \in LoginCodes : madeFor[c] # None => madeFor'[c] = madeFor[c],
         \A u \in Members :
            \/ login2FA'[u] = None
            \/ /\ login2FA[u] # None
               /\ login2FA'[u].code = login2FA[u].code
               /\ login2FA'[u].attempts = login2FA[u].attempts
            \/ madeFor[login2FA'[u].code] = None /\ LoginCodeIsFor(login2FA[u].code, u)',
         \A k \in Handlers :
            \/ req'[k] = req[k]
            \/ req'[k].pc \notin {"login.drop", "login.count", "login.used", "login.user"}
            \/ \E u \in Members :
                /\ login2FA[u] # None
                /\ req'[k].code = login2FA[u].code
                /\ req'[k].attempts = login2FA[u].attempts
                /\ req'[k].user = u
                /\ req'[k].pc \in {"login.drop", "login.count", "login.used"}
                /\ req'[k].pc \in {"login.count", "login.used"} =>
                        login2FA[u].attempts < LoginAttempts
  PROVE  LoginCodesInv'
<1>t. LoginTypeOK /\ LoginTypeOK' /\ AnswersAreBacked /\ LoginCodesAreFor
  BY DEF LoginInv, LoginCodesInv
<1>1. \A k \in Handlers : req'[k] = req[k] \/ AnswerIsBacked(req[k])'
  <2> SUFFICES ASSUME NEW k \in Handlers, req'[k] # req[k] PROVE AnswerIsBacked(req[k])'
    OBVIOUS
  <2>1. CASE req'[k].pc \notin {"login.drop", "login.count", "login.used", "login.user"}
    BY <2>1 DEF AnswerIsBacked
  <2>2. ASSUME NEW u \in Members, login2FA[u] # None,
               req'[k].code = login2FA[u].code, req'[k].attempts = login2FA[u].attempts,
               req'[k].user = u,
               req'[k].pc \in {"login.count", "login.used"} => login2FA[u].attempts < LoginAttempts
        PROVE  AnswerIsBacked(req[k])'
    <3>1. LoginCodeIsFor(login2FA[u].code, u) BY <1>t, <2>2 DEF LoginCodesAreFor
    <3>2. req'[k].code \in LoginCodes /\ madeFor'[req'[k].code] = req'[k].user
      BY <2>2, <3>1, LoginNone DEF LoginCodeIsFor
    <3>q. QED BY <2>2, <3>2 DEF AnswerIsBacked, LoginCodeIsFor
  <2>q. QED BY <2>1, <2>2
<1>2. AnswersAreBacked' /\ LoginCodesAreFor' BY <1>1, LoginBackingIsKept
<1>3. ASSUME NEW c \in LoginCodes PROVE LoginCounted(c)'
  <2>1. LoginCounted(c) BY DEF LoginCodesInv
  <2>2. \A k \in Handlers : req'[k].pc = "login.user" => req'[k] = req[k] OBVIOUS
  <2>3. Signing'[c] \subseteq Signing[c] BY <2>2 DEF Signing
  <2>4. CASE madeFor[c] = None
    <3>1. Signing[c] = {}
      <4> SUFFICES ASSUME NEW k \in Handlers, req[k].pc = "login.user", req[k].code = c
                   PROVE  FALSE
        BY DEF Signing
      <4>1. madeFor[c] = req[k].user BY <1>t DEF AnswersAreBacked, AnswerIsBacked, LoginCodeIsFor
      <4>2. req[k] = Idle \/ req[k].user \in Members BY <1>t, LoginRequestKinds DEF LoginTypeOK
      <4>q. QED BY <2>4, <4>1, <4>2, LoginNone DEF Idle
    <3>2. Signing'[c] = {} BY <2>3, <3>1
    <3>q. QED BY <1>t, <2>1, <2>4, <3>2, LoginCountStarts
  <2>5. CASE madeFor[c] # None
    <3>1. opened'[c] + Cardinality(Signing'[c]) <= opened[c] + Cardinality(Signing[c])
      <4> DEFINE s == Cardinality(Signing[c])
                 r == Cardinality(Signing'[c])
      <4>1. Signing[c] \in SUBSET Handlers /\ s \in Nat /\ opened[c] \in Nat
        BY <1>t, LoginNumbers
      <4>2. r <= s BY <2>3, <4>1, FewerHandlers
      <4>3. r \in Nat
        <5>1. Signing'[c] \in SUBSET Handlers BY DEF Signing
        <5>q. QED BY <5>1, HandlerCount
      <4> HIDE DEF s, r
      <4>4. opened'[c] + r <= opened[c] + s BY <4>1, <4>2, <4>3
      <4>q. QED BY <4>4 DEF s, r
    <3>2. ASSUME NEW t \in Nat, NEW u \in Members, LoginAllows(login2FA'[u], c, t)
          PROVE  \E v \in Members : LoginAllows(login2FA[v], c, t)
      BY <2>5, <3>2 DEF LoginAllows
    <3>3. ASSUME NEW t \in Nat, NEW k \in Handlers, WrongHeld(req'[k], c, t)
          PROVE  \/ WrongHeld(req[k], c, t)
                 \/ \E u \in Members : LoginAllows(login2FA[u], c, t)
      <4>1. CASE req'[k] = req[k] BY <3>3, <4>1
      <4>2. CASE req'[k] # req[k] BY <3>3, <4>2 DEF WrongHeld, LoginAllows
      <4>q. QED BY <4>1, <4>2
    <3>4. ASSUME NEW t \in Nat, NEW k \in Handlers, RightHeld(req'[k], c, t)
          PROVE  \/ RightHeld(req[k], c, t)
                 \/ \E u \in Members : LoginAllows(login2FA[u], c, t)
      <4>1. CASE req'[k] = req[k] BY <3>4, <4>1
      <4>2. CASE req'[k] # req[k]
        <5>1. PICK u \in Members : /\ login2FA[u] # None /\ login2FA[u].code = c
                                   /\ login2FA[u].attempts < LoginAttempts
          BY <3>4, <4>2 DEF RightHeld
        <5>2. login2FA[u].attempts + t < LoginAttempts
          <6>1. login2FA[u].attempts \in Nat BY <1>t, <5>1 DEF LoginTypeOK, Login2FA
          <6>q. QED BY <3>4, <5>1, <6>1 DEF RightHeld
        <5>q. QED BY <5>1, <5>2 DEF LoginAllows
      <4>q. QED BY <4>1, <4>2
    <3>5. /\ madeFor[c] # None => madeFor'[c] # None
          /\ madeFor'[c] = None => opened'[c] = 0
      BY <2>5
    <3>q. QED BY <1>t, <2>1, <3>1, <3>2, <3>3, <3>4, <3>5, LoginCountIsKept
  <2>q. QED BY <2>4, <2>5
<1>q. QED BY <1>2, <1>3 DEF LoginCodesInv

(* A wrong guess is counted: it climbs the ladder of the answers at its    *)
(* rung, and brings nothing new to that of the uses.                       *)
LEMMA LoginGuessCounted ==
  ASSUME LoginInv, LoginInv', LoginCodesInv, NEW h \in Handlers, CountWrongLogin(h)
  PROVE  LoginCodesInv'
<1>t. LoginTypeOK /\ LoginTypeOK' /\ AnswersAreBacked /\ LoginCodesAreFor
  BY DEF LoginInv, LoginCodesInv
<1>1. /\ req'[h] = Idle
      /\ \A k \in Handlers \ {h} : req'[k] = req[k]
  BY <1>t, DoneChange DEF CountWrongLogin, LoginTypeOK
<1>2. /\ req[h].pc = "login.count" /\ req[h] \in Answering
      /\ LoginCodeIsFor(req[h].code, req[h].user) /\ req[h].attempts < LoginAttempts
  <2>1. req[h].pc = "login.count" /\ req[h] \in LoginRequest
    BY <1>t DEF CountWrongLogin, At, Idle, LoginTypeOK
  <2>q. QED BY <1>t, <2>1, LoginRequestKinds DEF AnswersAreBacked, AnswerIsBacked
<1> DEFINE g == req[h].code
           a == req[h].attempts
           u == req[h].user
           new == [code |-> g, attempts |-> a + 1, left |-> LoginLife]
<1>3. u \in Members /\ g \in LoginCodes /\ a \in 0..LoginAttempts /\ a < LoginAttempts
      /\ LoginAttempts \in Nat
  BY <1>2, LoginAssumption DEF Answering
<1>4. /\ login2FA' = [login2FA EXCEPT ![u] = new]
      /\ guessed' = [guessed EXCEPT ![g] = @ + 1]
      /\ UNCHANGED <<madeFor, opened>>
  BY DEF CountWrongLogin, made
<1>5. new.code = g /\ new.attempts = a + 1 /\ new # None
  <2>1. new \in Login2FA BY <1>3, LoginAssumption DEF Login2FA
  <2>q. QED BY <2>1, LoginNone
<1>6. madeFor[g] = u BY <1>2 DEF LoginCodeIsFor
<1>7. req[h].pc = "login.count" /\ req[h].code = g /\ req[h].attempts = a BY <1>2
<1> HIDE DEF g, a, new, u
<1>8. \A v \in Members : login2FA'[v] = IF v = u THEN new ELSE login2FA[v]
  BY <1>3, <1>4, <1>t DEF LoginTypeOK
<1>9. \A c \in LoginCodes : guessed'[c] = IF c = g THEN guessed[g] + 1 ELSE guessed[c]
  BY <1>3, <1>4, <1>t DEF LoginTypeOK
<1>10. AnswersAreBacked' /\ LoginCodesAreFor'
  <2>1. \A k \in Handlers : req'[k] = req[k] \/ AnswerIsBacked(req[k])'
    BY <1>1 DEF AnswerIsBacked, Idle
  <2>2. \A v \in Members : login2FA'[v] = login2FA[v] \/ LoginCodeIsFor(login2FA[v].code, v)'
    BY <1>3, <1>4, <1>5, <1>6, <1>8 DEF LoginCodeIsFor
  <2>3. \A c \in LoginCodes : madeFor[c] # None => madeFor'[c] = madeFor[c] BY <1>4
  <2>4. \A v \in Members : \/ login2FA'[v] = None
                           \/ login2FA[v] # None /\ login2FA'[v].code = login2FA[v].code
                           \/ LoginCodeIsFor(login2FA[v].code, v)'
    BY <2>2
  <2>q. QED BY <2>1, <2>3, <2>4, LoginBackingIsKept
<1>11. /\ \A k \in Handlers, t \in Nat, c \in LoginCodes :
             WrongHeld(req'[k], c, t) => k # h /\ WrongHeld(req[k], c, t)
       /\ \A k \in Handlers, t \in Nat, c \in LoginCodes :
             RightHeld(req'[k], c, t) => k # h /\ RightHeld(req[k], c, t)
  BY <1>1 DEF WrongHeld, RightHeld, Idle
<1>12. \A c \in LoginCodes : Signing'[c] = Signing[c]
  BY <1>1, <1>7 DEF Signing, Idle
<1>13. ASSUME NEW c \in LoginCodes PROVE LoginCounted(c)'
  <2>1. LoginCounted(c) BY DEF LoginCodesInv
  <2>2. /\ guessed[c] \in Nat /\ opened[c] + Cardinality(Signing[c]) \in Nat
        /\ One \in [Nat -> Nat] /\ OneAtFirst \in [Nat -> Nat]
    BY <1>t, LoginNumbers
  <2>3. opened'[c] + Cardinality(Signing'[c]) = opened[c] + Cardinality(Signing[c])
    BY <1>4, <1>12
  (* Only the member g was made for has it in a key.                       *)
  <2>4. ASSUME NEW v \in Members, NEW t \in Nat, LoginAllows(login2FA'[v], c, t)
        PROVE  \/ v # u /\ c # g /\ LoginAllows(login2FA[v], c, t)
               \/ v = u /\ c = g /\ a + 1 + t < LoginAttempts
    <3>1. CASE v = u BY <1>5, <1>8, <2>4, <3>1 DEF LoginAllows
    <3>2. CASE v # u
      <4>1. login2FA'[v] = login2FA[v] BY <1>8, <3>2
      <4>2. login2FA[v] # None => madeFor[login2FA[v].code] = v
        BY <1>t DEF LoginCodesAreFor, LoginCodeIsFor
      <4>q. QED BY <1>6, <2>4, <3>2, <4>1, <4>2 DEF LoginAllows
    <3>q. QED BY <3>1, <3>2
  <2>5. CASE c # g
    <3>1. \A t \in Nat, v \in Members : LoginAllows(login2FA'[v], c, t) =>
            \E w \in Members : LoginAllows(login2FA[w], c, t)
      BY <2>4, <2>5
    <3>2. guessed'[c] = guessed[c] BY <1>9, <2>5
    <3>3. opened'[c] + Cardinality(Signing'[c]) <= opened[c] + Cardinality(Signing[c])
      BY <2>2, <2>3
    <3>4. /\ madeFor[c] # None => madeFor'[c] # None
          /\ madeFor'[c] = None => opened'[c] = 0
      BY <1>4, <2>1 DEF LoginCounted
    <3>q. QED BY <1>t, <1>11, <2>1, <3>1, <3>2, <3>3, <3>4, LoginCountIsKept
  <2>6. CASE c = g
    <3> DEFINE d == LoginAttempts - a
    <3>d. d \in 1..LoginAttempts /\ d - 1 \in Nat /\ a + (d - 1) < LoginAttempts
      BY <1>3
    <3>n. \A t \in Nat : /\ a + 1 + t < LoginAttempts => t < d - 1
                         /\ t < d - 1 => \A n \in Nat : n + (d - 1) < LoginAttempts =>
                                                        n + t < LoginAttempts
      BY <1>3
    <3> HIDE DEF d
    <3> DEFINE H == GuessHolders[c]   G == GuessHolders'[c]
               I == UseHolders[c]     J == UseHolders'[c]
               A == LoginAllowed[c]   B == LoginAllowed'[c]
    <3>1. \A t \in Nat, k \in Handlers :
              /\ k \in H[t] <=> WrongHeld(req[k], c, t)
              /\ k \in I[t] <=> WrongHeld(req[k], c, t) \/ RightHeld(req[k], c, t)
              /\ k \in G[t] <=> WrongHeld(req'[k], c, t)
              /\ k \in J[t] <=> WrongHeld(req'[k], c, t) \/ RightHeld(req'[k], c, t)
      BY LoginHolders
    <3>2. \A t \in Nat :
              /\ t \in A <=> \E v \in Members : LoginAllows(login2FA[v], c, t)
              /\ t \in B <=> \E v \in Members : LoginAllows(login2FA'[v], c, t)
      BY DEF LoginAllowed
    <3>3. /\ Ladder(Answers, Spent(H, A), guessed[c], LoginAttempts)
          /\ Ladder(Uses, Spent(I, A), opened[c] + Cardinality(Signing[c]), LoginAttempts)
      BY <2>1 DEF LoginCounted
    <3> HIDE DEF H, G, I, J, A, B
    (* Who holds a guess with more attempts left holds one with fewer.     *)
    <3>4. ASSUME NEW t \in Nat, t < d - 1, NEW k \in Handlers, WrongHeld(req[k], c, d - 1)
          PROVE  WrongHeld(req[k], c, t)
      <4>1. req[k].attempts \in Nat
        <5>1. req[k] \in LoginRequest BY <1>t, <3>4 DEF LoginTypeOK, WrongHeld, Idle
        <5>q. QED BY <3>4, <5>1, LoginRequestKinds DEF WrongHeld, Answering
      <4>q. QED BY <3>4, <3>n, <4>1 DEF WrongHeld
    <3>5. ASSUME NEW t \in Nat, t < d - 1, d - 1 \in A PROVE t \in A
      <4>1. PICK v \in Members : LoginAllows(login2FA[v], c, d - 1) BY <3>2, <3>5, <3>d
      <4>2. login2FA[v].attempts \in Nat BY <1>t, <4>1 DEF LoginTypeOK, Login2FA, LoginAllows
      <4>3. LoginAllows(login2FA[v], c, t) BY <3>5, <3>n, <4>1, <4>2 DEF LoginAllows
      <4>q. QED BY <3>2, <4>3
    <3>6. \A t \in Nat : t \in B => t < d - 1 BY <2>4, <2>6, <3>2, <3>n
    <3>7. /\ h \in H[d - 1] /\ h \notin G[d - 1] /\ h \in I[d - 1] /\ h \notin J[d - 1]
      <4>1. WrongHeld(req[h], c, d - 1) BY <1>7, <2>6, <3>d DEF WrongHeld
      <4>q. QED BY <1>11, <3>1, <3>d, <4>1
    <3>8. \A t \in Nat, k \in Handlers : /\ k \in G[t] => k \in H[t]
                                         /\ k \in J[t] => k \in I[t]
      BY <1>11, <3>1
    <3>9. ASSUME NEW t \in Nat, t < d - 1, NEW k \in Handlers
          PROVE  /\ k \in H[d - 1] => k \in H[t]
                 /\ k \in I[d - 1] => k \in I[t]
      <4>1. ~RightHeld(req[k], c, d - 1) BY <3>9, <3>d DEF RightHeld
      <4>q. QED BY <3>1, <3>4, <3>9, <3>d, <4>1
    <3>10. 1 \in Nat /\ 1 <= One[d - 1] /\ 0 \in Nat /\ 0 <= OneAtFirst[d - 1]
      BY <3>d DEF One, OneAtFirst
    <3> DEFINE W == opened[c] + Cardinality(Signing[c])
    <3>11. W \in Nat /\ W + 0 = W /\ Ladder(Uses, Spent(I, A), W, LoginAttempts)
      BY <2>2, <3>3
    <3> HIDE DEF W
    <3>12. Ladder(Answers, Spent(G, B), guessed[c] + 1, LoginAttempts)
      <4>1. /\ h \in H[d - 1] /\ h \notin G[d - 1]
            /\ \A t \in Nat : \A k \in Handlers : k \in G[t] => k \in H[t]
            /\ \A t \in Nat : t < d - 1 => \A k \in Handlers : k \in H[d - 1] => k \in H[t]
            /\ \A t \in Nat : t < d - 1 /\ d - 1 \in A => t \in A
        BY <3>5, <3>7, <3>8, <3>9
      <4>q. QED BY <1>3, <2>2, <3>d, <3>3, <3>6, <3>10, <4>1, AnswersIsTable, SpentClimbs
    <3>13. Ladder(Uses, Spent(J, B), W + 0, LoginAttempts)
      <4>1. /\ h \in I[d - 1] /\ h \notin J[d - 1]
            /\ \A t \in Nat : \A k \in Handlers : k \in J[t] => k \in I[t]
            /\ \A t \in Nat : t < d - 1 => \A k \in Handlers : k \in I[d - 1] => k \in I[t]
            /\ \A t \in Nat : t < d - 1 /\ d - 1 \in A => t \in A
        BY <3>5, <3>7, <3>8, <3>9
      <4>q. QED BY <1>3, <2>2, <3>d, <3>11, <3>6, <3>10, <4>1, UsesIsTable, SpentClimbs
    <3>14. madeFor'[c] # None BY <1>3, <1>4, <1>6, <2>6, LoginNone
    <3>15. guessed'[c] = guessed[c] + 1 BY <1>9, <2>6
    <3>q. QED BY <2>3, <3>11, <3>12, <3>13, <3>14, <3>15 DEF LoginCounted, G, J, B, W
  <2>q. QED BY <2>5, <2>6
<1>q. QED BY <1>10, <1>13 DEF LoginCodesInv

(* A right guess deletes the key and will open a session: it climbs the    *)
(* lowest rung of the uses.                                                *)
LEMMA LoginCodeUsed ==
  ASSUME LoginInv, LoginInv', LoginCodesInv, NEW h \in Handlers, DeleteLoginCode(h)
  PROVE  LoginCodesInv'
<1>t. LoginTypeOK /\ LoginTypeOK' /\ AnswersAreBacked /\ LoginCodesAreFor
  BY DEF LoginInv, LoginCodesInv
<1>2. /\ req[h].pc = "login.used" /\ req[h] \in Answering
      /\ LoginCodeIsFor(req[h].code, req[h].user) /\ req[h].attempts < LoginAttempts
  <2>1. req[h].pc = "login.used" /\ req[h] \in LoginRequest
    BY <1>t DEF DeleteLoginCode, At, Idle, LoginTypeOK
  <2>q. QED BY <1>t, <2>1, LoginRequestKinds DEF AnswersAreBacked, AnswerIsBacked
<1> DEFINE g == req[h].code
           u == req[h].user
           r == [req[h] EXCEPT !.pc = "login.user"]
<1>1. /\ req'[h] = r
      /\ \A k \in Handlers \ {h} : req'[k] = req[k]
  BY <1>t, StepChange DEF DeleteLoginCode, LoginTypeOK
<1>3. u \in Members /\ g \in LoginCodes /\ LoginAttempts \in Nat /\ 1 \in 1..LoginAttempts
  <2>1. req[h].attempts \in 0..LoginAttempts /\ u \in Members /\ g \in LoginCodes
    BY <1>2 DEF Answering
  <2>q. QED BY <1>2, <2>1, LoginAssumption
<1>4. /\ login2FA' = [login2FA EXCEPT ![u] = None]
      /\ UNCHANGED <<madeFor, guessed, opened>>
  BY DEF DeleteLoginCode, made, history
<1>5. r.pc = "login.user" /\ r.code = g /\ r.user = u BY <1>2 DEF Answering
<1>6. madeFor[g] = u BY <1>2 DEF LoginCodeIsFor
<1>7. req[h].pc = "login.used" /\ req[h].code = g BY <1>2
<1> HIDE DEF g, u, r
<1>8. \A v \in Members : login2FA'[v] = IF v = u THEN None ELSE login2FA[v]
  BY <1>3, <1>4, <1>t DEF LoginTypeOK
<1>10. AnswersAreBacked' /\ LoginCodesAreFor'
  <2>1. AnswerIsBacked(req[h])'
    BY <1>1, <1>3, <1>4, <1>5, <1>6 DEF AnswerIsBacked, LoginCodeIsFor
  <2>2. \A k \in Handlers : req'[k] = req[k] \/ AnswerIsBacked(req[k])' BY <1>1, <2>1
  <2>3. \A v \in Members : \/ login2FA'[v] = None
                           \/ login2FA[v] # None /\ login2FA'[v].code = login2FA[v].code
                           \/ LoginCodeIsFor(login2FA[v].code, v)'
    BY <1>8
  <2>4. \A c \in LoginCodes : madeFor[c] # None => madeFor'[c] = madeFor[c] BY <1>4
  <2>q. QED BY <2>2, <2>3, <2>4, LoginBackingIsKept
<1>11. \A k \in Handlers, t \in Nat, c \in LoginCodes :
          /\ WrongHeld(req'[k], c, t) => k # h /\ WrongHeld(req[k], c, t)
          /\ RightHeld(req'[k], c, t) => k # h /\ RightHeld(req[k], c, t)
  BY <1>1, <1>5 DEF WrongHeld, RightHeld
<1>12. \A c \in LoginCodes : Signing'[c] = IF c = g THEN Signing[g] \cup {h} ELSE Signing[c]
  BY <1>1, <1>3, <1>5, <1>7 DEF Signing
<1>13. ASSUME NEW c \in LoginCodes PROVE LoginCounted(c)'
  <2>1. LoginCounted(c) BY DEF LoginCodesInv
  <2>2. /\ guessed[c] \in Nat /\ opened[c] \in Nat
        /\ opened[c] + Cardinality(Signing[c]) \in Nat
        /\ Signing[c] \in SUBSET Handlers /\ Cardinality(Signing[c]) \in Nat
        /\ One \in [Nat -> Nat] /\ OneAtFirst \in [Nat -> Nat]
    BY <1>t, LoginNumbers
  (* Only the member g was made for had it in a key.                       *)
  <2>4. ASSUME NEW v \in Members, NEW t \in Nat, LoginAllows(login2FA'[v], c, t)
        PROVE  c # g /\ LoginAllows(login2FA[v], c, t)
    <3>1. v # u /\ login2FA'[v] = login2FA[v] BY <1>8, <2>4 DEF LoginAllows
    <3>2. login2FA[v] # None => madeFor[login2FA[v].code] = v
      BY <1>t DEF LoginCodesAreFor, LoginCodeIsFor
    <3>q. QED BY <1>6, <2>4, <3>1, <3>2 DEF LoginAllows
  <2>5. CASE c # g
    <3>1. opened'[c] + Cardinality(Signing'[c]) <= opened[c] + Cardinality(Signing[c])
      BY <1>4, <1>12, <2>2, <2>5
    <3>2. /\ madeFor[c] # None => madeFor'[c] # None
          /\ madeFor'[c] = None => opened'[c] = 0
          /\ guessed'[c] = guessed[c]
      BY <1>4, <2>1 DEF LoginCounted
    <3>q. QED BY <1>t, <1>11, <2>1, <2>4, <3>1, <3>2, LoginCountIsKept
  <2>6. CASE c = g
    <3> DEFINE H == GuessHolders[c]   G == GuessHolders'[c]
               I == UseHolders[c]     J == UseHolders'[c]
               A == LoginAllowed[c]   B == LoginAllowed'[c]
               W == opened[c] + Cardinality(Signing[c])
    <3>1. \A t \in Nat, k \in Handlers :
              /\ k \in H[t] <=> WrongHeld(req[k], c, t)
              /\ k \in I[t] <=> WrongHeld(req[k], c, t) \/ RightHeld(req[k], c, t)
              /\ k \in G[t] <=> WrongHeld(req'[k], c, t)
              /\ k \in J[t] <=> WrongHeld(req'[k], c, t) \/ RightHeld(req'[k], c, t)
      BY LoginHolders
    <3>2. \A t \in Nat : t \notin B BY <2>4, <2>6 DEF LoginAllowed
    <3>3. /\ Ladder(Answers, Spent(H, A), guessed[c], LoginAttempts)
          /\ Ladder(Uses, Spent(I, A), W, LoginAttempts)
      BY <2>1 DEF LoginCounted
    <3>w. W \in Nat BY <2>2
    <3> HIDE DEF H, G, I, J, A, B, W
    <3> DEFINE d == 1
    <3>4. /\ d \in 1..LoginAttempts /\ d - 1 = 0 /\ 0 \in Nat
          /\ 1 \in Nat /\ 1 <= OneAtFirst[d - 1]
          /\ \A t \in Nat : ~(t < d - 1)
      BY <1>3 DEF OneAtFirst
    <3> HIDE DEF d
    <3>5. h \in I[d - 1] /\ h \notin J[d - 1]
      <4>1. RightHeld(req[h], c, 0) BY <1>7, <2>6 DEF RightHeld
      <4>2. ~WrongHeld(req'[h], c, 0) /\ ~RightHeld(req'[h], c, 0) BY <1>11, <3>4
      <4>q. QED BY <3>1, <3>4, <4>1, <4>2
    <3>6. \A t \in Nat : \A k \in Handlers : k \in J[t] => k \in I[t] BY <1>11, <3>1
    <3>7. Ladder(Uses, Spent(J, B), W + 1, LoginAttempts)
      <4>1. /\ \A t \in Nat : t < d - 1 => \A k \in Handlers : k \in I[d - 1] => k \in I[t]
            /\ \A t \in Nat : t < d - 1 /\ d - 1 \in A => t \in A
            /\ \A t \in Nat : t \in B => t < d - 1
        BY <3>2, <3>4
      <4>q. QED BY <1>3, <2>2, <3>w, <3>3, <3>4, <3>5, <3>6, <4>1, UsesIsTable, SpentClimbs
    <3>8. \A t \in Nat : /\ t \in B => t \in A
                         /\ \A k \in Handlers : k \in G[t] => k \in H[t] \/ t \in A
      BY <1>11, <3>1, <3>2
    <3>9. Ladder(Answers, Spent(G, B), guessed[c], LoginAttempts)
      <4>1. guessed[c] <= guessed[c] BY <2>2
      <4>q. QED BY <1>3, <2>2, <3>3, <3>8, <4>1, AnswersIsTable, SpentStays
    <3>10. opened'[c] + Cardinality(Signing'[c]) = W + 1
      <4> DEFINE s == Cardinality(Signing[c])
      <4>1. h \notin Signing[c] BY <1>7 DEF Signing
      <4>2. Cardinality(Signing'[c]) = s + 1 BY <1>12, <2>2, <2>6, <4>1, OneMoreHandler
      <4>3. opened'[c] = opened[c] /\ s \in Nat /\ opened[c] \in Nat BY <1>4, <2>2
      <4> HIDE DEF s
      <4>4. opened'[c] + (s + 1) = (opened[c] + s) + 1 BY <4>3
      <4>q. QED BY <4>2, <4>4 DEF s, W
    <3>11. madeFor'[c] # None BY <1>3, <1>4, <1>6, <2>6, LoginNone
    <3>q. QED BY <1>4, <3>7, <3>9, <3>10, <3>11 DEF LoginCounted, G, J, B
  <2>q. QED BY <2>5, <2>6
<1>q. QED BY <1>10, <1>13 DEF LoginCodesInv

(* The session that was certain is opened.                                 *)
LEMMA LoginIsSigned ==
  ASSUME LoginInv, LoginInv', LoginCodesInv, NEW h \in Handlers, SignAfterCode(h)
  PROVE  LoginCodesInv'
<1>t. LoginTypeOK /\ LoginTypeOK' /\ AnswersAreBacked /\ LoginCodesAreFor
  BY DEF LoginInv, LoginCodesInv
<1>1. /\ req'[h] = Idle
      /\ \A k \in Handlers \ {h} : req'[k] = req[k]
  BY <1>t, DoneChange DEF SignAfterCode, LoginTypeOK
<1>2. /\ req[h].pc = "login.user" /\ req[h].code \in LoginCodes /\ req[h].user \in Members
      /\ madeFor[req[h].code] = req[h].user
  <2>1. req[h].pc = "login.user" /\ req[h] \in LoginRequest
    BY <1>t DEF SignAfterCode, At, Idle, LoginTypeOK
  <2>q. QED BY <1>t, <2>1, LoginRequestKinds
        DEF AnswersAreBacked, AnswerIsBacked, LoginCodeIsFor, Answering
<1>3. /\ opened' = [opened EXCEPT ![req[h].code] = @ + 1]
      /\ UNCHANGED <<login2FA, madeFor, guessed>>
  BY DEF SignAfterCode, made, keys
<1>4. AnswersAreBacked' /\ LoginCodesAreFor'
  <2>1. \A k \in Handlers : req'[k] = req[k] \/ AnswerIsBacked(req[k])'
    BY <1>1 DEF AnswerIsBacked, Idle
  <2>2. \A v \in Members : \/ login2FA'[v] = None
                           \/ login2FA[v] # None /\ login2FA'[v].code = login2FA[v].code
                           \/ LoginCodeIsFor(login2FA[v].code, v)'
    BY <1>3
  <2>3. \A c \in LoginCodes : madeFor[c] # None => madeFor'[c] = madeFor[c] BY <1>3
  <2>q. QED BY <2>1, <2>2, <2>3, LoginBackingIsKept
<1>5. ASSUME NEW c \in LoginCodes PROVE LoginCounted(c)'
  <2>1. LoginCounted(c) BY DEF LoginCodesInv
  <2>2. \A k \in Handlers, t \in Nat : /\ WrongHeld(req'[k], c, t) => WrongHeld(req[k], c, t)
                                       /\ RightHeld(req'[k], c, t) => RightHeld(req[k], c, t)
    BY <1>1 DEF WrongHeld, RightHeld, Idle
  <2> DEFINE s == Cardinality(Signing[c])
             r == Cardinality(Signing'[c])
  <2>3. s \in Nat /\ opened[c] \in Nat /\ Signing[c] \in SUBSET Handlers BY <1>t, LoginNumbers
  <2>4. opened'[c] + r <= opened[c] + s
    <3>1. CASE c = req[h].code
      <4>1. h \in Signing[c] /\ Signing'[c] = Signing[c] \ {h}
        BY <1>1, <1>2, <3>1 DEF Signing, Idle
      <4>2. r = s - 1 BY <2>3, <4>1, OneHandlerLess
      <4>3. opened'[c] = opened[c] + 1 BY <1>t, <1>3, <3>1 DEF LoginTypeOK
      <4> HIDE DEF s, r
      <4>q. QED BY <2>3, <4>2, <4>3
    <3>2. CASE c # req[h].code
      <4>1. Signing'[c] = Signing[c] BY <1>1, <1>2, <3>2 DEF Signing, Idle
      <4>2. opened'[c] = opened[c] BY <1>t, <1>3, <3>2 DEF LoginTypeOK
      <4>3. r = s BY <4>1
      <4> HIDE DEF s, r
      <4>q. QED BY <2>3, <4>2, <4>3
    <3>q. QED BY <3>1, <3>2
  <2>5. /\ madeFor[c] # None => madeFor'[c] # None
        /\ madeFor'[c] = None => opened'[c] = 0
    <3>1. CASE c = req[h].code BY <1>2, <1>3, <3>1, LoginNone
    <3>2. CASE c # req[h].code
      BY <1>t, <1>3, <2>1, <3>2 DEF LoginTypeOK, LoginCounted
    <3>q. QED BY <3>1, <3>2
  <2>6. guessed'[c] = guessed[c] /\ login2FA' = login2FA BY <1>3
  <2>q. QED BY <1>t, <2>1, <2>2, <2>4, <2>5, <2>6, LoginCountIsKept
<1>q. QED BY <1>4, <1>5 DEF LoginCodesInv

(* The other calls of the handlers are quiet.                              *)
LEMMA LoginCodesStep ==
  ASSUME LoginInv, LoginInv', LoginCodesInv, NEW h \in Handlers, LoginHandler(h)
  PROVE  LoginCodesInv'
<1> USE DEF login, columns, keys, made, history
<1> DEFINE Verifying == {"login.drop", "login.count", "login.used", "login.user"}
<1>t. LoginTypeOK /\ LoginTypeOK' BY DEF LoginInv
<1>r. req \in [Handlers -> LoginRequest \cup {Idle}] BY <1>t DEF LoginTypeOK
<1>d. ASSUME Done(h) \/ Fail(h)
      PROVE  \A k \in Handlers : req'[k] = req[k] \/ req'[k].pc \notin Verifying
  BY <1>d, <1>r DEF Done, Fail, Idle
<1>s. ASSUME NEW pc, Step(h, pc), pc \notin Verifying, req[h] # Idle
      PROVE  \A k \in Handlers : req'[k] = req[k] \/ req'[k].pc \notin Verifying
  <2> DEFINE r == [req[h] EXCEPT !.pc = pc]
  <2>0. req[h] \in LoginRequest BY <1>r, <1>s
  <2>1. r.pc = pc BY <2>0 DEF LoginRequest
  <2>2. req' = [req EXCEPT ![h] = r] BY <1>s DEF Step
  <2> HIDE DEF r, Verifying
  <2>q. QED BY <1>r, <1>s, <2>1, <2>2
<1>b. ASSUME NEW r, Begin(h, r), r.pc \notin Verifying
      PROVE  \A k \in Handlers : req'[k] = req[k] \/ req'[k].pc \notin Verifying
  BY <1>b, <1>r DEF Begin
<1>i. ASSUME NEW pc, At(h, pc), pc # "idle" PROVE req[h] # Idle /\ req[h].pc = pc
  BY <1>i DEF At, Idle
(* Keys and counts stay, and nobody comes to verify.                       *)
<1>u. ASSUME UNCHANGED <<login2FA, madeFor, guessed, opened>>,
             \A k \in Handlers : req'[k] = req[k] \/ req'[k].pc \notin Verifying
      PROVE  LoginCodesInv'
  BY <1>u, LoginCodesQuiet
<1> HIDE DEF Verifying
<1>1. ASSUME NEW u \in Members, Login(h, u) PROVE LoginCodesInv'
  <2> DEFINE r == [pc |-> "login.password", user |-> u, second |-> u \in twoFactorEnabled]
  <2>1. Begin(h, r) /\ r.pc \notin Verifying BY <1>1 DEF Login, Verifying
  <2> HIDE DEF r
  <2>q. QED BY <1>1, <1>u, <1>b, <2>1 DEF Login
<1>2. CASE PasswordIsValid(h)
  <2> DEFINE r == [pc |-> "login.get", user |-> req[h].user, code |-> None]
  <2>1. Done(h) \/ Begin(h, r) BY <1>2 DEF PasswordIsValid
  <2>2. r.pc \notin Verifying BY DEF Verifying
  <2> HIDE DEF r
  <2>q. QED BY <1>2, <1>u, <1>b, <1>d, <2>1, <2>2 DEF PasswordIsValid
<1>3. CASE FindLoginCode(h)
  <2> DEFINE r == [req[h] EXCEPT !.pc = "login.mail", !.code = login2FA[req[h].user].code]
  <2>1. At(h, "login.get") BY <1>3 DEF FindLoginCode
  <2>2. req[h] # Idle /\ req[h] \in Making
    BY <1>i, <1>r, <2>1, LoginRequestKinds
  <2>3. r.pc \notin Verifying BY <2>2 DEF Making, Verifying
  <2>4. Step(h, "login.store") \/ Begin(h, r) BY <1>3 DEF FindLoginCode
  <2>5. "login.store" \notin Verifying BY DEF Verifying
  <2> HIDE DEF r
  <2>q. QED BY <1>3, <1>u, <1>b, <1>s, <2>2, <2>3, <2>4, <2>5 DEF FindLoginCode
<1>4. CASE StoreLoginCode(h)
  <2>0. At(h, "login.store") BY <1>4 DEF StoreLoginCode
  <2>1. req[h] \in Making /\ req[h].user \in Members
    BY <1>i, <1>r, <2>0, LoginRequestKinds
  <2>2. PICK c \in LoginCodes :
            /\ madeFor[c] = None
            /\ madeFor' = [madeFor EXCEPT ![c] = req[h].user]
            /\ login2FA' = [login2FA EXCEPT ![req[h].user] =
                                [code |-> c, attempts |-> 0, left |-> LoginLife]]
            /\ Begin(h, [req[h] EXCEPT !.pc = "login.mail", !.code = c])
    BY <1>4 DEF StoreLoginCode, IsNext
  <2> DEFINE r == [req[h] EXCEPT !.pc = "login.mail", !.code = c]
             new == [code |-> c, attempts |-> 0, left |-> LoginLife]
  <2>3. r.pc \notin Verifying BY <2>1 DEF Making, Verifying
  <2>4. Begin(h, r) BY <2>2
  <2>5. login2FA' = [login2FA EXCEPT ![req[h].user] = new] /\ new.code = c BY <2>2
  <2> HIDE DEF r, new
  <2>6. \A k \in Handlers : req'[k] = req[k] \/ req'[k].pc \notin Verifying
    BY <2>3, <2>4, <1>b
  <2>7. madeFor'[c] = req[h].user BY <1>t, <2>2 DEF LoginTypeOK
  <2>8. \A v \in Members :
            \/ login2FA'[v] = login2FA[v]
            \/ madeFor[login2FA'[v].code] = None /\ LoginCodeIsFor(login2FA[v].code, v)'
    BY <1>t, <2>1, <2>2, <2>5, <2>7 DEF LoginTypeOK, LoginCodeIsFor
  <2>9. \A v \in Members :
            \/ login2FA'[v] = None
            \/ /\ login2FA[v] # None
               /\ login2FA'[v].code = login2FA[v].code
               /\ login2FA'[v].attempts = login2FA[v].attempts
            \/ madeFor[login2FA'[v].code] = None /\ LoginCodeIsFor(login2FA[v].code, v)'
    BY <2>8
  <2>10. \A d \in LoginCodes : madeFor[d] # None => madeFor'[d] = madeFor[d]
    BY <1>t, <2>2 DEF LoginTypeOK
  <2>11. UNCHANGED <<guessed, opened>> BY <1>4 DEF StoreLoginCode
  <2>q. QED BY <2>6, <2>9, <2>10, <2>11, LoginCodesQuiet DEF Verifying
<1>5. CASE MailLoginCode(h) BY <1>5, <1>d, <1>u DEF MailLoginCode
<1>6. ASSUME NEW u \in Members, VerifyLogin2FA(h, u) PROVE LoginCodesInv'
  <2>1. PICK shown \in told.login \cup {None} :
          Begin(h, [pc |-> LoginVerdict(login2FA[u], shown), user |-> u,
                    code |-> login2FA[u].code, attempts |-> login2FA[u].attempts])
    BY <1>6 DEF VerifyLogin2FA
  <2> DEFINE r == [pc |-> LoginVerdict(login2FA[u], shown), user |-> u,
                   code |-> login2FA[u].code, attempts |-> login2FA[u].attempts]
  <2>2. login2FA[u] # None /\ login2FA[u].attempts \in 0..LoginAttempts
    BY <1>6, <1>t DEF VerifyLogin2FA, LoginTypeOK, Login2FA
  <2>3. /\ r.pc \in {"login.drop", "login.count", "login.used"}
        /\ r.pc \in {"login.count", "login.used"} => login2FA[u].attempts < LoginAttempts
    BY <2>2, LoginAssumption DEF LoginVerdict
  <2>4. /\ r.code = login2FA[u].code /\ r.attempts = login2FA[u].attempts /\ r.user = u
        /\ Begin(h, r)
    BY <2>1
  <2> HIDE DEF r
  <2>5. req'[h] = r /\ \A k \in Handlers \ {h} : req'[k] = req[k]
    BY <1>r, <2>4 DEF Begin
  <2>6. UNCHANGED <<login2FA, madeFor, guessed, opened>> BY <1>6 DEF VerifyLogin2FA
  <2>7. ASSUME NEW k \in Handlers
        PROVE  \/ req'[k] = req[k]
               \/ \E v \in Members :
                    /\ login2FA[v] # None
                    /\ req'[k].code = login2FA[v].code
                    /\ req'[k].attempts = login2FA[v].attempts
                    /\ req'[k].user = v
                    /\ req'[k].pc \in {"login.drop", "login.count", "login.used"}
                    /\ req'[k].pc \in {"login.count", "login.used"} =>
                            login2FA[v].attempts < LoginAttempts
    BY <2>2, <2>3, <2>4, <2>5
  <2>q. QED BY <2>6, <2>7, LoginCodesQuiet
<1>7. CASE DropLoginCode(h)
  <2>1. \A k \in Handlers : req'[k] = req[k] \/ req'[k].pc \notin Verifying
    BY <1>7, <1>d DEF DropLoginCode
  <2>2. /\ login2FA' = [login2FA EXCEPT ![req[h].user] = None]
        /\ UNCHANGED <<madeFor, guessed, opened>>
    BY <1>7 DEF DropLoginCode
  <2>3. \A v \in Members : login2FA'[v] = None \/ login2FA'[v] = login2FA[v]
    BY <1>t, <2>2 DEF LoginTypeOK
  <2>4. \A v \in Members : \/ login2FA'[v] = None
                           \/ /\ login2FA[v] # None
                              /\ login2FA'[v].code = login2FA[v].code
                              /\ login2FA'[v].attempts = login2FA[v].attempts
    BY <2>3
  <2>q. QED BY <2>1, <2>2, <2>4, LoginCodesQuiet DEF Verifying
<1>8. CASE CountWrongLogin(h) BY <1>8, LoginGuessCounted
<1>9. CASE DeleteLoginCode(h) BY <1>9, LoginCodeUsed
<1>10. CASE SignAfterCode(h) BY <1>10, LoginIsSigned
<1>11. ASSUME NEW u \in Members, Arrive(h, u) PROVE LoginCodesInv'
  <2>1. PICK for \in Guarded, shown \in told.switch \cup {None} :
            Begin(h, [pc |-> "guard", user |-> u, for |-> for, shown |-> shown])
    BY <1>11 DEF Arrive
  <2> DEFINE r == [pc |-> "guard", user |-> u, for |-> for, shown |-> shown]
  <2>2. Begin(h, r) /\ r.pc \notin Verifying BY <2>1 DEF Verifying
  <2> HIDE DEF r
  <2>q. QED BY <1>11, <1>u, <1>b, <2>2 DEF Arrive
<1>12. CASE CanActivate(h)
  <2>1. At(h, "guard") BY <1>12 DEF CanActivate
  <2>2. req[h] # Idle /\ req[h] \in Guarding BY <1>i, <1>r, <2>1, LoginRequestKinds
  <2>3. Done(h) \/ Step(h, req[h].for) BY <1>12 DEF CanActivate
  <2>4. req[h].for \notin Verifying BY <2>2 DEF Guarding, Guarded, Verifying
  <2>q. QED BY <1>12, <1>u, <1>s, <1>d, <2>2, <2>3, <2>4 DEF CanActivate
<1>13. CASE SendTwoFACode(h)
  <2> DEFINE r == [pc |-> "switch.store", user |-> req[h].user, code |-> None]
  <2>1. Begin(h, r) /\ r.pc \notin Verifying BY <1>13 DEF SendTwoFACode, Verifying
  <2> HIDE DEF r
  <2>q. QED BY <1>13, <1>u, <1>b, <2>1 DEF SendTwoFACode
<1>14. CASE StoreSwitchCode(h)
  <2>0. At(h, "switch.store") BY <1>14 DEF StoreSwitchCode
  <2>1. req[h] \in MakingSwitch BY <1>i, <1>r, <2>0, LoginRequestKinds
  <2>2. PICK c \in SwitchCodes : Begin(h, [req[h] EXCEPT !.pc = "switch.mail", !.code = c])
    BY <1>14 DEF StoreSwitchCode
  <2> DEFINE r == [req[h] EXCEPT !.pc = "switch.mail", !.code = c]
  <2>3. Begin(h, r) /\ r.pc \notin Verifying BY <2>1, <2>2 DEF MakingSwitch, Verifying
  <2> HIDE DEF r
  <2>q. QED BY <1>14, <1>u, <1>b, <2>3 DEF StoreSwitchCode
<1>15. CASE MailSwitchCode(h) BY <1>15, <1>d, <1>u DEF MailSwitchCode
<1>16. CASE VerifyTwoFA(h)
  <2> DEFINE r == [pc |-> "switch.get", user |-> req[h].user, shown |-> req[h].shown,
                   flag |-> req[h].user \in twoFactorEnabled]
  <2>1. Begin(h, r) /\ r.pc \notin Verifying BY <1>16 DEF VerifyTwoFA, Verifying
  <2> HIDE DEF r
  <2>q. QED BY <1>16, <1>u, <1>b, <2>1 DEF VerifyTwoFA
<1>17. CASE CompareSwitchCode(h)
  <2>1. At(h, "switch.get") BY <1>17 DEF CompareSwitchCode
  <2>2. req[h] # Idle BY <1>i, <2>1
  <2>3. Done(h) \/ Step(h, "switch.used") BY <1>17 DEF CompareSwitchCode
  <2>4. "switch.used" \notin Verifying BY DEF Verifying
  <2>q. QED BY <1>17, <1>u, <1>s, <1>d, <2>2, <2>3, <2>4 DEF CompareSwitchCode
<1>18. CASE DeleteSwitchCode(h)
  <2>1. At(h, "switch.used") BY <1>18 DEF DeleteSwitchCode
  <2>2. req[h] # Idle BY <1>i, <2>1
  <2>3. Step(h, "switch.update") BY <1>18 DEF DeleteSwitchCode
  <2>4. "switch.update" \notin Verifying BY DEF Verifying
  <2>q. QED BY <1>18, <1>u, <1>s, <2>2, <2>3, <2>4 DEF DeleteSwitchCode
<1>19. CASE UpdateTwoFactor(h) BY <1>19, <1>d, <1>u DEF UpdateTwoFactor
<1>20. ASSUME NEW u \in Members, AdminDelete(h, u) PROVE LoginCodesInv'
  <2> DEFINE r == [pc |-> "delete", user |-> u, for |-> "delete", shown |-> None]
  <2>1. Begin(h, r) /\ r.pc \notin Verifying BY <1>20 DEF AdminDelete, Verifying
  <2> HIDE DEF r
  <2>q. QED BY <1>20, <1>u, <1>b, <2>1 DEF AdminDelete
<1>21. CASE DeleteAccount(h) BY <1>21, <1>d, <1>u DEF DeleteAccount
<1>q. QED BY <1>1, <1>2, <1>3, <1>4, <1>5, <1>6, <1>7, <1>8, <1>9, <1>10, <1>11, <1>12, <1>13,
         <1>14, <1>15, <1>16, <1>17, <1>18, <1>19, <1>20, <1>21 DEF LoginHandler

LEMMA LoginCodesStart ==
  ASSUME BackendInit, LoginInit, LoginInv
  PROVE  LoginCodesInv
<1>1. \A k \in Handlers : req[k] = Idle BY InitialRequests
<1>2. AnswersAreBacked BY <1>1 DEF AnswersAreBacked, AnswerIsBacked, Idle
<1>3. LoginCodesAreFor BY DEF LoginInit, LoginCodesAreFor
<1>4. ASSUME NEW c \in LoginCodes PROVE LoginCounted(c)
  <2>1. LoginAttempts \in Nat /\ One \in [Nat -> Nat] /\ OneAtFirst \in [Nat -> Nat]
    BY LoginNumbers DEF LoginInv
  <2>2. guessed[c] = 0 /\ opened[c] = 0 BY DEF LoginInit
  <2>3. opened[c] + Cardinality(Signing[c]) = 0
    <3>1. Signing[c] = {} BY <1>1 DEF Signing, Idle
    <3>q. QED BY <2>2, <3>1, FS_EmptySet
  <2> DEFINE G == GuessHolders[c]   J == UseHolders[c]   B == LoginAllowed[c]
  <2> HIDE DEF G, J, B
  <2>4. Ladder(Answers, Spent(G, B), 0, LoginAttempts) BY <2>1, AnswersIsTable, SpentStarts
  <2>5. Ladder(Uses, Spent(J, B), 0, LoginAttempts) BY <2>1, UsesIsTable, SpentStarts
  <2>q. QED BY <2>2, <2>3, <2>4, <2>5 DEF LoginCounted, G, J, B
<1>q. QED BY <1>2, <1>3, <1>4 DEF LoginCodesInv

LEMMA LoginCodesInvariance == LoginSpec => []LoginCodesInv
<1>1. BackendInit /\ LoginInit /\ LoginInv => LoginCodesInv BY LoginCodesStart
<1>2. LoginInv /\ LoginInv' /\ LoginCodesInv /\ [LoginNext]_<<backend, login>> => LoginCodesInv'
  <2> SUFFICES ASSUME LoginInv, LoginInv', LoginCodesInv, [LoginNext]_<<backend, login>>
               PROVE  LoginCodesInv'
    OBVIOUS
  <2>t. LoginTypeOK BY DEF LoginInv
  <2>1. CASE UNCHANGED <<backend, login>>
    BY <2>1, LoginCodesQuiet DEF backend, login
  <2>2. CASE Restart /\ UNCHANGED login
    <3>1. \A k \in Handlers : req'[k].pc \notin {"login.drop", "login.count", "login.used",
                                                  "login.user"}
      BY <2>2 DEF Restart, Idle
    <3>q. QED BY <2>2, <3>1, LoginCodesQuiet DEF login
  <2>3. CASE LoginTick
    <3>u. UNCHANGED <<madeFor, guessed, opened, req>> /\ login2FA' = Aged(login2FA)
      BY <2>3 DEF LoginTick, backend, made, history
    <3>1. DOMAIN login2FA = Members BY <2>t DEF LoginTypeOK
    <3>2. \A v \in Members : \/ login2FA'[v] = None
                             \/ /\ login2FA[v] # None /\ login2FA[v].left # 1
                                /\ login2FA'[v] = [login2FA[v] EXCEPT !.left = login2FA[v].left - 1]
      BY <3>u, <3>1, AgedKeys
    <3>3. ASSUME NEW v \in Members
          PROVE  \/ login2FA'[v] = None
                 \/ /\ login2FA[v] # None
                    /\ login2FA'[v].code = login2FA[v].code
                    /\ login2FA'[v].attempts = login2FA[v].attempts
      <4>1. login2FA[v] # None => login2FA[v] \in Login2FA BY <2>t DEF LoginTypeOK
      <4>q. QED BY <3>2, <4>1 DEF Login2FA
    <3>q. QED BY <3>u, <3>3, LoginCodesQuiet
  <2>q. QED BY <2>1, <2>2, <2>3, LoginCodesStep DEF LoginNext
<1>q. QED BY <1>1, <1>2, LoginInvariance, PTL DEF LoginSpec

(* However many clients guess at a code for logging in and however their   *)
(* guesses overlap, it answers no more wrong ones than Answers says.       *)
THEOREM LoginGuessesAreBounded == LoginSpec => []LoginGuessesBounded
<1>1. LoginInv /\ LoginCodesInv => LoginGuessesBounded
  <2> SUFFICES ASSUME LoginInv, LoginCodesInv, NEW c \in LoginCodes
               PROVE  guessed[c] <= Answers[Cardinality(Handlers)][LoginAttempts]
    BY DEF LoginGuessesBounded
  <2> DEFINE H == GuessHolders[c]   A == LoginAllowed[c]   W == guessed[c]
  <2>1. /\ W \in Nat /\ LoginAttempts \in Nat /\ One \in [Nat -> Nat]
        /\ Ladder(Answers, Spent(H, A), W, LoginAttempts)
    BY LoginNumbers DEF LoginInv, LoginCodesInv, LoginCounted
  <2> HIDE DEF H, A, W
  <2>2. W <= Answers[Cardinality(Handlers)][LoginAttempts]
    BY <2>1, AnswersIsTable, SpentBounds
  <2>q. QED BY <2>2 DEF W
<1>q. QED BY <1>1, LoginInvariance, LoginCodesInvariance, PTL

(* Late wrong guesses bring a used code back, so it may open more than one *)
(* session, but no more than Uses says.                                    *)
THEOREM OpenedAreBounded == LoginSpec => []OpenedBounded
<1>1. LoginInv /\ LoginCodesInv => OpenedBounded
  <2> SUFFICES ASSUME LoginInv, LoginCodesInv, NEW c \in LoginCodes
               PROVE  opened[c] <= Uses[Cardinality(Handlers)][LoginAttempts]
    BY DEF OpenedBounded
  <2> DEFINE H == UseHolders[c]   A == LoginAllowed[c]
             s == Cardinality(Signing[c])   W == opened[c] + s
             max == Uses[Cardinality(Handlers)][LoginAttempts]
  <2>1. /\ W \in Nat /\ LoginAttempts \in Nat /\ OneAtFirst \in [Nat -> Nat]
        /\ opened[c] \in Nat /\ s \in Nat
        /\ Ladder(Uses, Spent(H, A), W, LoginAttempts)
    BY LoginNumbers DEF LoginInv, LoginCodesInv, LoginCounted
  <2>2. opened[c] <= W BY <2>1
  <2>3. max \in Nat
    <3>1. Cardinality(Handlers) \in Nat BY BackendAssumption, FS_CardinalityType
    <3>q. QED BY <2>1, <3>1, UsesIsTable, TableEntries
  <2> HIDE DEF H, A, W, s
  <2>4. W <= max BY <2>1, UsesIsTable, SpentBounds
  <2> HIDE DEF max
  <2>5. opened[c] <= max BY <2>1, <2>2, <2>3, <2>4
  <2>q. QED BY <2>5 DEF max
<1>q. QED BY <1>1, LoginInvariance, LoginCodesInvariance, PTL
=============================================================================

--------------------------- MODULE BackOfficeProofs ---------------------------
(***************************************************************************)
(* The components side by side: what holds of each alone holds of          *)
(* BackOffice.  While a component is served, a step of BackOffice is one   *)
(* of the component; while another is, the tables of the component stay as *)
(* they began.                                                             *)
(***************************************************************************)
EXTENDS BackOffice, AccountProofs, CatalogueProofs, DeskProofs

LEMMA ComponentIsFixed == [Next]_vars => component' = component
  BY DEF Next, vars

LEMMA RegistrationIsServed == Spec /\ component = "registration" => RegistrationSpec
<1>1. Init => BackendInit /\ RegistrationInit BY DEF Init
<1>2. component = "registration" /\ [Next]_vars =>
        [RegistrationNext]_<<backend, registration>> /\ (component = "registration")'
  BY ComponentIsFixed DEF Next, Serve, vars, tables
<1>q. QED BY <1>1, <1>2, PTL DEF Spec, RegistrationSpec

LEMMA RegistrationRests ==
  Spec /\ ~(component = "registration") => [](RegistrationInit /\ ~(component = "registration"))
<1>1. Init => RegistrationInit BY DEF Init
<1>2. ~(component = "registration") /\ RegistrationInit /\ [Next]_vars =>
        RegistrationInit' /\ ~(component = "registration")'
  BY ComponentIsFixed DEF Next, Serve, vars, tables, registration, RegistrationInit
<1>q. QED BY <1>1, <1>2, PTL DEF Spec

LEMMA LoginIsServed == Spec /\ component = "login" => LoginSpec
<1>1. Init => BackendInit /\ LoginInit BY DEF Init
<1>2. component = "login" /\ [Next]_vars =>
        [LoginNext]_<<backend, login>> /\ (component = "login")'
  BY ComponentIsFixed DEF Next, Serve, vars, tables
<1>q. QED BY <1>1, <1>2, PTL DEF Spec, LoginSpec

LEMMA LoginRests ==
  Spec /\ ~(component = "login") => [](LoginInit /\ ~(component = "login"))
<1>1. Init => LoginInit BY DEF Init
<1>2. ~(component = "login") /\ LoginInit /\ [Next]_vars =>
        LoginInit' /\ ~(component = "login")'
  BY ComponentIsFixed DEF Next, Serve, vars, tables, login, LoginInit
<1>q. QED BY <1>1, <1>2, PTL DEF Spec

LEMMA ResetIsServed == Spec /\ component = "reset" => ResetSpec
<1>1. Init => BackendInit /\ ResetInit BY DEF Init
<1>2. component = "reset" /\ [Next]_vars =>
        [ResetNext]_<<backend, reset>> /\ (component = "reset")'
  BY ComponentIsFixed DEF Next, Serve, vars, tables
<1>q. QED BY <1>1, <1>2, PTL DEF Spec, ResetSpec

LEMMA ResetRests ==
  Spec /\ ~(component = "reset") => [](ResetInit /\ ~(component = "reset"))
<1>1. Init => ResetInit BY DEF Init
<1>2. ~(component = "reset") /\ ResetInit /\ [Next]_vars =>
        ResetInit' /\ ~(component = "reset")'
  BY ComponentIsFixed DEF Next, Serve, vars, tables, reset, ResetInit
<1>q. QED BY <1>1, <1>2, PTL DEF Spec

LEMMA LinkIsServed == Spec /\ component = "link" => LinkSpec
<1>1. Init => BackendInit /\ LinkInit BY DEF Init
<1>2. component = "link" /\ [Next]_vars =>
        [LinkNext]_<<backend, accountantLink>> /\ (component = "link")'
  BY ComponentIsFixed DEF Next, Serve, vars, tables
<1>q. QED BY <1>1, <1>2, PTL DEF Spec, LinkSpec

LEMMA LinkRests ==
  Spec /\ ~(component = "link") => [](LinkInit /\ ~(component = "link"))
<1>1. Init => LinkInit BY DEF Init
<1>2. ~(component = "link") /\ LinkInit /\ [Next]_vars =>
        LinkInit' /\ ~(component = "link")'
  BY ComponentIsFixed DEF Next, Serve, vars, tables, accountantLink, LinkInit
<1>q. QED BY <1>1, <1>2, PTL DEF Spec

LEMMA MethodsIsServed == Spec /\ component = "methods" => MethodsSpec
<1>1. Init => BackendInit /\ MethodsInit BY DEF Init
<1>2. component = "methods" /\ [Next]_vars =>
        [MethodsNext]_<<backend, paymentMethods>> /\ (component = "methods")'
  BY ComponentIsFixed DEF Next, Serve, vars, tables
<1>q. QED BY <1>1, <1>2, PTL DEF Spec, MethodsSpec

LEMMA MethodsRests ==
  Spec /\ ~(component = "methods") => [](MethodsInit /\ ~(component = "methods"))
<1>1. Init => MethodsInit BY DEF Init
<1>2. ~(component = "methods") /\ MethodsInit /\ [Next]_vars =>
        MethodsInit' /\ ~(component = "methods")'
  BY ComponentIsFixed DEF Next, Serve, vars, tables, paymentMethods, MethodsInit
<1>q. QED BY <1>1, <1>2, PTL DEF Spec

LEMMA CatalogueIsServed == Spec /\ component = "catalogue" => CatalogueSpec
<1>1. Init => BackendInit /\ CatalogueInit BY DEF Init
<1>2. component = "catalogue" /\ [Next]_vars =>
        [CatalogueNext]_<<backend, planCatalogue>> /\ (component = "catalogue")'
  BY ComponentIsFixed DEF Next, Serve, vars, tables
<1>q. QED BY <1>1, <1>2, PTL DEF Spec, CatalogueSpec

LEMMA CatalogueRests ==
  Spec /\ ~(component = "catalogue") => [](CatalogueInit /\ ~(component = "catalogue"))
<1>1. Init => CatalogueInit BY DEF Init
<1>2. ~(component = "catalogue") /\ CatalogueInit /\ [Next]_vars =>
        CatalogueInit' /\ ~(component = "catalogue")'
  BY ComponentIsFixed DEF Next, Serve, vars, tables, planCatalogue, catalogue, purchases, CatalogueInit
<1>q. QED BY <1>1, <1>2, PTL DEF Spec

LEMMA TicketsIsServed == Spec /\ component = "tickets" => TicketsSpec
<1>1. Init => BackendInit /\ TicketsInit BY DEF Init
<1>2. component = "tickets" /\ [Next]_vars =>
        [TicketsNext]_<<backend, supportTickets>> /\ (component = "tickets")'
  BY ComponentIsFixed DEF Next, Serve, vars, tables
<1>q. QED BY <1>1, <1>2, PTL DEF Spec, TicketsSpec

LEMMA TicketsRests ==
  Spec /\ ~(component = "tickets") => [](TicketsInit /\ ~(component = "tickets"))
<1>1. Init => TicketsInit BY DEF Init
<1>2. ~(component = "tickets") /\ TicketsInit /\ [Next]_vars =>
        TicketsInit' /\ ~(component = "tickets")'
  BY ComponentIsFixed DEF Next, Serve, vars, tables, supportTickets, TicketsInit
<1>q. QED BY <1>1, <1>2, PTL DEF Spec

LEMMA QuotationsIsServed == Spec /\ component = "quotations" => QuotationsSpec
<1>1. Init => BackendInit /\ QuotationsInit BY DEF Init
<1>2. component = "quotations" /\ [Next]_vars =>
        [QuotationsNext]_<<backend, quotes>> /\ (component = "quotations")'
  BY ComponentIsFixed DEF Next, Serve, vars, tables
<1>q. QED BY <1>1, <1>2, PTL DEF Spec, QuotationsSpec

LEMMA QuotationsRests ==
  Spec /\ ~(component = "quotations") => [](QuotationsInit /\ ~(component = "quotations"))
<1>1. Init => QuotationsInit BY DEF Init
<1>2. ~(component = "quotations") /\ QuotationsInit /\ [Next]_vars =>
        QuotationsInit' /\ ~(component = "quotations")'
  BY ComponentIsFixed DEF Next, Serve, vars, tables, quotes, QuotationsInit
<1>q. QED BY <1>1, <1>2, PTL DEF Spec

LEMMA ImportIsServed == Spec /\ component = "import" => ImportSpec
<1>1. Init => BackendInit /\ ImportInit BY DEF Init
<1>2. component = "import" /\ [Next]_vars =>
        [ImportNext]_<<backend, bankImport>> /\ (component = "import")'
  BY ComponentIsFixed DEF Next, Serve, vars, tables
<1>q. QED BY <1>1, <1>2, PTL DEF Spec, ImportSpec

LEMMA ImportRests ==
  Spec /\ ~(component = "import") => [](ImportInit /\ ~(component = "import"))
<1>1. Init => ImportInit BY DEF Init
<1>2. ~(component = "import") /\ ImportInit /\ [Next]_vars =>
        ImportInit' /\ ~(component = "import")'
  BY ComponentIsFixed DEF Next, Serve, vars, tables, bankImport, ImportInit
<1>q. QED BY <1>1, <1>2, PTL DEF Spec

LEMMA RegistrationTypes == Spec /\ component = "registration" => []BackOfficeTypeOK
<1>1. RegistrationInv => RegistrationTypeOK BY DEF RegistrationInv
<1>2. component = "registration" /\ [Next]_vars => (component = "registration")' BY ComponentIsFixed
<1>3. component = "registration" /\ RegistrationTypeOK => BackOfficeTypeOK BY DEF BackOfficeTypeOK
<1>q. QED BY <1>1, <1>2, <1>3, RegistrationIsServed, RegistrationInvariance, PTL DEF Spec

LEMMA LoginTypes == Spec /\ component = "login" => []BackOfficeTypeOK
<1>1. LoginInv => LoginTypeOK BY DEF LoginInv
<1>2. component = "login" /\ [Next]_vars => (component = "login")' BY ComponentIsFixed
<1>3. component = "login" /\ LoginTypeOK => BackOfficeTypeOK BY DEF BackOfficeTypeOK
<1>q. QED BY <1>1, <1>2, <1>3, LoginIsServed, LoginInvariance, PTL DEF Spec

LEMMA ResetTypes == Spec /\ component = "reset" => []BackOfficeTypeOK
<1>1. ResetInv => ResetTypeOK BY DEF ResetInv
<1>2. component = "reset" /\ [Next]_vars => (component = "reset")' BY ComponentIsFixed
<1>3. component = "reset" /\ ResetTypeOK => BackOfficeTypeOK BY DEF BackOfficeTypeOK
<1>q. QED BY <1>1, <1>2, <1>3, ResetIsServed, ResetInvariance, PTL DEF Spec

LEMMA LinkTypes == Spec /\ component = "link" => []BackOfficeTypeOK
<1>1. LinkInv => LinkTypeOK BY DEF LinkInv
<1>2. component = "link" /\ [Next]_vars => (component = "link")' BY ComponentIsFixed
<1>3. component = "link" /\ LinkTypeOK => BackOfficeTypeOK BY DEF BackOfficeTypeOK
<1>q. QED BY <1>1, <1>2, <1>3, LinkIsServed, LinkInvariance, PTL DEF Spec

LEMMA MethodsTypes == Spec /\ component = "methods" => []BackOfficeTypeOK
<1>1. MethodsInv => MethodsTypeOK BY DEF MethodsInv
<1>2. component = "methods" /\ [Next]_vars => (component = "methods")' BY ComponentIsFixed
<1>3. component = "methods" /\ MethodsTypeOK => BackOfficeTypeOK BY DEF BackOfficeTypeOK
<1>q. QED BY <1>1, <1>2, <1>3, MethodsIsServed, MethodsInvariance, PTL DEF Spec

LEMMA CatalogueTypes == Spec /\ component = "catalogue" => []BackOfficeTypeOK
<1>1. BuyInv => CatalogueTypeOK BY DEF BuyInv
<1>2. component = "catalogue" /\ [Next]_vars => (component = "catalogue")' BY ComponentIsFixed
<1>3. component = "catalogue" /\ CatalogueTypeOK => BackOfficeTypeOK BY DEF BackOfficeTypeOK
<1>q. QED BY <1>1, <1>2, <1>3, CatalogueIsServed, BuyInvariance, PTL DEF Spec

LEMMA TicketsTypes == Spec /\ component = "tickets" => []BackOfficeTypeOK
<1>1. TicketsInv => TicketsTypeOK BY DEF TicketsInv
<1>2. component = "tickets" /\ [Next]_vars => (component = "tickets")' BY ComponentIsFixed
<1>3. component = "tickets" /\ TicketsTypeOK => BackOfficeTypeOK BY DEF BackOfficeTypeOK
<1>q. QED BY <1>1, <1>2, <1>3, TicketsIsServed, TicketsInvariance, PTL DEF Spec

LEMMA QuotationsTypes == Spec /\ component = "quotations" => []BackOfficeTypeOK
<1>1. QuotationsInv => QuotationsTypeOK BY DEF QuotationsInv
<1>2. component = "quotations" /\ [Next]_vars => (component = "quotations")' BY ComponentIsFixed
<1>3. component = "quotations" /\ QuotationsTypeOK => BackOfficeTypeOK BY DEF BackOfficeTypeOK
<1>q. QED BY <1>1, <1>2, <1>3, QuotationsIsServed, QuotationsInvariance, PTL DEF Spec

LEMMA ImportTypes == Spec /\ component = "import" => []BackOfficeTypeOK
<1>1. ImportInv => ImportTypeOK BY DEF ImportInv
<1>2. component = "import" /\ [Next]_vars => (component = "import")' BY ComponentIsFixed
<1>3. component = "import" /\ ImportTypeOK => BackOfficeTypeOK BY DEF BackOfficeTypeOK
<1>q. QED BY <1>1, <1>2, <1>3, ImportIsServed, ImportInvariance, PTL DEF Spec

(* The parser of statements is a function; its lines only grow.            *)
StatementRests == BackendInit /\ component = "statement" /\ StatementTypeOK

LEMMA StatementTypes == Spec /\ component = "statement" => []StatementRests
<1>1. Init /\ component = "statement" => StatementRests
  BY StatementAssumption DEF Init, StatementInit, StatementTypeOK, StatementRests
<1>2. StatementRests /\ [Next]_vars => StatementRests'
  <2> SUFFICES ASSUME StatementRests, [Next]_vars PROVE StatementRests'
    OBVIOUS
  <2>1. component' = component BY ComponentIsFixed
  <2>2. UNCHANGED backend /\ (StatementNext \/ UNCHANGED lines)
    BY DEF StatementRests, Next, Serve, vars, tables
  <2>3. (BackendInit)' BY <2>2 DEF StatementRests, BackendInit, backend
  <2>4. StatementTypeOK'
    <3>1. CASE UNCHANGED lines BY <3>1 DEF StatementRests, StatementTypeOK
    <3>2. CASE WriteLine
      <4>1. PICK l \in Lines : lines' = Append(lines, l) BY <3>2 DEF WriteLine
      <4>2. lines \in Seq(Lines) /\ Len(lines) < MaxLines
        BY <3>2 DEF WriteLine, StatementRests, StatementTypeOK
      <4>3. MaxLines \in Nat BY StatementAssumption
      <4> HIDE DEF Lines
      <4>q. QED BY <4>1, <4>2, <4>3 DEF StatementTypeOK
    <3>q. QED BY <2>2, <3>1, <3>2 DEF StatementNext
  <2>q. QED BY <2>1, <2>3, <2>4 DEF StatementRests
<1>q. QED BY <1>1, <1>2, PTL DEF Spec

(* The component that is served keeps the types of its tables and of its   *)
(* requests.                                                               *)
THEOREM BackOfficeTypes == Spec => []BackOfficeTypeOK
<1>1. Init => component \in Components BY DEF Init
<1>2. Init => \/ component = "registration" \/ component = "login" \/ component = "reset"
              \/ component = "link" \/ component = "methods" \/ component = "catalogue"
              \/ component = "tickets" \/ component = "quotations"
              \/ component = "import" \/ component = "statement"
  BY <1>1 DEF Components
<1>3. StatementRests => BackOfficeTypeOK BY DEF StatementRests, BackOfficeTypeOK
<1>q. QED
  BY <1>2, <1>3, RegistrationTypes, LoginTypes, ResetTypes, LinkTypes, MethodsTypes,
     CatalogueTypes, TicketsTypes, QuotationsTypes, ImportTypes, StatementTypes, PTL DEF Spec

(* Failures are counted whatever component fails.                          *)
FaultsAreCounted == faults \in Nat /\ faults * Cardinality(Handlers) \in Nat

LEMMA FaultsCount == Spec => []FaultsAreCounted
<1>1. ASSUME faults \in 0..MaxFaults PROVE FaultsAreCounted
  <2>1. faults \in Nat BY <1>1, BackendAssumption
  <2>2. Cardinality(Handlers) \in Nat BY BackendAssumption, FS_CardinalityType
  <2>q. QED BY <2>1, <2>2 DEF FaultsAreCounted
<1>2. \/ RegistrationTypeOK \/ LoginTypeOK \/ ResetTypeOK \/ LinkTypeOK \/ MethodsTypeOK
      \/ CatalogueTypeOK \/ TicketsTypeOK \/ QuotationsTypeOK \/ ImportTypeOK
      => FaultsAreCounted
  BY <1>1 DEF RegistrationTypeOK, LoginTypeOK, ResetTypeOK, LinkTypeOK, MethodsTypeOK,
     CatalogueTypeOK, TicketsTypeOK, QuotationsTypeOK, ImportTypeOK
<1>3. BackendInit => FaultsAreCounted BY <1>1, BackendAssumption DEF BackendInit
<1>4. component \in Components /\ ~(component = "statement") /\ BackOfficeTypeOK => FaultsAreCounted
  BY <1>2 DEF BackOfficeTypeOK, Components
<1>5. Init => component \in Components BY DEF Init
<1>6. component \in Components /\ ~(component = "statement") /\ [Next]_vars =>
        (component \in Components)' /\ ~(component = "statement")'
  BY ComponentIsFixed
<1>7. StatementRests => FaultsAreCounted BY <1>3 DEF StatementRests
<1>q. QED BY <1>4, <1>5, <1>6, <1>7, BackOfficeTypes, StatementTypes, PTL DEF Spec

(* An account that no administrator created was confirmed with a code      *)
(* mailed to its address, whatever else the back office serves.            *)
THEOREM AccountsStayConfirmed == Spec => []AccountIsConfirmed
<1>1. RegistrationInit => AccountIsConfirmed BY DEF RegistrationInit, AccountIsConfirmed
<1>q. QED BY <1>1, RegistrationIsServed, RegistrationRests, AccountsAreConfirmed, PTL

(* verifyRegistrationOtp reads the attempts and writes them back, so       *)
(* guesses that overlap are not all counted; a code answers a bounded      *)
(* number still.                                                           *)
THEOREM OtpGuessesStayBounded == Spec => []OtpGuessesBounded
<1>1. RegistrationInit => OtpGuessesBounded
  <2> SUFFICES ASSUME RegistrationInit, NEW c \in OtpCodes
               PROVE  wrong[c] <= Answers[Cardinality(Handlers)][OtpAttempts]
    BY DEF OtpGuessesBounded
  <2> DEFINE limit == Answers[Cardinality(Handlers)][OtpAttempts]
  <2>1. wrong[c] = 0 BY DEF RegistrationInit
  <2>2. limit \in Nat
    <3>1. Cardinality(Handlers) \in Nat /\ OtpAttempts \in Nat
      BY BackendAssumption, FS_CardinalityType, RegistrationAssumption, LoginAssumption
    <3>q. QED BY <3>1, AnswersIsTable, TableEntries
  <2> HIDE DEF limit
  <2>3. wrong[c] <= limit BY <2>1, <2>2
  <2>q. QED BY <2>3 DEF limit
<1>q. QED BY <1>1, RegistrationIsServed, RegistrationRests, OtpGuessesAreBounded, PTL

(* The same of verifyLogin2FA.                                             *)
THEOREM LoginGuessesStayBounded == Spec => []LoginGuessesBounded
<1>1. LoginInit => LoginGuessesBounded
  <2> SUFFICES ASSUME LoginInit, NEW c \in LoginCodes
               PROVE  guessed[c] <= Answers[Cardinality(Handlers)][LoginAttempts]
    BY DEF LoginGuessesBounded
  <2> DEFINE limit == Answers[Cardinality(Handlers)][LoginAttempts]
  <2>1. guessed[c] = 0 BY DEF LoginInit
  <2>2. limit \in Nat
    <3>1. Cardinality(Handlers) \in Nat /\ LoginAttempts \in Nat
      BY BackendAssumption, FS_CardinalityType, RegistrationAssumption, LoginAssumption
    <3>q. QED BY <3>1, AnswersIsTable, TableEntries
  <2> HIDE DEF limit
  <2>3. guessed[c] <= limit BY <2>1, <2>2
  <2>q. QED BY <2>3 DEF limit
<1>q. QED BY <1>1, LoginIsServed, LoginRests, LoginGuessesAreBounded, PTL

(* A wrong guess read before the code was used writes it back: one code    *)
(* may open several sessions, as many as Uses allows.                      *)
THEOREM OpenedStayBounded == Spec => []OpenedBounded
<1>1. LoginInit => OpenedBounded
  <2> SUFFICES ASSUME LoginInit, NEW c \in LoginCodes
               PROVE  opened[c] <= Uses[Cardinality(Handlers)][LoginAttempts]
    BY DEF OpenedBounded
  <2> DEFINE limit == Uses[Cardinality(Handlers)][LoginAttempts]
  <2>1. opened[c] = 0 BY DEF LoginInit
  <2>2. limit \in Nat
    <3>1. Cardinality(Handlers) \in Nat /\ LoginAttempts \in Nat
      BY BackendAssumption, FS_CardinalityType, RegistrationAssumption, LoginAssumption
    <3>q. QED BY <3>1, UsesIsTable, TableEntries
  <2> HIDE DEF limit
  <2>3. opened[c] <= limit BY <2>1, <2>2
  <2>q. QED BY <2>3 DEF limit
<1>q. QED BY <1>1, LoginIsServed, LoginRests, OpenedAreBounded, PTL

(* One code of sendTwoFACode switches the second factor at most once for   *)
(* each request that verifyTwoFA serves at the same time.                  *)
THEOREM SwitchesStayBounded == Spec => []SwitchedBounded
<1>1. LoginInit => SwitchedBounded BY HandlerCount DEF LoginInit, SwitchedBounded
<1>q. QED BY <1>1, LoginIsServed, LoginRests, SwitchesAreBounded, PTL

(* AuthGuard stops a deleted account: only a request that was past it      *)
(* switches the second factor.                                             *)
THEOREM TwoFactorsStayKept == Spec => DeletedKeepsTwoFactor
<1>1. ~(component = "login") /\ [Next]_vars => UNCHANGED login
  BY DEF Next, Serve, vars, tables
<1>2. Spec /\ ~(component = "login") => DeletedKeepsTwoFactor
  BY <1>1, LoginRests, PTL DEF Spec, DeletedKeepsTwoFactor
<1>q. QED BY <1>2, LoginIsServed, TwoFactorsAreKept, PTL

(* resetPassword sets a password only for somebody who was mailed a code   *)
(* of that account.                                                        *)
THEOREM ResetsStayConfirmed == Spec => []ResetIsConfirmed
<1>1. ResetInit => ResetIsConfirmed BY DEF ResetInit, ResetIsConfirmed
<1>q. QED BY <1>1, ResetIsServed, ResetRests, ResetsAreConfirmed, PTL

(* A reset token is used once by each request that read it before it was   *)
(* deleted, and again only if the deletion is lost to a failure.           *)
THEOREM ResetsStayBounded == Spec => []ResetsBounded
<1>1. ResetInit /\ FaultsAreCounted => ResetsBounded
  <2> SUFFICES ASSUME ResetInit, FaultsAreCounted, NEW t \in CryptoTokens
               PROVE  changed[t] <= Cardinality(Handlers) * (faults + 1)
    BY DEF ResetsBounded
  <2>1. changed[t] = 0 BY DEF ResetInit
  <2>2. Cardinality(Handlers) \in Nat /\ faults \in Nat
    BY BackendAssumption, FS_CardinalityType DEF FaultsAreCounted
  <2>q. QED BY <2>1, <2>2
<1>q. QED BY <1>1, ResetIsServed, ResetRests, FaultsCount, ResetsAreBounded, PTL

(* approveRequest writes the request before the link, so a failure in      *)
(* between leaves at most the requests of the handlers that failed without *)
(* a link.                                                                 *)
THEOREM ApprovedStaysLinked == Spec => []ApprovalLinks
<1>1. LinkInit /\ FaultsAreCounted => ApprovalLinks
  <2> DEFINE S == {r \in Requests \ linkedBy :
                    /\ requests[r] # None /\ requests[r].status = "APPROVED"
                    /\ ~\E h \in Handlers : At(h, "approve.link") /\ req[h].of = r}
  <2>1. LinkInit => S = {} BY DEF LinkInit
  <2> HIDE DEF S
  <2>2. S = {} => Cardinality(S) = 0 BY FS_EmptySet
  <2>3. FaultsAreCounted /\ Cardinality(S) = 0 => Cardinality(S) <= faults * Cardinality(Handlers)
    BY DEF FaultsAreCounted
  <2>q. QED BY <2>1, <2>2, <2>3 DEF S, ApprovalLinks
<1>q. QED BY <1>1, LinkIsServed, LinkRests, FaultsCount, ApprovedIsLinked, PTL

(* A link is replaced or removed only by a handler that saw it, or under   *)
(* which it changed after the check.                                       *)
THEOREM LinksStayRespected == Spec => LinkIsRespected
<1>1. ~(component = "link") /\ [Next]_vars => UNCHANGED accountantLink
  BY DEF Next, Serve, vars, tables
<1>2. Spec /\ ~(component = "link") => LinkIsRespected
  BY <1>1, LinkRests, PTL DEF Spec, LinkIsRespected
<1>q. QED BY <1>2, LinkIsServed, LinksChangeAsSeen, PTL

(* validateAccess precedes every preview, and only a change after it makes *)
(* the preview one of a client the accountant no longer has.               *)
THEOREM PreviewsStayAllowed == Spec => PreviewIsAllowed
<1>1. ~(component = "link") /\ [Next]_vars => UNCHANGED accountantLink
  BY DEF Next, Serve, vars, tables
<1>2. Spec /\ ~(component = "link") => PreviewIsAllowed
  BY <1>1, LinkRests, PTL DEF Spec, PreviewIsAllowed
<1>q. QED BY <1>2, LinkIsServed, PreviewsAreAllowed, PTL

(* makePaymentDefault clears the others and sets its method in two calls,  *)
(* yet overlapping requests leave at most one default method each.         *)
THEOREM DefaultsStayBounded == Spec => []DefaultsBounded
<1>1. MethodsInit => DefaultsBounded
  <2>1. MethodsInit => Defaults \ toggled = {} BY DEF MethodsInit, Defaults, Live
  <2>2. Cardinality(Handlers) \in Nat BY BackendAssumption, FS_CardinalityType
  <2>q. QED BY <2>1, <2>2, FS_EmptySet DEF DefaultsBounded
<1>q. QED BY <1>1, MethodsIsServed, MethodsRests, DefaultsAreBounded, PTL

(* A checkout session charges what its history says, though                *)
(* updateSubscription may replace the prices and upgradePlan the history   *)
(* meanwhile; only a request whose history was rewritten may record        *)
(* another.                                                                *)
THEOREM SessionsStayCharged == Spec => []SessionChargesHistory
<1>1. CatalogueInit => SessionChargesHistory BY DEF CatalogueInit, SessionChargesHistory
<1>q. QED BY <1>1, CatalogueIsServed, CatalogueRests, SessionsChargeHistories, PTL

(* A plan is without prices only during updateSubscription, after a        *)
(* failure, or when the last prices it was to have were none or were       *)
(* refused.                                                                *)
THEOREM PricesStayReplaced == Spec => []PricingReplaced
<1>1. CatalogueInit => PricingReplaced BY DEF CatalogueInit, PricingReplaced, Live
<1>q. QED BY <1>1, CatalogueIsServed, CatalogueRests, PricesAreReplaced, PTL

(* createTicket inserts a ticket and then names it: all but those whose    *)
(* handler failed in between have their code.                              *)
THEOREM TicketsKeepCodes == Spec => []TicketsHaveCodes
<1>1. TicketsInit /\ FaultsAreCounted => TicketsHaveCodes
  <2> DEFINE S == {i \in Tickets :
                    /\ tickets[i] # None /\ tickets[i].ticketCode = None
                    /\ ~\E h \in Handlers : At(h, "ticket.code") /\ req[h].id = i}
  <2>1. TicketsInit => S = {} BY DEF TicketsInit
  <2> HIDE DEF S
  <2>2. S = {} => Cardinality(S) = 0 BY FS_EmptySet
  <2>3. FaultsAreCounted /\ Cardinality(S) = 0 => Cardinality(S) <= faults * Cardinality(Handlers)
    BY DEF FaultsAreCounted
  <2>q. QED BY <2>1, <2>2, <2>3 DEF S, TicketsHaveCodes
<1>q. QED BY <1>1, TicketsIsServed, TicketsRests, FaultsCount, EveryTicketHasCode, PTL

(* A ticket's priority changes only on a request that says so, or by a     *)
(* handler that had read the older one.                                    *)
THEOREM PrioritiesAreKept == Spec => PriorityIsKept
<1>1. ~(component = "tickets") /\ [Next]_vars => UNCHANGED supportTickets
  BY DEF Next, Serve, vars, tables
<1>2. Spec /\ ~(component = "tickets") => PriorityIsKept
  BY <1>1, TicketsRests, PTL DEF Spec, PriorityIsKept
<1>q. QED BY <1>2, TicketsIsServed, PriorityOnlyIfAsked, PTL

(* A quotation with the status SENT was mailed to its client, is about to  *)
(* be, or met a failure; a draft was not mailed.                           *)
THEOREM StatusStillTellsMail == Spec => []SentIsMailed
<1>1. QuotationsInit => SentIsMailed BY DEF QuotationsInit, SentIsMailed, Live
<1>q. QED BY <1>1, QuotationsIsServed, QuotationsRests, StatusTellsMail, PTL

(* What is mailed is what the row says, or a handler overtaken by an       *)
(* update mails what it had read.                                          *)
THEOREM MailedStaysCurrent == Spec => MailIsCurrent
<1>1. ~(component = "quotations") /\ [Next]_vars => UNCHANGED quotes
  BY DEF Next, Serve, vars, tables
<1>2. Spec /\ ~(component = "quotations") => MailIsCurrent
  BY <1>1, QuotationsRests, PTL DEF Spec, MailIsCurrent
<1>q. QED BY <1>2, QuotationsIsServed, MailedAmountIsCurrent, PTL

(* What storeTransactions reports as imported is in the table, under the   *)
(* user whose request stored it first.                                     *)
THEOREM ReportedStaysStored == Spec => []ReportedIsStored
<1>1. ImportInit => ReportedIsStored BY DEF ImportInit, ReportedIsStored
<1>q. QED BY <1>1, ImportIsServed, ImportRests, ImportsAreStored, PTL

(* parseMT940 gives each transaction of a statement once, in order and     *)
(* with the last of its own descriptions, however many lines there are.    *)
THEOREM StatementsAreStillRead == Spec => []StatementIsRead
<1>1. StatementInit => StatementTypeOK
  BY StatementAssumption DEF StatementInit, StatementTypeOK
<1>2. ~(component = "statement") /\ StatementInit /\ [Next]_vars =>
        StatementInit' /\ ~(component = "statement")'
  BY ComponentIsFixed DEF Next, Serve, vars, tables, StatementInit
<1>3. Init => StatementInit BY DEF Init
<1>4. StatementRests => StatementTypeOK BY DEF StatementRests
<1>q. QED BY <1>1, <1>2, <1>3, <1>4, StatementTypes, StatementsAreRead, PTL DEF Spec
=================================================================================

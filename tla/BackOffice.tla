------------------------------ MODULE BackOffice ------------------------------
(***************************************************************************)
(* The components built on Backend, side by side.  They share the pool of  *)
(* handlers and the failures, and nothing else: no handler of one reads    *)
(* what a handler of another writes.  A behaviour of all of them together  *)
(* therefore is, for each, one of its own with stuttering steps; so every  *)
(* behaviour here is of a single component, and the components are         *)
(* explored one beside the other instead of one times the other.           *)
(***************************************************************************)
EXTENDS Registration, Login, PasswordReset, AccountantLink, PaymentMethods, PlanCatalogue,
        SupportTickets, Quotations, BankImport, BankStatement

VARIABLE component      \* the one whose requests are served

tables == <<registration, login, reset, accountantLink, paymentMethods, planCatalogue,
            supportTickets, quotes, bankImport, lines>>

vars == <<component, backend, tables>>

Components ==
    {"registration", "login", "reset", "link", "methods", "catalogue", "tickets", "quotations",
     "import", "statement"}

BackOfficeTypeOK ==
    CASE component = "registration" -> RegistrationTypeOK
      [] component = "login" -> LoginTypeOK
      [] component = "reset" -> ResetTypeOK
      [] component = "link" -> LinkTypeOK
      [] component = "methods" -> MethodsTypeOK
      [] component = "catalogue" -> CatalogueTypeOK
      [] component = "tickets" -> TicketsTypeOK
      [] component = "quotations" -> QuotationsTypeOK
      [] component = "import" -> ImportTypeOK
      [] component = "statement" -> StatementTypeOK

Init ==
    /\ component \in Components
    /\ BackendInit
    /\ RegistrationInit
    /\ LoginInit
    /\ ResetInit
    /\ LinkInit
    /\ MethodsInit
    /\ CatalogueInit
    /\ TicketsInit
    /\ QuotationsInit
    /\ ImportInit
    /\ StatementInit

Serve ==
    \/ /\ component = "registration" /\ RegistrationNext
       /\ UNCHANGED <<login, reset, accountantLink, paymentMethods, planCatalogue,
                      supportTickets, quotes, bankImport, lines>>
    \/ /\ component = "login" /\ LoginNext
       /\ UNCHANGED <<registration, reset, accountantLink, paymentMethods, planCatalogue,
                      supportTickets, quotes, bankImport, lines>>
    \/ /\ component = "reset" /\ ResetNext
       /\ UNCHANGED <<registration, login, accountantLink, paymentMethods, planCatalogue,
                      supportTickets, quotes, bankImport, lines>>
    \/ /\ component = "link" /\ LinkNext
       /\ UNCHANGED <<registration, login, reset, paymentMethods, planCatalogue,
                      supportTickets, quotes, bankImport, lines>>
    \/ /\ component = "methods" /\ MethodsNext
       /\ UNCHANGED <<registration, login, reset, accountantLink, planCatalogue,
                      supportTickets, quotes, bankImport, lines>>
    \/ /\ component = "catalogue" /\ CatalogueNext
       /\ UNCHANGED <<registration, login, reset, accountantLink, paymentMethods,
                      supportTickets, quotes, bankImport, lines>>
    \/ /\ component = "tickets" /\ TicketsNext
       /\ UNCHANGED <<registration, login, reset, accountantLink, paymentMethods, planCatalogue,
                      quotes, bankImport, lines>>
    \/ /\ component = "quotations" /\ QuotationsNext
       /\ UNCHANGED <<registration, login, reset, accountantLink, paymentMethods, planCatalogue,
                      supportTickets, bankImport, lines>>
    \/ /\ component = "import" /\ ImportNext
       /\ UNCHANGED <<registration, login, reset, accountantLink, paymentMethods, planCatalogue,
                      supportTickets, quotes, lines>>
    \/ /\ component = "statement" /\ StatementNext
       /\ UNCHANGED <<backend, registration, login, reset, accountantLink, paymentMethods,
                      planCatalogue, supportTickets, quotes, bankImport>>

Next == Serve /\ UNCHANGED component

Spec == Init /\ [][Next]_vars
=============================================================================

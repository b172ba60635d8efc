------------------------------ MODULE ImapSync ------------------------------
(***************************************************************************)
(* Import of invoices from the users' mailboxes: the IMAP configurations,  *)
(* the registry of cron jobs, and the synchronisation runs that the cron   *)
(* jobs and two HTTP requests start.                                       *)
(*                                                                         *)
(* As in Subscription, an action is one awaited call, and what a run or a  *)
(* handler carries to its next call may be stale.  Nothing keeps two runs  *)
(* of a mailbox apart.  Who may use the service is an Entitlement: its     *)
(* Grant and Lapse are the environment of this module.  The rows of        *)
(* imapSyncHistory and the activity log only record a run and are left     *)
(* out.                                                                    *)
(***************************************************************************)
EXTENDS Naturals, FiniteSets

CONSTANTS
    Users,          \* accounts with the role USER
    Emails,         \* what emailId identifies: sender, subject and date, if any
    Numbers,        \* invoice numbers the PDF extractor may return
    Keywords,       \* INVOICE_SUBJECT_KEYWORDS, searched for in order: 1..n
    Matching,       \* keywords the subject of an e-mail contains
    Pdfs,           \* numbers in the PDF attachments of an e-mail
    LooksLike,      \* e-mails whose subject looksLikeInvoice
    Intervals,      \* rows of invoiceAutoSyncInterval
    Allowed,        \* realtimeImapChecking of a user's plan
    Limit,          \* perMonthInvoiceCount of a user's plan, None if not limited
    Trials,         \* users on trial, whom only syncEmails holds to the limit
    Period,         \* length of a plan
    DayLength,      \* ticks of the clock in a day
    Jobs,           \* how many synchronisations by cron jobs run at a time
    Requests,       \* how many synchronisations on request
    Handlers,       \* how many requests that change a configuration
    Boot,           \* the handler that restores the cron jobs at startup
    None,           \* SQL NULL, an absent row, an unused field
    MaxInvoices,    \* bound on imported invoices
    MaxFaults,      \* bound on failed calls and restarts
    MaxTime         \* bound on the clock

InvoiceIds == 1..MaxInvoices
Runs == Jobs \cup Requests
Setters == Handlers \cup {Boot}

ASSUME ImapAssumption ==
    /\ {MaxInvoices, MaxFaults, MaxTime} \subseteq Nat
    /\ {Keywords, Period, DayLength} \subseteq Nat \ {0}
    /\ Matching \in [Emails -> SUBSET (1..Keywords)]
    /\ Pdfs \in [Emails -> SUBSET Numbers]
    /\ LooksLike \subseteq Emails
    /\ Allowed \in [Users -> SUBSET Intervals]
    /\ Limit \in [Users -> Nat \cup {None}]
    /\ Trials \subseteq Users
    /\ Boot \notin Handlers
    /\ Jobs \cap Requests = {}
    /\ IsFiniteSet(Jobs) /\ IsFiniteSet(Requests)

(* A row of imapConfiguration.                                             *)
Config == [connect : BOOLEAN, sync : BOOLEAN, interval : Intervals \cup {None},
           lastSync : Nat \cup {None}, createdAt : Nat]

(* A message in a mailbox: its Date header, which may be missing, and its  *)
(* INTERNALDATE.                                                           *)
Message == [date : Nat \cup {None}, arrived : Nat]

(* An imported invoice; number is None for the invented number of an       *)
(* e-mail without a readable PDF.                                          *)
Invoice == [user : Users, email : Emails, number : Numbers \cup {None}]

ASSUME ImapNone == None \notin Config \cup Message \cup Nat

(* A synchronisation in flight.                                            *)
Run == [pc : {"idle", "manual", "access", "connect", "search", "email", "extract",
              "number", "create", "finish", "record"},
        user : Users \cup {None}, kind : {"cron", "manual", "read"},
        started : Nat, since : Nat, keyword : 1..Keywords, todo : SUBSET Emails,
        email : Emails \cup {None}, pdfs : SUBSET Numbers,
        number : Numbers \cup {None}, created : BOOLEAN, done : Nat]

(* A request, or the startup, that ends in setupCronForUser.               *)
Setter == [pc : {"idle", "save", "resave", "subscription", "config", "register", "stop"},
           user : Users \cup {None}, interval : Intervals \cup {None},
           auto : BOOLEAN, partial : BOOLEAN]

NoRun == [pc |-> "idle", user |-> None, kind |-> "cron", started |-> 0, since |-> 0,
          keyword |-> 1, todo |-> {}, email |-> None, pdfs |-> {}, number |-> None,
          created |-> FALSE, done |-> 0]
NoSetter == [pc |-> "idle", user |-> None, interval |-> None, auto |-> FALSE,
             partial |-> FALSE]

VARIABLES
    now,        \* the clock
    access,     \* each user's entitlement
    inbox,      \* the mailboxes: each user's messages
    config,     \* imapConfiguration
    cron,       \* SchedulerRegistry: the interval of each user's job
    invoice,    \* imported invoices
    run,        \* synchronisations in flight
    setter,     \* handlers in flight
    boot,       \* users whose cron job initializeAllCronJobs has yet to restore
    faults      \* failures so far

vars == <<now, access, inbox, config, cron, invoice, run, setter, boot, faults>>

TypeOK ==
    /\ now \in 0..MaxTime
    /\ access \in [Users -> [state : {"none", "active", "lapsed"}, until : Nat]]
    /\ inbox \in [Users -> [Emails -> Message \cup {None}]]
    /\ config \in [Users -> Config \cup {None}]
    /\ cron \in [Users -> Intervals \cup {None}]
    /\ invoice \in [InvoiceIds -> Invoice \cup {None}]
    /\ run \in [Runs -> Run]
    /\ setter \in [Setters -> Setter]
    /\ boot \subseteq Users
    /\ faults \in 0..MaxFaults

Init ==
    /\ now = 0
    /\ access = [u \in Users |-> [state |-> "none", until |-> 0]]
    /\ inbox = [u \in Users |-> [e \in Emails |-> None]]
    /\ config = [u \in Users |-> None]
    /\ cron = [u \in Users |-> None]
    /\ invoice = [i \in InvoiceIds |-> None]
    /\ run = [r \in Runs |-> NoRun]
    /\ setter = [h \in Setters |-> NoSetter]
    /\ boot = {}
    /\ faults = 0

-----------------------------------------------------------------------------
Active(u) == access[u].state = "active"
Entitled(u) == Active(u) /\ access[u].until > now

Imported(u) == {i \in InvoiceIds : invoice[i] # None /\ invoice[i].user = u}

(* The monthly limit; the clock of an instance stays within a month.       *)
LimitReached(u) == Limit[u] # None /\ Cardinality(Imported(u)) >= Limit[u]

(* The rows whose note names the e-mail, whoever imported it.              *)
Naming(e) == {i \in InvoiceIds : invoice[i] # None /\ invoice[i].email = e}

NumberTaken(n) == \E i \in InvoiceIds : invoice[i] # None /\ invoice[i].number = n

Day(t) == t \div DayLength

Move(r, pc) == run' = [run EXCEPT ![r].pc = pc]
Leave(r) == run' = [run EXCEPT ![r] = NoRun]
SetterMove(h, pc) == setter' = [setter EXCEPT ![h].pc = pc]
SetterDone(h) == setter' = [setter EXCEPT ![h] = NoSetter]

(* HTTP requests are served only when every onModuleInit has returned.     *)
Serving == boot = {} /\ setter[Boot] = NoSetter

-----------------------------------------------------------------------------
(* Synchronisation runs.                                                   *)

(* A run imports what is newer than lastSync, or than the configuration.   *)
Window(u) == IF config[u].lastSync # None THEN config[u].lastSync ELSE config[u].createdAt

Begin(r, u, kind, since) ==
    run' = [run EXCEPT ![r] = [NoRun EXCEPT !.pc = "access", !.user = u, !.kind = kind,
                                 !.started = now, !.since = since]]

(* A cron job fires: runSyncJob reads the configuration, not its flags.    *)
RunSyncJob(r, u) ==
    /\ run[r] = NoRun
    /\ cron[u] # None
    /\ config[u] # None
    /\ Begin(r, u, "cron", Window(u))
    /\ UNCHANGED <<now, access, inbox, config, cron, invoice, setter, boot, faults>>

(* syncEmails checks that the plan is active and below its limit ...       *)
SyncEmails(r, u) ==
    /\ Serving
    /\ run[r] = NoRun
    /\ Active(u)
    /\ ~LimitReached(u)
    /\ run' = [run EXCEPT ![r] = [NoRun EXCEPT !.pc = "manual", !.user = u,
                                     !.kind = "manual", !.started = now]]
    /\ UNCHANGED <<now, access, inbox, config, cron, invoice, setter, boot, faults>>

(* ... and that the mailbox is connected and its interval allowed.         *)
SyncConfigured(u) ==
    /\ config[u] # None
    /\ config[u].connect
    /\ config[u].sync
    /\ config[u].interval \in Allowed[u]

SyncReadConfig(r) ==
    /\ run[r].pc = "manual"
    /\ IF SyncConfigured(run[r].user)
       THEN run' = [run EXCEPT ![r].pc = "access", ![r].since = Window(run[r].user)]
       ELSE Leave(r)
    /\ UNCHANGED <<now, access, inbox, config, cron, invoice, setter, boot, faults>>

(* readEmailTransactions imports from the creation of the configuration    *)
(* on and leaves lastSync alone.                                           *)
ReadEmailTransactions(r, u) ==
    /\ Serving
    /\ run[r] = NoRun
    /\ config[u] # None
    /\ Begin(r, u, "read", config[u].createdAt)
    /\ UNCHANGED <<now, access, inbox, config, cron, invoice, setter, boot, faults>>

CheckAccess(r, granted) ==
    /\ run[r].pc = "access"
    /\ IF granted /\ (run[r].user \in Trials \/ ~LimitReached(run[r].user))
       THEN Move(r, "connect") ELSE Leave(r)
    /\ UNCHANGED <<now, access, inbox, config, cron, invoice, setter, boot, faults>>

(* Mutant: the end date of the plan is not looked at.                      *)
CheckActive(r) == CheckAccess(r, Active(run[r].user))

(* All three go through readEmailTransactionsSince, which checks the       *)
(* entitlement and the limit again.                                        *)
CheckUserAccess(r) == CheckAccess(r, Entitled(run[r].user))

(* The mailbox is opened with the stored credentials.                      *)
ImapClient(r) ==
    /\ run[r].pc = "connect"
    /\ Move(r, "search")
    /\ UNCHANGED <<now, access, inbox, config, cron, invoice, setter, boot, faults>>

(* If the server refuses them, the flags are cleared and the run completes *)
(* without invoices; its cron job stays.                                   *)
ImapAuthFails(r) ==
    /\ run[r].pc = "connect"
    /\ faults < MaxFaults
    /\ faults' = faults + 1
    /\ config' = [config EXCEPT ![run[r].user].connect = FALSE, ![run[r].user].sync = FALSE]
    /\ Leave(r)
    /\ UNCHANGED <<now, access, inbox, cron, invoice, setter, boot>>

(* One search for each keyword; SINCE knows days only.                     *)
Search(r) ==
    /\ run[r].pc = "search"
    /\ LET box == inbox[run[r].user]
           found == {e \in Emails : /\ box[e] # None
                                    /\ run[r].keyword \in Matching[e]
                                    /\ Day(box[e].arrived) >= Day(run[r].since)}
       IN  run' = [run EXCEPT ![r].pc = "email", ![r].todo = found]
    /\ UNCHANGED <<now, access, inbox, config, cron, invoice, setter, boot, faults>>

Examine(r, skipped) ==
    /\ run[r].pc = "email"
    /\ \E e \in run[r].todo :
        run' = [run EXCEPT ![r] =
                  IF e \in skipped THEN [run[r] EXCEPT !.todo = @ \ {e}]
                  ELSE [run[r] EXCEPT !.pc = "extract", !.todo = @ \ {e},
                                      !.email = e, !.pdfs = Pdfs[e]]]
    /\ UNCHANGED <<now, access, inbox, config, cron, invoice, setter, boot, faults>>

(* A message without a date is never too old.                              *)
Dated(r) == {e \in run[r].todo : inbox[run[r].user][e].date # None}
TooOld(r) == {e \in Dated(r) : inbox[run[r].user][e].date < run[r].since}
Known(r) == {e \in run[r].todo : Naming(e) # {}}

(* Mutants: no look for an earlier import; no look at the date; a message  *)
(* dated at the start of the window is skipped.                            *)
ExamineUnseen(r) == Examine(r, TooOld(r))
ExamineUndated(r) == Examine(r, Known(r))
ExamineNewer(r) ==
    Examine(r, Known(r) \cup
               {e \in Dated(r) : inbox[run[r].user][e].date <= run[r].since})

(* A message is skipped if its date is too old or it was imported before.  *)
ExamineEmail(r) == Examine(r, TooOld(r) \cup Known(r))

(* The attachments are tried one by one.  A failing extraction or insert   *)
(* is logged and the next one tried.                                       *)
ExtractPdf(r) ==
    /\ run[r].pc = "extract"
    /\ \E n \in run[r].pdfs :
        \/ run' = [run EXCEPT ![r].pdfs = @ \ {n}]
        \/ run' = [run EXCEPT ![r].pc = "number", ![r].pdfs = @ \ {n}, ![r].number = n]
    /\ UNCHANGED <<now, access, inbox, config, cron, invoice, setter, boot, faults>>

FindNumber(r) ==
    /\ run[r].pc = "number"
    /\ Move(r, IF NumberTaken(run[r].number) THEN "extract" ELSE "create")
    /\ UNCHANGED <<now, access, inbox, config, cron, invoice, setter, boot, faults>>

(* Inserts a row, unless invoiceNo, which is unique, was taken meanwhile   *)
(* or the insert fails for want of a row.                                  *)
Insert(r, number) ==
    \E i \in InvoiceIds :
        /\ invoice[i] = None
        /\ \A j \in 1..(i - 1) : invoice[j] # None
        /\ invoice' = [invoice EXCEPT ![i] = [user |-> run[r].user, email |-> run[r].email,
                                             number |-> number]]
        /\ run' = [run EXCEPT ![r] = [@ EXCEPT !.pc = "email", !.email = None, !.pdfs = {},
                                              !.number = None, !.created = TRUE]]

Full == \A i \in InvoiceIds : invoice[i] # None

CreateInvoice(r) ==
    /\ run[r].pc = "create"
    /\ \/ ~NumberTaken(run[r].number) /\ Insert(r, run[r].number)
       \/ (NumberTaken(run[r].number) \/ Full) /\ Move(r, "extract") /\ UNCHANGED invoice
    /\ UNCHANGED <<now, access, inbox, config, cron, setter, boot, faults>>

(* Without a readable attachment an e-mail that looks like an invoice gets *)
(* an empty invoice; a failing insert ends the loop over the e-mails.      *)
CreateFallback(r) ==
    /\ run[r].pc = "extract" /\ run[r].pdfs = {}
    /\ IF run[r].email \in LooksLike
       THEN \/ Insert(r, None)
            \/ Full /\ Move(r, "finish") /\ UNCHANGED invoice
       ELSE /\ run' = [run EXCEPT ![r] = [@ EXCEPT !.pc = "email", !.email = None,
                                                  !.number = None]]
            /\ UNCHANGED invoice
    /\ UNCHANGED <<now, access, inbox, config, cron, setter, boot, faults>>

(* Mutant: one keyword too many.                                           *)
NextKeywordAfter(r) ==
    /\ run[r].pc = "email" /\ run[r].todo = {}
    /\ run' = [run EXCEPT ![r] =
                 IF run[r].keyword > Keywords THEN [@ EXCEPT !.pc = "finish"]
                 ELSE [run[r] EXCEPT !.pc = "search", !.keyword = @ + 1]]
    /\ UNCHANGED <<now, access, inbox, config, cron, invoice, setter, boot, faults>>

NextKeyword(r) ==
    /\ run[r].pc = "email" /\ run[r].todo = {}
    /\ run' = [run EXCEPT ![r] =
                 IF run[r].keyword = Keywords THEN [@ EXCEPT !.pc = "finish"]
                 ELSE [run[r] EXCEPT !.pc = "search", !.keyword = @ + 1]]
    /\ UNCHANGED <<now, access, inbox, config, cron, invoice, setter, boot, faults>>

(* The run completes; lastSync moves only if it created something, to the  *)
(* time of completion.                                                     *)
CompleteSync(r) ==
    /\ run[r].pc = "finish"
    /\ IF run[r].created /\ run[r].kind # "read"
       THEN run' = [run EXCEPT ![r].pc = "record", ![r].done = now]
       ELSE Leave(r)
    /\ UNCHANGED <<now, access, inbox, config, cron, invoice, setter, boot, faults>>

UpdateLastSync(r) ==
    /\ run[r].pc = "record"
    /\ config' = [config EXCEPT ![run[r].user].lastSync = run[r].done]
    /\ Leave(r)
    /\ UNCHANGED <<now, access, inbox, cron, invoice, setter, boot, faults>>

(* A failing call among the e-mails ends the loop, but not the run; one    *)
(* for an attachment is part of ExtractPdf; any other one ends the run.    *)
RunFails(r) ==
    /\ run[r] # NoRun
    /\ faults < MaxFaults
    /\ faults' = faults + 1
    /\ \/ /\ \/ run[r].pc \in {"search", "email"}
             \/ run[r].pc = "extract" /\ run[r].pdfs = {}
          /\ run' = [run EXCEPT ![r] = [@ EXCEPT !.pc = "finish", !.todo = {}, !.email = None,
                                               !.number = None]]
       \/ /\ run[r].pc \notin {"search", "email", "extract", "number", "create"}
          /\ Leave(r)
    /\ UNCHANGED <<now, access, inbox, config, cron, invoice, setter, boot>>

-----------------------------------------------------------------------------
(* The configuration and the cron jobs.                                    *)

(* setImapConfiguration checks the subscription; auto and interval are     *)
(* dto.automatic_Sync and dto.realtimeImapCheckingId, and partial says     *)
(* that dto.connect is missing.                                            *)
SetImapConfiguration(h, u) ==
    /\ Serving
    /\ setter[h] = NoSetter
    /\ Entitled(u)
    /\ \E i \in Intervals \cup {None}, auto, partial \in BOOLEAN :
        setter' = [setter EXCEPT ![h] = [pc |-> "save", user |-> u, interval |-> i,
                                         auto |-> auto, partial |-> partial]]
    /\ UNCHANGED <<now, access, inbox, config, cron, invoice, run, boot, faults>>

Schedules(h) == setter[h].auto /\ setter[h].interval # None

(* It tests the connection and saves the row, whose lastSync and           *)
(* created_at stay if it exists.                                           *)
UpsertConfiguration(h) ==
    /\ setter[h].pc = "save"
    /\ LET u == setter[h].user
       IN  \E connected \in BOOLEAN :
            /\ config' = [config EXCEPT ![u] =
                  [connect |-> connected, sync |-> connected /\ setter[h].auto,
                   interval |-> setter[h].interval,
                   lastSync |-> IF @ = None THEN None ELSE @.lastSync,
                   createdAt |-> IF @ = None THEN now ELSE @.createdAt]]
            /\ CASE connected /\ setter[h].partial -> SetterMove(h, "resave")
                 [] connected /\ ~setter[h].partial /\ Schedules(h) ->
                        SetterMove(h, "subscription")
                 [] OTHER -> SetterDone(h)
    /\ UNCHANGED <<now, access, inbox, cron, invoice, run, boot, faults>>

(* A request without dto.connect writes sync once more.                    *)
ResaveSync(h) ==
    /\ setter[h].pc = "resave"
    /\ config' = [config EXCEPT ![setter[h].user].sync = setter[h].auto]
    /\ IF Schedules(h) THEN SetterMove(h, "subscription") ELSE SetterDone(h)
    /\ UNCHANGED <<now, access, inbox, cron, invoice, run, boot, faults>>

(* setupCronForUser: the plan must be active, ...                          *)
SetupReadPlan(h) ==
    /\ setter[h].pc = "subscription"
    /\ IF Active(setter[h].user) THEN SetterMove(h, "config") ELSE SetterDone(h)
    /\ UNCHANGED <<now, access, inbox, config, cron, invoice, run, boot, faults>>

SetupWhen(h, wanted) ==
    /\ setter[h].pc = "config"
    /\ IF wanted
       THEN setter' = [setter EXCEPT ![h].pc = "register",
                                     ![h].interval = config[setter[h].user].interval]
       ELSE SetterDone(h)
    /\ UNCHANGED <<now, access, inbox, config, cron, invoice, run, boot, faults>>

(* Mutant: only a job that is registered is set up again.                  *)
SetupReadRegistered(h) ==
    SetupWhen(h, SyncConfigured(setter[h].user) /\ cron[setter[h].user] # None)

(* ... the mailbox connected, and its interval allowed.                    *)
SetupReadConfig(h) == SetupWhen(h, SyncConfigured(setter[h].user))

(* createCronForUser replaces the job without waiting for any I/O.         *)
CreateCronForUser(h) ==
    /\ setter[h].pc = "register"
    /\ cron' = [cron EXCEPT ![setter[h].user] = setter[h].interval]
    /\ SetterDone(h)
    /\ UNCHANGED <<now, access, inbox, config, invoice, run, boot, faults>>

(* imap_DisConnect clears the flags, then stops the job.                   *)
ImapDisconnect(h, u) ==
    /\ Serving
    /\ setter[h] = NoSetter
    /\ config[u] # None
    /\ config' = [config EXCEPT ![u].connect = FALSE, ![u].sync = FALSE]
    /\ setter' = [setter EXCEPT ![h] = [NoSetter EXCEPT !.pc = "stop", !.user = u]]
    /\ UNCHANGED <<now, access, inbox, cron, invoice, run, boot, faults>>

StopCronForUser(h) ==
    /\ setter[h].pc = "stop"
    /\ cron' = [cron EXCEPT ![setter[h].user] = None]
    /\ SetterDone(h)
    /\ UNCHANGED <<now, access, inbox, config, invoice, run, boot, faults>>

(* Writers of the flags that leave the job alone: an administrator's       *)
(* connectUser and disconnectUser, and the subscription jobs, which work   *)
(* from lists they read earlier.                                           *)
SetFlags(u, flag) ==
    /\ config[u] # None
    /\ config' = [config EXCEPT ![u].connect = flag, ![u].sync = flag]
    /\ UNCHANGED <<now, access, inbox, cron, invoice, run, setter, boot, faults>>

ConnectUser(u) == Serving /\ config[u] # None /\ ~config[u].connect /\ SetFlags(u, TRUE)
DisconnectUser(u) == Serving /\ config[u] # None /\ config[u].connect /\ SetFlags(u, FALSE)
EnableFeatures(u) == access[u].state # "none" /\ SetFlags(u, TRUE)
DisableFeatures(u) == access[u].state = "lapsed" /\ SetFlags(u, FALSE)

ResetLastSync(u) ==
    /\ Serving
    /\ config[u] # None
    /\ config' = [config EXCEPT ![u].lastSync = None]
    /\ UNCHANGED <<now, access, inbox, cron, invoice, run, setter, boot, faults>>

(* The registry is in memory: a restart loses it with every run and        *)
(* handler, and initializeAllCronJobs sets it up for the active plans, one *)
(* after the other.                                                        *)
Restart ==
    /\ faults < MaxFaults
    /\ faults' = faults + 1
    /\ cron' = [u \in Users |-> None]
    /\ run' = [r \in Runs |-> NoRun]
    /\ setter' = [h \in Setters |-> NoSetter]
    /\ boot' = {u \in Users : Active(u)}
    /\ UNCHANGED <<now, access, inbox, config, invoice>>

InitializeCronJob(u) ==
    /\ u \in boot
    /\ setter[Boot] = NoSetter
    /\ boot' = boot \ {u}
    /\ setter' = [setter EXCEPT ![Boot] = [NoSetter EXCEPT !.pc = "subscription", !.user = u]]
    /\ UNCHANGED <<now, access, inbox, config, cron, invoice, run, faults>>

SetterFails(h) ==
    /\ setter[h] # NoSetter
    /\ faults < MaxFaults
    /\ faults' = faults + 1
    /\ SetterDone(h)
    /\ UNCHANGED <<now, access, inbox, config, cron, invoice, run, boot>>

-----------------------------------------------------------------------------
(* The environment.                                                        *)

Grant(u) ==
    /\ access[u].state = "none"
    /\ access' = [access EXCEPT ![u] = [state |-> "active", until |-> now + Period]]
    /\ UNCHANGED <<now, inbox, config, cron, invoice, run, setter, boot, faults>>

Lapse(u) ==
    /\ Active(u) /\ access[u].until <= now
    /\ access' = [access EXCEPT ![u].state = "lapsed"]
    /\ UNCHANGED <<now, inbox, config, cron, invoice, run, setter, boot, faults>>

(* A message arrives; the date its sender gave it, if any, is not later.   *)
Deliver(u, e) ==
    /\ inbox[u][e] = None
    /\ \E date \in (0..now) \cup {None} :
        /\ \A v \in Users : inbox[v][e] # None => inbox[v][e].date = date
        /\ inbox' = [inbox EXCEPT ![u][e] = [date |-> date, arrived |-> now]]
    /\ UNCHANGED <<now, access, config, cron, invoice, run, setter, boot, faults>>

Tick ==
    /\ now < MaxTime
    /\ now' = now + 1
    /\ UNCHANGED <<access, inbox, config, cron, invoice, run, setter, boot, faults>>

RunStep(r) ==
    \/ SyncReadConfig(r)
    \/ CheckUserAccess(r)
    \/ ImapClient(r)
    \/ Search(r)
    \/ ExamineEmail(r)
    \/ ExtractPdf(r)
    \/ FindNumber(r)
    \/ CreateInvoice(r)
    \/ CreateFallback(r)
    \/ NextKeyword(r)
    \/ CompleteSync(r)
    \/ UpdateLastSync(r)

SetupStep(h) ==
    \/ SetupReadPlan(h)
    \/ SetupReadConfig(h)
    \/ CreateCronForUser(h)

Next ==
    \/ \E u \in Users : \/ Grant(u) \/ Lapse(u)
                        \/ \E e \in Emails : Deliver(u, e)
                        \/ \E r \in Jobs : RunSyncJob(r, u)
                        \/ \E r \in Requests : \/ SyncEmails(r, u)
                                               \/ ReadEmailTransactions(r, u)
                        \/ \E h \in Handlers : \/ SetImapConfiguration(h, u)
                                               \/ ImapDisconnect(h, u)
                        \/ ConnectUser(u) \/ DisconnectUser(u)
                        \/ EnableFeatures(u) \/ DisableFeatures(u)
                        \/ ResetLastSync(u)
                        \/ InitializeCronJob(u)
    \/ \E r \in Runs : RunStep(r) \/ ImapAuthFails(r) \/ RunFails(r)
    \/ \E h \in Handlers : \/ UpsertConfiguration(h)
                           \/ ResaveSync(h)
                           \/ StopCronForUser(h)
                           \/ SetterFails(h)
    \/ \E h \in Setters : SetupStep(h)
    \/ Restart
    \/ Tick

Spec == Init /\ [][Next]_vars

(* The scheduler fires a registered job again and again, an awaited call   *)
(* returns, and startup goes on; nothing is owed by users and mailboxes.   *)
SyncFairness ==
    /\ \A r \in Runs : WF_vars(RunStep(r))
    /\ \A u \in Users : WF_vars(\E r \in Jobs : RunSyncJob(r, u))
    /\ \A u \in Users : WF_vars(InitializeCronJob(u))
    /\ \A h \in Setters : WF_vars(SetupStep(h))

FairSpec == Spec /\ SyncFairness

-----------------------------------------------------------------------------
(* Properties.                                                             *)

(* The look for an earlier import (line 401) and the insert are separate   *)
(* calls, so overlapping runs may import an e-mail more than once, but     *)
(* never more often than runs overlap, whatever restarts, resets of        *)
(* lastSync and repeated searches do; a single run imports it once.        *)
ImportsBounded == \A e \in Emails : Cardinality(Naming(e)) <= Cardinality(Runs)

(* The window that opens at t, as far as the import can tell: the search   *)
(* knows the day a message arrived, and its date counts if it has one.     *)
IsSince(m, t) ==
    /\ m.date # None => m.date >= t
    /\ Day(m.arrived) >= Day(t)

(* Nothing older than the user's configuration is imported: lastSync,      *)
(* which overlapping runs write in any order and resetLastSync clears,     *)
(* never opens an earlier window.  A message with a date is not dated      *)
(* before the configuration was created; one without a date arrived on the *)
(* day of its creation or later, and may well have been there before it.   *)
OnlySinceConfiguration ==
    \A i \in InvoiceIds : invoice[i] # None =>
        LET u == invoice[i].user
        IN  /\ config[u] # None
            /\ IsSince(inbox[u][invoice[i].email], config[u].createdAt)

(* A run among the e-mails of a mailbox began before the plan of its user  *)
(* expired, although a cron job outlives the plan it was set up for.       *)
ImportNeedsAccess ==
    \A r \in Runs : run[r].pc \notin {"idle", "manual", "access"} =>
        /\ access[run[r].user].state # "none"
        /\ run[r].started < access[run[r].user].until

(* An e-mail that looks like an invoice and is in the window of a mailbox  *)
(* with a cron job is imported in the end, through any finite number of    *)
(* failures, unless it leaves the window or the user loses the job or the  *)
(* right to import.                                                        *)
InWindow(u, e) ==
    /\ inbox[u][e] # None
    /\ e \in LooksLike
    /\ Matching[e] # {}
    /\ config[u] # None
    /\ IsSince(inbox[u][e], Window(u))
    /\ cron[u] # None
    /\ Entitled(u)
    /\ ~LimitReached(u)

WindowIsImported ==
    \A u \in Users, e \in Emails : InWindow(u, e) ~> (~InWindow(u, e) \/ Naming(e) # {})

(* A restart restores the cron job of a user whose plan is active and      *)
(* whose mailbox is set to synchronise.                                    *)
Wanted(u) == Active(u) /\ SyncConfigured(u)

RestartRestoresCron ==
    \A u \in Users : u \in boot /\ Wanted(u) ~> (cron[u] # None \/ ~Wanted(u))

(* "User disconnected successfully", answers disconnectUser: when no       *)
(* handler is at work on a configuration, a cron job does not start to     *)
(* synchronise a mailbox that is disconnected.                             *)
DisconnectedIsNotSynced ==
    [][\A r \in Jobs :
         /\ run[r] = NoRun /\ run'[r] # NoRun
         /\ \A h \in Setters : setter[h] = NoSetter
         => config[run'[r].user].connect \/ ~Entitled(run'[r].user)]_vars
=============================================================================

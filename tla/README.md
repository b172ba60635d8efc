# A TLA+ verification project for the agimtula server

The agimtula server is the NestJS backend of an invoicing service: users buy a
plan through Stripe, connect a mailbox from which invoices are imported, write
invoices and quotations, connect a bank account and let an accountant see their
books. It keeps its state in PostgreSQL (through Prisma) and Redis, and talks to
Stripe, to IMAP servers, to a PDF extractor and to a bank API.

This directory holds TLA+ models of the parts of the server that decide
something over time, the TLC configurations that check them, and proofs that
TLAPS checks. Paths are relative to the repository; the application is under
`src/src`.

One fact shapes every model: **no handler uses a database transaction**. A
handler is a sequence of awaited calls, each of them atomic, and any other
handler, webhook delivery or job may run between two of them. A handler whose
call fails stops, and what it has written stays. So each awaited call is an
action, and what a handler carries from one call to the next is a record in a
variable of its own.

## Inventory

| Component | State | Operations | What is hard | What makes it correct |
|---|---|---|---|---|
| Payments (`user-dashboard/payment/payment.service.ts`, `stripe.service.ts`) | `userSubscriptionPlan` (unique per user), `userSubscriptionPlanHistory` with `subscriptionPlanPaymentStatus`, checkout sessions at Stripe | `buyPlan`, `upgradePlan` | history rewritten while its session is open; session created before it is recorded | a payment is recorded, and a plan granted, only for a completed checkout |
| Stripe webhook (`payment/webhook.controller.ts`) | the same rows, sales invoices, activity log | `handleWebhook` | redelivery; unique plan row; errors are answered with 200 | one plan per payment; a payment is not lost |
| Subscription jobs (`jobs/subscription-expiry.cron.ts`) | plan rows, IMAP flags, sessions | `activateFreeTrial`, `enableSubscriptionFeatures`, `checkNearExpiry`, `deactivateExpiredSubscriptions`, `sendExpirationWarnings` | lists read before they are worked off, each job runs twice at a time, one failure ends the loop | nobody loses a running plan; every expired plan and every trial is dealt with |
| Trial reminders (`imap-apis/cronConfig.service.ts`) | sessions | `checkTrialExpiry` | a session outside the usual flow; its link is only written to the log | it disturbs no purchase |
| IMAP settings (`auto-invoice-imports/manage-connection.service.ts`, `imap-system-monitor.service.ts`) | `imapConfiguration` | save, connect, disconnect | check, 20 s of network, write; flags with five writers | only subscribers have a configuration |
| IMAP synchronisation (`imap-apis/*.ts`, `auto-invoice-imports/imap-sync.service.ts`) | cron registry (in memory), `lastSync`, imported invoices | cron, manual and debugging runs | overlapping runs of a mailbox, check-then-insert, swallowed errors, restart | each e-mail of the window is imported once |
| Registration (`auth/auth.service.ts`, `auth.controller.ts`) | accounts; codes and verification tokens in Redis | `sendRegistrationOtp`, `verifyRegistrationOtp`, `completeRegistration` | a wrong guess writes back what was read, with a new life time | an account belongs to an address that was read; guesses are bounded |
| Login and guard (`auth/auth.service.ts`, `auth/guard/auth.guard.ts`) | `isDeleted`, login codes in Redis, signed tokens | `login`, `verifyLogin2FA`, `canActivate`, `deleteAccount` | the same; a used code that is written back; tokens that outlive the account | guesses and sessions of a code are bounded; a deleted account is refused |
| Two-factor toggle (`auth/2fa.service.ts`) | `twoFactorEnabled`, a code in Redis | `sendTwoFACode`, `verifyTwoFA` | two requests with one code | one toggle per code and overlapping request |
| Password reset (`auth/forget-password.service.ts`) | code, then crypto token in Redis, password | send, verify, `changePassword`; `updatePassword` | the token is deleted after the password is written | a password set through a token was confirmed by mail, and a token is good for one |
| Sales invoices (`invoices/invoices.service.ts`) | drafts, invoices, items | create, draft, publish, update, delete; paid by the webhook | monthly limit checked before the insert, unique number | limit and number respected, payment recorded once |
| Accountant link (`accountant-requests.service.ts`, `request-accountant.service.ts`, `manage-clients.service.ts`, `validate-accountant-access.ts`) | requests, `haveAccountant`, `accountantId`, `previewedByAccountant` | request, approve, reject, add, remove, look at a purchase | every decision is made on a row read before | accountants respect each other's clients; an approval links |
| Bank import (`bank/tink.service.ts`) | access token, transactions | `storeTransactions` | imports overlap; the key is unique in the whole table | nothing reported is lost |
| Bank statements (`bank/parsers/mt940.parser.ts`) | none | `parseMT940` | a description follows its transaction on a later line; optional fields without separators | every transaction once, with its own description, amount and dates |
| Payment methods (`settings/paymentMethod.service.ts`) | rows per user, default flag | create, update, make default; deleting always throws | clear-then-set of the default | one default per overlapping request |
| Plan catalogue (`admin-dashboard/subscriptions`) | plans, their prices, prices at Stripe | create, update, delete; `buyPlan`, `upgradePlan` | prices deleted and inserted in two calls; a price at Stripe stored in a row that was replaced; a history rewritten while its session is on its way | a plan can be bought; a session charges what its history says |
| Support tickets (`admin-dashboard/support-tickets`) | tickets | create, status, view | the code in a second call; the priority written as read | every ticket has a code; priorities are not lost |
| Quotations (`quotations/quotations.service.ts`) | quotations | create, draft, send, update, remove | marked as sent before the mail, mailed as found | the status agrees with the client's mailbox |
| Mileage and receipts, layout, notification and business settings, profile, sync intervals, administration settings | rows of one user or one list | CRUD | none over time | none over time |
| User and accountant administration | users | create, delete, role, status | tokens outlive a role by up to a day | see the guard |
| Dashboards, reports, weekly summary, activity log | none of their own | read, mail | none | none over time |

Interaction: the payment API and the webhook share the plan and history rows
with the jobs; the jobs and the IMAP handlers share `imapConfiguration`; every
import asks the plan rows for access; the cron registry is shared by the
settings handlers, startup and the runs it starts; Redis is shared by the
authentication flows. The catalogue is read by the payment API, which writes the
Stripe price back into it. The weekly summary and the dashboards only read.

The components of `PROJECT.json` follow this table, and its hazards are the
places where the third column bites.

## Modules

| Module | Content |
|---|---|
| `Entitlement` | what a user's access is to everybody else: granted once, with an end date that never moves, lapsing only after it |
| `Subscription` | payments, webhook, subscription jobs, trial reminders, IMAP flags |
| `SubscriptionProofs` | theorems about `Subscription` for every value of its constants |
| `MCSubscription` | instances of `Subscription` for TLC |
| `ImapSync` | IMAP configurations, cron registry, synchronisation runs |
| `ImapSyncProofs` | theorems about `ImapSync` for every value of its constants |
| `MCImapSync` | instances of `ImapSync` for TLC |
| `SalesInvoice` | invoices that users write: drafts, publication, number, monthly limit, payment link and its webhook, deletion |
| `SalesInvoiceProofs` | theorems about `SalesInvoice` for every value of its constants |
| `MCSalesInvoice` | instances of `SalesInvoice` for TLC |
| `Backend` | what request handlers have in common: slots, awaited calls, failures, restarts, keys of Redis that expire |
| `Registration`, `Login`, `PasswordReset` | the flows around one-time codes and tokens, the guard, the two-factor toggle |
| `AccountantLink` | requests for an accountant, their answers, accountants and their clients |
| `PaymentMethods` | payment methods and their default flag |
| `PlanCatalogue` | plans and prices under the hands of an administrator and of customers |
| `SupportTickets`, `Quotations` | tickets and quotations |
| `BankImport`, `BankStatement` | transactions fetched from the bank; the MT940 parser |
| `BackOffice` | the ten components above side by side |
| `BackendProofs` | lemmas that the proofs of these components share: moves of handlers, induction, the tables `Answers` and `Uses` |
| `AccountProofs` | `Registration`, `Login` and `PasswordReset`, each proved on its own |
| `DeskProofs` | the same for `BankImport`, `BankStatement`, `SupportTickets`, `Quotations` and `AccountantLink` |
| `CatalogueProofs` | the same for `PaymentMethods` and `PlanCatalogue` |
| `BackOfficeProofs` | the results for the components side by side |
| `MCBackOffice` | the instance of `BackOffice` for TLC |
| `MCBankStatement` | `BankStatement` by itself, for TLC |

`Subscription` implements `Entitlement` (`Access == INSTANCE Entitlement WITH ...`, a
refinement mapping, checked and proved), and `ImapSync` takes `Entitlement` as its
environment: its `Grant` and `Lapse` are steps of it, so `ImapSync` needs to know
nothing of payments.

### Subscription

| Variable | Code |
|---|---|
| `plan` | `userSubscriptionPlan`; `plan[u] = None` is the absent row, and the unique `UserId` is the function |
| `hist` | `userSubscriptionPlanHistory` with its payment status, created by one nested insert |
| `session` | checkout sessions at Stripe; `hist` is `metadata.historyId` |
| `imap` | `imapConfiguration`: no row, or its `connect` flag (`sync` is written with it) |
| `activity` | the two payment entries of the activity log |
| `req` | HTTP handlers and webhook deliveries in flight, some number of slots per user |
| `act`, `enable`, `deact` | runs of the three jobs in flight, with the lists they still work through |
| `now`, `faults` | the clock in days, and how much has gone wrong so far |

Each action is one awaited call (the comment above it names the handler). A
handler that ends returns to `Idle`; a refused request is a step that is not
taken, or returns to `Idle`. A delivery of the webhook runs in a slot of the
user of its session: slots only bound how many handlers run at a time.

Abstractions: prices, texts and the catalogue are left out (`Offers`,
`TrialDays` and `PeriodDays` stand for the active rows of `PackagePricing`);
looking up a Stripe price, the user or the profile decides nothing and is part of
the next call; `TrialReminder` reads the plan and creates the session in one
step, because nothing it reads is written meanwhile, and its session is never
paid: the mail that is to carry the link is still a TODO (`cronConfig.service.ts`
283-298 writes it to the console), so the session can only expire; events of Stripe other than
`checkout.session.completed` reach no plan row (the failure events write log
entries, and a subscription's later invoices are ignored by the code);
`checkNearExpiry` and `sendExpirationWarnings` only send mail.
`SubscriptionExpiryCron` is provided by `payment.module.ts` and by
`jobs.module.ts`, so there are two instances of each job: `Activators`,
`Enablers` and `Deactivators`.

### ImapSync

| Variable | Code |
|---|---|
| `access` | whether a user's plan row is active, and its `expiredAt` (see `Entitlement`) |
| `inbox` | messages in the mailbox: Date header and arrival |
| `config` | `imapConfiguration`: `connect`, `sync`, interval, `lastSync`, `created_at` |
| `cron` | `SchedulerRegistry`: the interval of the job `sync_<user>`, in memory |
| `invoice` | rows that an import created: user, e-mail named in `additionalNote`, `invoiceNo` |
| `run` | `runSyncJob`, `syncEmails` and `readEmailTransactions` in flight |
| `setter` | `setImapConfiguration`, `imap_DisConnect` and startup in flight |
| `boot` | users `initializeAllCronJobs` has yet to come to |

An e-mail is what the code calls `emailId`: sender, subject and date, where the date
may be missing, and with it the only difference between two messages of the same
sender and subject. The same e-mail may reach several mailboxes. A message without
a date is never too old (`parsed.date && ...`), so it is imported if it arrived on
the first day of the window or later, and `OnlySinceConfiguration` says no more of
it: it may be hours older than the configuration. `ExtractPdf` lets the extractor fail at will. An invented
`invoiceNo` never collides. `imapSyncHistory`, `connectionStatus` and
`emailNotifications` record or display and are left out. Replacing a cron job
does no I/O and is one step. `CronConfigService` is provided twice and restores
every job twice with the same result; it is modelled once. `setSyncInterval` has
no caller. The month of the limit is longer than the clock of an instance.

### SalesInvoice

| Variable | Code |
|---|---|
| `invoice` | `Invoice` rows; `parts` says whether `serviceAndItems` and `businessDatas` have rows of it |
| `deleted` | ids that were used; a UUID is not used twice |
| `session` | checkout sessions of payment links at Stripe, `invoice` being `metadata.invoiceId`, and the delivery of `checkout.session.completed` |
| `req` | `create`, `saveToDraft`, `draftToInvoice`, `update`, `delete`, `deleteFromDraft` in flight |
| `now`, `month`, `faults` | the clock in days, the first day of the month, and how much has gone wrong |

Two fields of a row are not in the database: `origin`, the handler that inserted
it, and `links`, the wishes for a payment link it was published with; only
properties read them. Amounts, addresses, items one by one and the mail's text
are left out. `Limit` is what `create` reads from the active plan, or `None`
without a limit or a plan; invoices imported from mail, which the count includes,
are not in the table, so the limit is reached later than in the code. The prefix
of `invoiceLayout` is part of the number. A number is compared in two ways, as in
the code: without case by `findFirst`, as written by the unique column. An update
whose body names `isPaymentLinkIncluded` fails, as any call may. A customer can pay a
session only once it was mailed: nobody else learns its URL before. The order of
a publication is that of the code: the row says unpaid before the mail goes out.

### Backend and the components built on it

`req` holds the handlers in flight, any of the components' requests in any slot of
`Handlers`; the field `pc` names the awaited call that is made next, and the other
fields are what the handler carries to it. A handler begins with its first lookup
and the early returns that follow from it. `Fail` is a call that throws: mail,
Stripe and the bank fail by themselves; that a call to the database fails leaves
behind what a restart at that point leaves, so only `Restart` ends a handler
there. Redis waits for its server and does not fail. `Aged` is the life time of
its keys in ticks, which may come at any time.

| Module | Variables and their code |
|---|---|
| `Registration` | `account`, `byAdmin`: addresses with a row `Email`; `otp`, `token`: keys `otp:registration:<email>` and `otp:verified:<token>` |
| `Login` | `isDeleted`, `twoFactorEnabled`: columns of `User`; `login2FA`, `switchOtp`: keys `2fa:login:<email>` and `otp:<userId>`; `signed`: who holds an access token |
| `PasswordReset` | `password`: the column, by how it was set; `forPas`, `cryp`: keys `forPas_<email>` and `cryp_<token>` |
| `AccountantLink` | `link`: `accountantId` with `haveAccountant`, always written together; `isUser`: `role`; `requests`: `AccountantRequest`; `previewed`: `previewedByAccountant` |
| `PaymentMethods` | `methods`: the rows of one user; `makeDefault` never reaches `createPaymentMethod` (it has no parameter decorator, `settings.controller.ts:101`), so a new method is not the default, and `deletePaymentMethods` always throws (lines 186-193 look for the id in a property of a string), so none is deleted |
| `PlanCatalogue` | `plans`, `pricing`: `SubscriptionPlan`, `PackagePricing`; `atStripe`: prices at Stripe; `histories`: what the customer owes and what the session charges; one customer, one billing period, and one row for all the prices a request brings, so a list is empty, inserted, or refused for a placeholder that exists |
| `SupportTickets` | `tickets`: rows by `ticketNumber` |
| `Quotations` | `quotations`: rows; `received`: what the client has read |
| `BankImport` | `owner`: rows of `Transaction` by date, description and amount, which are unique together; `hasToken`: `tinkAccessToken` |
| `BankStatement` | `lines`: the statement the parser is given; of a value date the year, of an entry date month and day, of an amount its digits |

The remaining variables are history that only properties read: how often a code
was guessed, used, or a token changed a password (`wrong`, `guessed`, `opened`,
`switched`, `changed`), for whom a code was made and whether it was mailed, which methods
were made default by a toggle (`toggled`), which plans were left without prices by
their last list (`unpriced`), and the handlers whose reading has been overtaken by
another's write (`stale`, `past`, `outdated`, `bygone`, `overtaken`; `mixed` are the
histories whose session one of the latter recorded). A property that says "unless
it changed meanwhile" is about exactly these handlers.

The bounds `Answers` and `Uses` are tables by the number `n` of clients that guess
at a time and the number `left` of attempts. A single client gets as many wrong
answers as there are attempts. Each further concurrent client can, at every count,
take the counter back to what it had read before: an entry is the sum of its
neighbours, `n - 1` clients with `left` attempts and `n` with `left - 1`, and one for
the guess itself. TLC finds behaviours that reach the bounds of the instance, and
the theorems say that no instance exceeds its own. In the same way a
code of two attempts opens up to three sessions for two clients: guesses that
overlap are both right, and a wrong one that read the code before it was used
writes it back.

`BackOffice` puts the components side by side. They share the slots and the
failures; what a handler of one writes, no handler of another reads, but that a
deleted account is refused: a handler that was refused is one that did not come.
So the projection of any behaviour of the server onto one component is a behaviour
of that component with stuttering steps, and every invariant or action property
of one is decided there. `component` says which of them is served: the state
space is the sum of theirs and not the product. The two components that meet the
rest of the project do so in its constants: `PlanCatalogue` changes what
`Subscription` takes as `Offers`, and a `Members` of `Login` is an `account` of
`Registration`.

Left out: passwords and their comparison (a request begins when it will turn out
right), the life time of an access token, activity logs, texts. Codes and tokens
are drawn at random in the code; here none is drawn twice, and a wrong guess is
never right by chance.

## Runs

`Subscription*.cfg` instantiate `MCSubscription` (one offer with a trial of a
day, one paid offer with a period of a day), `Imap*.cfg` instantiate `MCImapSync`,
`Sales*.cfg` instantiate `MCSalesInvoice` (a month of three days), `StatementFormat.cfg`
`MCBankStatement`, and `BackOffice.cfg` `MCBackOffice`.

| Run | Instance | Properties | What it shows |
|---|---|---|---|
| `subscription_checkout` | 1 user, 2 requests at a time, 1 history, 2 sessions, 2 deliveries | `TypeOK`, `PaidHasCompletedCheckout`, `GrantIsBacked` | purchases, upgrades, reminders and webhooks in every order record no payment and grant no plan without a completed checkout |
| `subscription_jobs` | 1 user, 1 trial job, 2 midnight jobs, 1 fault | `InactiveOnlyAfterExpiry`, `ImplementsEntitlement`, `ExpiredIsDeactivated` | overlapping jobs and purchases keep the promise of `Entitlement`, and every expired plan is deactivated |
| `subscription_trials` | 2 users, 2 histories, 1 fault | `ImapRequiresPlan`, `TrialIsActivated` | no trial starves behind a failing one; no configuration without a plan |
| `imap_sync` | 1 mailbox, its job, its settings, an e-mail with a PDF that matches two keywords, 1 fault | `TypeOK`, `WindowIsImported`, `RestartRestoresCron` | what is in the window is imported in the end, a restart restores the job |
| `imap_overlap` | a cron run and a requested run at a time, a plan that lapses | `ImportsBounded`, `OnlySinceConfiguration`, `ImportNeedsAccess` | an e-mail is imported at most once for each run that overlaps; nothing dated before the configuration is; no run begun after expiry imports |
| `sales_invoice` | 2 requests at a time, 1 invoice, 2 sessions, 1 fault, a limit of one | `TypeOK`, `PaidThroughLink`, `CreateKeepsLimit`, `PaidIsUndoneOnlyByRepublication`, `PaymentIsRecorded` | an invoice with a payment link is paid through it, the payment is recorded in the end and undone only by a second publication; overlapping requests exceed the limit by less than their number |
| `back_office` | for each of ten components: 2 requests at a time, 1 failure or restart | `BackOfficeTypeOK`, `AccountIsConfirmed`, `OtpGuessesBounded`, `LoginGuessesBounded`, `OpenedBounded`, `SwitchedBounded`, `DeletedKeepsTwoFactor`, `ResetIsConfirmed`, `ResetsBounded`, `LinkIsRespected`, `ApprovalLinks`, `PreviewIsAllowed`, `DefaultsBounded`, `SessionChargesHistory`, `PricingReplaced`, `TicketsHaveCodes`, `PriorityIsKept`, `SentIsMailed`, `MailIsCurrent`, `ReportedIsStored`, `StatementIsRead` | one-time codes, tokens, the guard, accountants, the default method, the catalogue, tickets, quotations and bank data keep their promises in every interleaving |
| `subscription_renewal` | violation | `RenewalRestoresAccess` | a customer who renews after expiry pays and stays locked out |
| `subscription_upgrade_log` | violation | `FirstPaymentIsNoUpgrade` | a first payment is logged as an upgrade |
| `imap_disconnected` | violation | `DisconnectedIsNotSynced` | the cron job of a disconnected mailbox goes on |
| `sales_limit` | violation | `MonthlyLimit` | one request at a time creates more than the limit on the last day of the month |
| `statement_format` | violation | `FormatIsRead` | a line in the full format loses the first digit of its amount, and its entry date becomes a day of 2020 |

Why the bounds suffice. The races of the code are between two handlers over the
rows of one user (or over `invoiceNo`), so two handlers, or two job instances,
are enough to produce each of them; a second user matters only to the jobs that
loop over users, and `subscription_trials` has two. Two sessions and two
deliveries are what it takes for an old session to be completed after an upgrade
and for an event to be redelivered. One fault at any point, a failed call or a
restart, shows what a handler leaves behind; several faults only repeat that. A
clock of one or two ticks crosses every boundary (end of a trial, of a period,
start of a window) once. At the bound of a table an insert fails, as any call
may. `CHECK_DEADLOCK FALSE` stands where the clock is at its bound, every plan
has lapsed and nothing is left to do.

The limits of `imap_overlap`: one e-mail without attachment, no fault, a day of one
tick, so that a message may have arrived on an earlier day; and of `imap_sync`: one
run at a time and a day of two ticks, so that the search finds messages of before
the window. The lifetime of a plan is chosen so that it ends in the first and not in
the second.

In `sales_invoice` one invoice suffices, because requests meet over one row or over
the count, and ids are used once: the table is empty or holds the row both
handlers work on, and a limit of one is reached by it. Its clock reaches the last
day of the month and passes a due date. Two sessions are what two publications
of a draft open. `sales_limit` needs two invoices with numbers of their own, one
handler and no fault, so that nothing but the window of the count is left.

In `back_office` two requests are what every race of these components takes, and
two of whatever must not be mixed up: addresses, users, accountants, amounts,
transactions, descriptions. Two codes of registration and of reset let a new code
meet a request that holds the old one; one login code and two attempts let a
guess be counted late (registration counts in the same way, with one attempt).
In the catalogue one plan, two rows of prices, two prices at Stripe and one history let
an update overtake a purchase and an upgrade rewrite the history of a purchase that is
still opening its session; a name that is taken only refuses. A restart happens at most once. Statements have up to
three lines, of every kind: a transaction, a description and the next
transaction. The run states no liveness, so handlers, and the two members of each
of those sets, are symmetric. `CHECK_DEADLOCK FALSE` stands because a table or a
statement that is full takes no more.

### Fairness

`JobFairness` and `SyncFairness` are weak fairness of the steps of jobs and runs
in flight, of the firing of scheduled jobs, and of startup: the scheduler fires a
job again and again, and a call that was made returns or fails. Users, Stripe,
mail servers and the clock owe nothing. Failures are bounded by `MaxFaults`: a
call that always fails defeats any such property. Cron runs have slots of their
own (`Jobs`), since in the code a requested run never keeps a job from firing.
`FairSpec` of `SalesInvoice` is weak fairness of the webhook's steps for a session
only: Stripe delivers an event again until it is answered, so a delivery that a
restart cut off is followed by another.

## Findings

Each is shown by a violation run (the last two by one line of a statement);
`PROJECT.json` quotes the line it contradicts.

1. The plan row of a user is unique and stays when it is deactivated, so the
   webhook's insert fails for every returning customer: the payment is taken,
   the event answered 200, access is not restored.
2. The webhook asks whether a payment is an upgrade after it inserted the plan of
   that payment, and finds it.
3. `disconnectUser` leaves the cron job registered, and `runSyncJob` does not
   look at `connect` or `sync`.
4. The limit counts from the first of the month to the first instant of its last
   day, so what is created on that day is not counted.
5. In a line `:61:`, `parseTransactionLine` takes every mark to have two letters, as
   in the example of its comment (`DR500,00`); with the one letter of the format
   above it (`C/D AMOUNT`) the first digit of the amount is lost.
6. It puts `20` before the entry date, `MMDD`, and `parseDate` reads the six
   characters as `YYMMDD`: the entry date of the example is a day of 2020.

Seen while modelling and not claimed, because no document says otherwise: a
synchronisation moves `lastSync` past e-mails that arrived, or failed, while it
ran; the look for an earlier import ignores the user, so an e-mail sent to two
customers is imported for one of them; overlapping runs import an e-mail twice
(`ImportsBounded` is the exact bound); the hourly job reconnects mailboxes that
their users disconnected; a webhook grants the offer the history names when it is
read, not the one the session was opened for; two publications of a draft may call
a paid invoice unpaid again, and open two links that can both be paid;
`deleteFromDraft` is refused for a draft with items, and deletes any user's
invoice without them; `create` and `saveToDraft` compare numbers without case and
the unique column with it, so numbers that differ in case only may coexist; a
failed `delete` leaves an invoice without its items; the order of the hourly and
the midnight job over the same IMAP flags is open, and either corrects the other;
the session of the trial reminder names no history, so once its mail is written, a
payment through it would be dropped by the webhook (lines 134-138).

In the back office: an answered request for an accountant can be answered again
the other way, and a rejection does not undo the link; a restart between the two
calls of an approval, a ticket's creation or an update of a plan leaves a request
approved without a link, a ticket without a code, a plan without prices; no failure
is needed for the last, since the list of prices may be empty
(`createSubscription`), and two of one period in one millisecond have the same
placeholder, which is unique (`updateSubscription`, line 412, after the old ones
are gone); an upgrade rewrites a history while the purchase before it is still
opening its session, which may then be recorded with the amount of the other; a failed
mail leaves a quotation marked as sent; overlapping requests leave two default
methods, and toggling one never clears the others; a wrong guess brings an expired,
used or replaced code back. The public `changePassword`
(`forget-password.service.ts` 203-228) does not ask `isDeleted`, so it changes the
password of a deleted account: `DeletedKeepsTwoFactor` is about the second factor
only, which is behind the guard. A transaction with the date, description and amount
of another user's, or reported twice in one import, is skipped. An account
exists although `completeRegistration` answers that it failed, when the welcome
mail does. The role is taken from the token, so a changed role counts a day later
at the latest.

## Proofs

`SubscriptionProofs` proves for every number of users, offers, job instances,
sessions and deliveries, from the assumptions `OffersAssumption`,
`BoundsAssumption` and `NoneAssumption` (trial lengths are naturals, periods are
positive, bounds are naturals, `None` is no value of its own):

| Theorem | Statement |
|---|---|
| `Invariance` | `Spec => []IInv` |
| `TypeCorrect`, `NoEarlyDeactivation`, `PaidIsPaid`, `GrantsAreBacked`, `ImapHasPlan` | the invariants the runs check |
| `Implementation` | `Spec => ImplementsEntitlement` |
| `AccessIsFinal` | `Spec => Access!GrantsAreFinal`: end dates never move and lapsed access never comes back |

None of the safety properties is inductive. That a payment status is `PAID` only
with a completed checkout depends on the recorded session belonging to the
history (`RecordedSessionsMatch`), on what a request between two calls still
holds (`RequestsAreCurrent`: its history exists and is its user's, its session
names that history and, in the webhook, is paid), and on `SessionsMatch`. That
deactivation is never early depends on `DeactivationsAreCurrent`: every user on
the list of a midnight job has a plan that has expired, however old the list is,
because end dates do not move and rows are not deleted. `IInv` is the conjunction.

The argument is in three layers. *Frame* lemmas (`...Writers`) say which actions
write a table and how. *Growth* lemmas (`...Grows`) say what no step may undo:
rows stay, a history keeps its user, a session keeps its history and stays paid,
an end date stays. Each conjunct of `IInv` is then preserved by the actions that
write what it mentions and, for all others, by growth. The refinement maps the
three actions that insert a plan row to `Grant`, `DeactivateRow` to `Lapse` or a
stutter, `Tick` to `Pass`, and everything else to a stutter.

`SalesInvoiceProofs` proves for every number of users, numbers, invoices, sessions
and handlers, for every limit and every length of the month, from
`InvoiceAssumption` (bounds and limits are naturals, there are handlers, finitely
many) and `NoneAssumption`:

| Theorem | Statement |
|---|---|
| `Invariance` | `Spec => []IInv` |
| `TypeCorrect`, `PaymentsAreCheckouts`, `LimitIsKept` | the invariants the run checks |
| `OnlyRepublicationUndoes` | `Spec => PaidIsUndoneOnlyByRepublication` |

Its `IInv` adds to the properties what a handler holds between two calls. That
`create` never undoes a payment is not inductive: it follows from
`CreatesHoldAlone`, that until a handler ends nobody else works on the invoice it
inserted and its session was not sent, which in turn needs that a created invoice
never was a draft (`CreatedIsNoDraft`), that ids are not given out again
(`ReferencesWereInserted`) and that a handler's session is its invoice's
(`SessionsAreTheHandlers`). That a payment is a checkout needs that the webhook
goes on only with a paid session (`HooksFollowPayment`); that a new month starts
with no invoices needs that no row is of the future (`RowsAreOfThePast`). The
lemmas `RequestChange`, `InvoiceChange`, `SessionChange` and `TimeChange` give the
forms a step can have; the rest of the argument is about these forms, not about
actions. The bound of `LimitIsKept` follows by counting: a request begins below
the limit, an insert makes one request less and one invoice more.

`ImapSyncProofs` proves for every number of users, e-mails, invoices and runs, for
every set of intervals, limit and trial, from `ImapAssumption` (bounds and lengths
are naturals or positive, the tables of the environment have their types, `Boot` is
no handler, scheduled and requested runs are different and finitely many) and
`ImapNone`:

| Theorem | Statement |
|---|---|
| `SyncTypes`, `ImportsHaveAccess`, `ImportsAreRecent`, `ImportsAreBounded` | the invariants the runs check: `TypeOK`, `ImportNeedsAccess`, `OnlySinceConfiguration`, `ImportsBounded` |

Its `SyncInv` says what a run carries over its awaited calls (`RunIsBacked`): its
configuration is still there, its window opened no earlier than that, the access it
was granted reaches past its start, the e-mails it found are in the mailbox. That
nothing older than the configuration is imported needs in addition that `lastSync`
never lies before the configuration (`ConfigIsInOrder`), even when it is reset by
the settings. `ImportsBounded` is not inductive: what is, is that the imports of an
e-mail and the runs past the look for it are together at most the runs there are
(`ImportsAreCounted`). A run joins them only while nobody has imported the e-mail,
and one that imports it leaves them.

The components of `BackOffice` are proved each on its own, over its `Init` and
`Next` with any number of handlers and failures, from `BackendAssumption` (`None` is
not `Gone`, handlers are finitely many and there are some, failures are bounded),
the component's `...Assumption` (bounds are naturals, life times are positive) and
its `...None` (`None` is no value of its own):

| Module | Theorems | Statement |
|---|---|---|
| `AccountProofs` | `AccountsAreConfirmed`, `OtpGuessesAreBounded` | `AccountIsConfirmed`, `OtpGuessesBounded` of `Registration` |
| | `LoginGuessesAreBounded`, `OpenedAreBounded`, `SwitchesAreBounded`, `TwoFactorsAreKept` | `LoginGuessesBounded`, `OpenedBounded`, `SwitchedBounded`, `DeletedKeepsTwoFactor` of `Login` |
| | `ResetsAreConfirmed`, `ResetsAreBounded` | `ResetIsConfirmed`, `ResetsBounded` of `PasswordReset` |
| `DeskProofs` | `ApprovedIsLinked`, `LinksChangeAsSeen`, `PreviewsAreAllowed` | `ApprovalLinks`, `LinkIsRespected`, `PreviewIsAllowed` of `AccountantLink` |
| | `EveryTicketHasCode`, `PriorityOnlyIfAsked` | `TicketsHaveCodes`, `PriorityIsKept` of `SupportTickets` |
| | `StatusTellsMail`, `MailedAmountIsCurrent` | `SentIsMailed`, `MailIsCurrent` of `Quotations` |
| | `ImportsAreStored` | `ReportedIsStored` of `BankImport` |
| | `StatementsAreRead` | `StatementIsRead` of `BankStatement`, from its type invariant alone |
| `CatalogueProofs` | `DefaultsAreBounded` | `DefaultsBounded` of `PaymentMethods` |
| | `SessionsChargeHistories`, `PricesAreReplaced` | `SessionChargesHistory`, `PricingReplaced` of `PlanCatalogue` |

`BackOfficeProofs` carries all of them over to `Spec` of `BackOffice`, where the run
checks them; these are the theorems `PROJECT.json` lists, with `BackOfficeTypes` for
`BackOfficeTypeOK`. For each component there are two lemmas. `...IsServed`: while
`component` names it, a step of `BackOffice` is one of the component or leaves its
variables alone. `...Rests`: while it names another, its tables stay as they began,
which satisfies its properties. `component` never changes, so there is no third case.

The inductive invariants and why they are needed:

- *Where a code comes from* (`RegistrationInv`, `ResetInv`, `LoginInv`). That an account
  was confirmed depends on the token the handler holds, that on the code the token
  was bought with, and that on the address the code was made for. Each link of the
  chain is a conjunct, for the keys in Redis and for what handlers hold; codes and
  tokens are never drawn twice, and mails never unsent, so the links stay.
- *A token used once per request* (`ResetInv`). While a token is there, each handler
  that changed a password by it has yet to delete it or has failed; once it is gone,
  only those that saw it before use it (`Counted`). A bound in terms of the sum of
  both is kept by the deletion, at which the one becomes the other. `SwitchCounted`
  is the same for the second factor, where the key goes first.
- *Read before it was overtaken* (`LinkInv`, `TicketsInv`, `QuotationsInv`). What a
  handler decided on still holds, unless it is among those another's write has
  overtaken: `SeenIsCurrent`, `PriorityIsCurrent`, `AmountIsCurrent`. From this the
  three action properties follow at the step that writes. `DeletedBehindGuard` of
  `LoginInv` is the same for those who were past the guard at the deletion.
- *What a failure leaves behind* (`LinkInv`, `TicketsInv`, `OfferInv`). A ticket without
  its code, or an approval without its link, belongs to a handler that is about to
  write it, or to a failure; a failure ends at most all handlers, so it loses at most
  as many rows (`LostByFailure`).
- *The default method* (`MethodsInv`). Handlers of `makePaymentDefault` that cleared
  the flags of the others and are about to set one count as if they had (`Due`), except that
  several may choose the same method; the rest of the argument is that clearing
  leaves only those. Methods that a toggle made default are not counted.
- *What a session charges* (`BuyInv`). The row a purchase reads may be replaced at any
  of its calls, and its id does not come back; so what was read and what the price at
  Stripe takes remain the same amount, and a row never holds a price of another
  amount, although the purchase writes it back late. What the history says is the
  same amount too, until an upgrade rewrites it: the handlers that had written it
  before are `overtaken` from then on, and only they make it `mixed`.
- *What the parser has read* (`IsReadUpto`). The parser's loop is a recursive function
  of the number of lines, `Reading`, which exists by `Recursion`. After each number
  of lines the transactions are those of the lines `:61:` so far, in order, each with
  the last description that belongs to it; the one being read counts as the last
  (`IsReadUpto`, by `NatSets`). A line `:86:` changes that one only, since all others
  had a `:61:` after them. In the end the numbers of the lines `:61:` are different,
  so the `n`-th transaction is that of line `At61(n)`.

*The bounds of guesses* (`GuessesAreCounted`, `LoginCodesInv`) are not a count of
handlers. A wrong guess writes the code back with one attempt less than it *read*, so
the code allows more guesses than before if others were counted meanwhile, and no
measure of the state alone decreases. What is invariant is a `Ladder`: there is a
function `P` of the number `t` of attempts such that the guesses made so far are at
most `P[LoginAttempts]`, and each step from `t` to `t + 1` is at most the step of the
table `Answers` in the row of those handlers who have no guess with more than `t`
attempts left (`Rung`). A step by which nobody gets such a guess keeps `P`
(`LadderStays`). A guess with `d` attempts left that is written back sets `P` to zero
below `d` and adds one from `d` on (`LadderClimbs`): whoever had no guess with as many
left still has none, and the guesser has none any more, so the row at `d - 1` is that
of one handler more, and this is the recursion of the table. In the end `P` is below
the table's entry for all handlers (`LadderBounds`). For the sessions one code opens
the table is `Uses`, and a right guess counts as one with a single attempt left. That the
tables satisfy their recursion (`AnswersIsTable`, `UsesIsTable`) needs that a
recursive function exists; `BackendProofs` proves primitive recursion (`Recursion`)
and induction (`NatSets`) for functions and sets instead of operators, from
`WFMin`.

Only model-checked: liveness (`ExpiredIsDeactivated`, `TrialIsActivated`,
`WindowIsImported`, `RestartRestoresCron`, `PaymentIsRecorded`), which is out of the
prover's reach, and the five violations. Every other property of a passing run is
the statement of a theorem.

## Plan

1. `Subscription` with `Entitlement`: done.
2. `SubscriptionProofs`: done.
3. `ImapSync` and `ImapSyncProofs`: done.
4. `SalesInvoice` and `SalesInvoiceProofs`: done.
5. `Registration`, `Login`, `PasswordReset`: done.
6. `AccountantLink`, `PaymentMethods`, `PlanCatalogue`, `SupportTickets`,
   `Quotations`, `BankImport`, `BankStatement`, and `BackOffice`, which gives them one
   run: done.
7. `BackendProofs`, `AccountProofs`, `DeskProofs`, `CatalogueProofs` and
   `BackOfficeProofs`: done.
8. `StatementIsRead`, with the parser's loop as a recursive function of the number
   of lines read, for which `NatSets` gives induction: done.
9. Open: `ImapSync` next to `Subscription` in place of `Entitlement`, with
   `ImportNeedsAccess` and `OnlySinceConfiguration` carried over by `Implementation`.

## Not modelled

- `webhook/webhook.controller.ts`: no module registers it. `storeTransactions` and
  `matchTransactions` of `bank-transaction/transaction.service.ts` and
  `setSyncInterval`: no callers.
- The Prisma client under `prisma/generated`, which is most of the repository's
  lines: generated from the schema, and present here as the tables of every model.
- Dashboards, reports, lists, the weekly summary: they read. (Seen on reading the
  summary: `setDate` at lines 51 and 52 of `jobs/weekly-summary.cron.ts` moves `now`
  back to a Sunday before the second one reads it, so `weekEnd` equals `weekStart`.)
- Profile, layout, notification, business and administration settings, sync
  intervals, mileage, `updateStatus` of a user: a single write of a single row that
  nothing else depends on. Receipts: the same; their category is kept by a foreign
  key.
- The CAMT parser, which walks an XML tree field by field, and the upload of a
  statement, which stores a file.
- Framework wiring, exception filters, mail transport, file storage.

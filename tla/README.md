# Formal verification of heightt-backend

This directory holds TLA+ models of heightt-backend - the parts that move
money, the accounts of its users, and the campus services built on them - the
TLC configurations that check them on small instances, and TLAPS proofs of the
properties that matter most. Paths below are relative to the
repository root; `finance/` stands for `src/v1/finance/`, `bachs/` for
`src/v1/bachs/`.

Check a run with `tlc -workers 2 -config WithdrawalsOverlap.cfg MCWithdrawals`
(the configuration's name is the run's name in `PROJECT.json`), and the proofs
with `tlapm` on `WithdrawalsProofs.tla`, `CheckoutsProofs.tla`,
`WalletsProofs.tla`, `PaymentsProofs.tla`, `AccountsProofs.tla`,
`CampusProofs.tla`, `ElectionsProofs.tla` and `ReceiptsProofs.tla`.

Contents: [1. Inventory](#1-inventory), [2. Plan](#2-plan),
[3. Modules and the code](#3-modules-and-the-code),
[4. Runs, bounds and fairness](#4-runs-bounds-and-fairness),
[5. Where documentation and code disagree](#5-where-documentation-and-code-disagree),
[6. Proofs](#6-proofs), [7. Not modelled](#7-not-modelled).

## 1. Inventory

heightt-backend is a NestJS server for student associations: students pay dues,
organisations collect and withdraw them, elections and activities are run, and
a platform administration oversees it. State lives in PostgreSQL (through
Prisma, isolation level READ COMMITTED), Redis holds caches, locks and
one-time codes, and the payment provider Bachs holds checkouts and payouts.
Several requests, webhooks and cron jobs run at once, on several server
processes if they are deployed so; nothing but the database and Redis orders
them.

| Component | State | Operations | Interacts with |
|---|---|---|---|
| **Withdrawals** (`finance/finance.service.ts` 2700-3940, `finance/withdrawal-webhook.service.ts`) | `withdrawals`, `wallet_holds`, the wallet row, ledger accounts, journal entries | request (user, organisation, platform), approve, reject, settle, submit payout, record payout, compensate, webhooks paid/failed/created, ten-minute reconciliation | ledger, wallets, Bachs payouts |
| **Bachs payments** (`bachs/bachs.service.ts`, `bachs/bachs-webhook.controller.ts`) | `pending_payments`, `payments`, `due_payments`, `due_assignments.isPaid` | initiate, complete, status poll, cancel, webhooks completed/succeeded/failed/underpaid/expired | dues, wallets, ledger, receipts, Bachs checkouts |
| **Wallets and their cache** (`finance/wallet.service.ts`, `creditWallet`, `debitWallet`, internal and manual payments) | `wallets`, `wallet:*` keys in Redis (300 s) | get-or-create, credit, debit, pay internally, pay manually | ledger, idempotency |
| **Ledger** (`finance/ledger.service.ts`) | `ledger_accounts`, `journal_entries`, lines | create entry, reverse entry, reverse a fee share, reconcile, reports | every money operation |
| **Idempotency** (`redis/idempotency.service.ts`, `redis/redis.service.ts`) | response cache, `SET NX` lock, `idempotency_keys` | process with a key, mark as used | internal and manual payments |
| **Dues** (`finance/finance.service.ts` 843-1533) | `dues`, `due_assignments` | create, assign, resolve, delete | payments |
| **Receipts** (`finance/receipt.service.ts`) | `receipts` | generate, regenerate, read | payments |
| **Guest payments** (`finance/guest-payment.service.ts`) | guest payments, claim codes | initiate, request a code, verify a code | dues, e-mail |
| **Bank accounts** (`finance/bank-account.service.ts`) | `bank_accounts` | add, set default, remove | withdrawals |
| **Authentication and sessions** (`auth/`) | `users`, `sessions`, reset and verification tokens | register, verify, log in, refresh, log out, reset a password | rate limits, e-mail |
| **Rate limits and one-time codes** (`redis/rate-limit.service.ts`, `redis/otp.service.ts`) | Redis counters and codes | check, increment, store, verify | authentication |
| **Cache** (`redis/cache*.ts`, `common/interceptors/cache*.ts`) | Redis keys and tags | get, set, invalidate | every read endpoint |
| **Activities** (`activities/`) | activities, registrations | create, register, confirm, cancel | payments |
| **Governance** (`governance/`) | elections, positions, candidates, votes | nominate, start, vote, end | organisations |
| **Organisations and membership** (`organizations/`) | organisations, memberships, join requests | request to join, review, cancel | approvals |
| **Approvals, self-service** (`approvals/`) | approval requests | submit, review | organisations |
| **Students and promotion** (`students/`) | student profiles, levels | promote one, promote in bulk, promote an institution | institutions |
| **Onboarding** (`onboarding/`) | onboarding progress | steps of a form | users, organisations |
| **Users, institutions, RBAC** | their tables | single-row administration | everything |
| **Notifications, e-mail, files, search, analytics, dashboard, audit, platform** | logs and derived data | best-effort delivery, read-only queries | - |

### What is hard here

* **Interleaving inside transactions.** Almost every operation reads rows and
  later writes *absolute* values computed from them. READ COMMITTED does not
  stop another transaction from committing in between; only the withdrawal
  request takes a row lock (`SELECT ... FOR UPDATE`).
* **Checks outside the transaction.** Webhook handlers, reviews and
  registrations read a status first, decide, and open the transaction later.
* **Two systems of record.** A payout or checkout exists at Bachs whether or
  not the server heard the answer; events are lost, duplicated, delayed,
  reordered, and race with status polls and cron jobs.
* **Several transactions per request.** An organisation's request, settlement,
  payout and its recording are four transactions of one call.
* **Locks with a time-out** (idempotency, 30 s) and caches (300 s).

The hazards, each at its line with the properties that watch it, are listed in
`PROJECT.json`.

## 2. Plan

Money first, because a wrong interleaving there is the most expensive and the
hardest to reach with a test; then the accounts of users; then the services.

| Module | Component | State |
|---|---|---|
| `Withdrawals`, `WithdrawalPromise` | withdrawals, their webhooks and cron | checked, proved, refinement |
| `Checkouts`, `DueCollection` | Bachs checkouts for dues | checked, proved, refinement |
| `Wallets` | wallet operations, wallet cache, wallet payments | checked, proved |
| `GuestClaims` | guest payments and claim codes, with the completion and the receipt | checked, proved |
| `BankAccounts` | bank accounts, payout destinations | checked, proved |
| `Receipts` | receipt numbers | checked, proved |
| `Sessions` | login, refresh, logout, revocation, password reset | checked with liveness, proved |
| `PasswordResets` | reset links | checked, proved |
| `RateLimits` | counters with a time to live | checked with liveness |
| `Elections` | nominations, ballots, status of an election | checked, proved |
| `Registrations` | registrations, capacity, check-in | checked, proved |
| `Promotions` | academic sessions, promotion, student records | checked, proved |
| `Memberships` | join requests, memberships, status of an organisation | checked, proved |
| `Approvals` | self-service organisations and their review | checked, proved |
| `Dues` | create, assign, resolve, delete (`finance/finance.service.ts` 843-1533) | left |
| `OneTimeCodes` | `redis/otp.service.ts`, registration, e-mail verification | left |

`Payments` and `Services` compose several of these modules side by side, for
the runs (`MCPayments`, `MCServices`) and the proofs alike; `MCProgress` does so
for the liveness properties (section 4).

What the plan has left: the two modules marked so; paid registrations of an
activity, which would compose `Registrations` with `Checkouts`; the memberships
that a promotion moves (`students/promotion.service.ts` 304-326) and that an
appointment makes (`rbac/rbac.service.ts` 417), which would compose `Promotions`
and `Approvals` with `Memberships`; and proofs of the
neighbouring properties that section 6 leaves to TLC.

## 3. Modules and the code

All modules share one way of looking at the server. A *worker* (in
`Wallets`, a *request*) is one execution of a handler. A database transaction
that reads and later writes is two steps, read and commit, since READ COMMITTED
lets others commit in between; its writes are one step, because the first of
them takes the row locks the others need and nothing of them is visible before
the commit. The reads of one transaction are collapsed into one step: each of
them is of a different row, and a change between two of them is a change before
or after both for every row but the one it touches. A row that a transaction
reads only after it has locked a row of the same wallet is read in the commit
step. Network calls to the provider are steps between transactions, as in the
code. A handler may be cut short anywhere, up to `MaxCrashes` times.

The constant `Isolated` selects the schedule. `FALSE` is the program as it is
deployed. `TRUE` keeps the steps of other handlers out of the gap between a
read and its commit: the schedule of a single-process server with little
traffic, and the one that separates what the *logic* of the handlers promises
from what their missing locks take away. Where a property needs
`Isolated = TRUE` there is an instance (section 5) that shows it fail without.
The modules written later have no such constant. They keep a *history* variable
instead - `doubled`, `crowded`, `crossed`, `raced`, `abreast` and the like - that
remembers for which rows two handlers overlapped in the way the code does not
guard against, and the property exempts those rows only. The handlers overlap
freely all the same, and a counterexample (section 5) shows that the exemption
is needed.

`Payments` instantiates `Checkouts`, `GuestClaims` and `BankAccounts` beside
`Wallets`, which it extends; `Services` instantiates `Sessions`,
`PasswordResets`, `Registrations`, `Promotions`, `Memberships` and `Approvals`
beside `Elections`. The initial state chooses which of them runs (`part`), and
the others never move. Each keeps its own variables and is given its constants,
under the assumptions stated there: the due of a guest record is a due there is
(`ClaimsAssumption`), a browser sends one of the three applications
(`SignInAssumption`), capacities are numbers (`SeatsAssumption`), a place is a
pair of an organisation and a student and the orders are statuses
(`PlacesAssumption`), and rows, levels and years are counted from one.

### `Withdrawals` - `finance/finance.service.ts` 2700-3940, `finance/withdrawal-webhook.service.ts`

| State | Code |
|---|---|
| `status`, `fee`, `recorded` | `withdrawals.status`, `.fee`; whether the provider's payout id is in the row |
| `allocated`, `platformFee` | the fee allocation in `withdrawals.metadata` |
| `hold`, `heldBalance`, `balance` | `wallet_holds` of the request; `wallets.heldBalance`, `wallets.balance` |
| `journal`, `lineAmount`, `feeJournal` | the journal entry of the withdrawal, the amount of its lines, the entry of the platform's share |
| `account`, `clearing` | `ledger_accounts.balance` of each wallet's account and of account 1100 |
| `payout`, `payoutFee`, `sent`, `delivered` | the provider: its decision, its fee, its events and their deliveries |
| `credits`, `late` | history: deposits by other handlers; withdrawals whose fee was corrected after their refund |
| `pc`, `on`, `endpoint`, `seen` | handlers: where they are, on which row, through which endpoint, what they read |

| Actions | Code |
|---|---|
| `Request` | `requestUserWithdrawal`, `requestOrganizationWithdrawal`, `requestPlatformWithdrawal`: check and reservation under `SELECT ... FOR UPDATE` |
| `SettleOwn`, `Approve`, `SettleCommit`, `SettleRollback` | `settleWithdrawal`, `approvePlatformWithdrawal`, `createOrReuseWithdrawalJournal` |
| `RejectRead`, `RejectCommit` | `rejectUserWithdrawal` |
| `Submit`, `RecordRead`, `RecordCommit`, `RecordFails` | `triggerWithdrawalTransfer`: the call to the provider and the transaction that records its answer |
| `CompensateRead`, `CompensateCommit` | `compensateFailedPayoutSubmission` |
| `PaidWebhook`, `FailedWebhook`, `CreatedWebhook` and their commits | `handleWithdrawalSucceeded`, `...Failed`, `...Pending` |
| `Reconcile`, `ReconcileRead` | `reconcileStaleProcessingWithdrawals` |
| `Decide`, `AcceptPayout`, `Credit`, `Crash` | external: the provider, deposits by other handlers, the process |

`WithdrawalPromise` is the abstract specification: where the money of each
withdrawal is (free, reserved, debited, returned), that it is debited once and
given back once, and that only money the provider has paid is gone for good.
`Withdrawals` maps to it by reading the whereabouts off the journal entry and
the hold.

### `Checkouts` - `bachs/bachs.service.ts`, `bachs/bachs-webhook.controller.ts`

| State | Code |
|---|---|
| `status`, `due`, `checkout`, `old` | `pending_payments`: status, due, checkout id, created more than 60 minutes ago |
| `paidBy`, `receipts`, `duePayment`, `balance` | `payments` by their reference (with the session charged), `receipts`, `due_payments` and `isPaid`, wallets and ledger accounts |
| `session`, `rowOf`, `offered`, `failedAttempts` | the provider's sessions, the reference in their metadata, those whose address the student has, those with a failed or underpaid attempt |
| `pc`, `task` | handlers and what they work on |

| Actions | Code |
|---|---|
| `Initiate`, `InitiateCommit`, `InitiateConflict` | `initiatePayment`: reuse, close or create an attempt; the partial unique index |
| `OpenSession`, `StoreCheckout` | `createCheckoutSession` after the commit, the checkout id written afterwards |
| `SucceededWebhook`, `CompleteRead`, `CompleteCommit`, `CompleteConflict`, `IssueReceipt` | `checkout.completed`, `collection.succeeded`, `completePayment`, the receipt listener |
| `FailedWebhook`, `ExpiredWebhook` | `handleCollectionFailed`, `...Underpaid`, `...Expired`: one unguarded update each |
| `Poll`, `PollCommit` | `getPendingPaymentStatus` |
| `CancelRead`, `CancelCommit` | `cancelPendingPayment` |
| `Pay`, `AttemptFails`, `Lapse`, `Age`, `Crash` | external: the student at the provider's page, time, the process |

A webhook may be delivered any number of times and in any order: it is enabled
as long as the fact it reports stands. `DueCollection` is the abstract
specification: each due is collected at most once, and wallets and clearing
account show what was collected. `Itemised` are the sessions the provider looks
up with a charge id and an amount: a poll completes those, and leaves any other
paid session to its webhook (`bachs.service.ts` 957-981). Only payments of a due are modelled; others
take the same path without the index and the `due_payments` row.

### `Wallets` - `finance/wallet.service.ts`, `finance/finance.service.ts`, `common/interceptors/cache*.ts`

| State | Code |
|---|---|
| `balance`, `account`, `goal` | `wallets.balance`, `ledger_accounts.balance`, the savings goal's amount |
| `committed`, `entries` | requests with a transaction row, and those with a journal entry |
| `rowLock` | row locks of open transactions |
| `cached` | `wallet:*` in Redis, written by `getOrCreateWallet` and by the read interceptor |
| `pc`, `op`, `loading`, `seen`, `seenGoal` | requests |

| Actions | Code |
|---|---|
| `StartRead`, `CacheAnswer`, `Respond` | `cache.interceptor.ts`, `cache-invalidation.interceptor.ts` |
| `StartMove`, `StartPayment` | `creditWallet`, `debitWallet`, `depositToSavings`, `executeInternalPayment`, `executeManualPayment` |
| `LoadRead`, `LoadStore` | `getOrCreateWallet`: cache, else row, then cache |
| `Write`, `RefuseWrite`, `Invalidate`, `Commit` | the operation's transaction |
| `PostJournal`, `RefuseJournal` | `createJournalEntry` called without the transaction's client |
| `Expire` | Prisma's five-second limit on an interactive transaction |
| `Withdraw` | the settlement of a withdrawal, as the wallet sees it |
| `CacheLapses`, `Crash` | the 300-second life of a key, the process |

Two facts about this code the model rests on, both found while writing it:

* An **internal payment** never commits. Its journal lines debit the gateway
  fee twice and credit it once, and `createJournalEntry` refuses lines that do
  not balance (unless the fee rounds to zero).
* A **manual payment** waits for itself. `createJournalEntry` is called without
  the caller's client, so a second transaction wants account rows the first has
  locked. Prisma's timer ends the first after five seconds. The second may then
  commit, leaving a journal entry without a payment (`JournalHasPayment`).

Idempotency keys guard these two operations only, so no keyed request ever
reaches the point where its response is stored; the idempotency service is not
modelled for that reason.

### `GuestClaims` - `finance/guest-payment.service.ts`, `bachs/bachs.service.ts`, `finance/receipt.service.ts`

A guest pays a due under a placeholder account; later a user with the same
address asks for a code and claims what the placeholder has paid.

| State | Code |
|---|---|
| `guest`, `paid`, `backer` | `guest_payers` and the checkout row; the `payments` row and its payer; the `due_payments` row that made the due paid |
| `code`, `claim` | claim codes with their attempts; handlers of a verification |
| `completion`, `split`, `late` | handlers of a completion; guests claimed while a completion of their payment, or a receipt of it, was under way |

Actions: `MakeGuest`, `AskPayment` (`initiate`), `CompleteRead`,
`CompleteCommit`, `CompleteAgain` (`completePayment`), `ReceiptRead`,
`ReceiptWrite`, `RequestCode`, `CreateCode`, `MailSent`, `MailFails`
(`requestClaimCode`), `VerifyRead`, `CountAttempt`, `ClaimList`, `ClaimCommit`
(`verifyClaimCode`), `PayInApplication` (the same due paid by the user).

### `BankAccounts` - `finance/bank-account.service.ts`, `ensurePayoutDestination`

`account` are the rows of `bank_accounts`, `made` what the provider has seen
under the key `bank-account-<id>`, `teller` the handlers; `crossed` and
`replayed` are history. A destination is known by the account it pays to. What
the provider does with other details under a key it has seen is not for this
repository to say: it may answer with the old destination, refuse, or make a
new one, and the model allows all three.

### `Receipts` - `finance/receipt.service.ts` 37-144, 455-480

`number` is the receipt number of each payment. `Last` is the last number in the
order of the strings, in which `10000` precedes `9999`: `Widest` is the largest
number of four digits, scaled down. An insert that breaks a unique index, of the
number or of the payment, is only logged; nobody has to ask again, so nothing is
claimed of a receipt being made in the end.

### `Sessions`, `PasswordResets` - `auth/auth.service.ts`, `users/users.service.ts`

| State | Code |
|---|---|
| `session` | `user_sessions`: owner, application, status, the hash in the unique column `refreshToken` |
| `jar` | the refresh cookie of each browser, and whether its token verifies, has expired or is invalid |
| `reset`, `unlisted` | open transactions of `resetPassword` with the sessions they have updated and locked; history: rows inserted while one was open |
| `password` | how often the password was changed |
| `call`, `clock`, `disturbed`, `mishaps`, `events` | handlers, time, history and bounds |
| `link`, `uses` | `password_reset_tokens`: unused, used, expired; how often each has reset the password |

Actions follow the awaits of `login`, `adminLogin`, `refresh`, `logout`,
`logoutAll`, `revokeSession`, `revokeAllSessions`, `forgotPassword` and
`resetPassword`. A new session is inserted with the constant `pending` in the
unique column and gets its hash in a second statement; the model keeps both.

A reset of the password is a transaction that is open for a while: `ResetPassword`
updates, and locks, the active sessions it finds, and `ResetCommit` makes all of
it visible. A login that has compared the old password may insert its row in
between, since an insert that refers to the user needs a lock the reset's update
does not conflict with; the row is not among those updated, and survives. A
logout with a token that does not verify has no user: Prisma leaves the undefined
filter out, and `Found` is then every user's sessions, of which `logout` ends the
last used (any of them, in the model) and `logoutAll` ends all.

### `RateLimits` - `redis/rate-limit.service.ts`

`count` and `timed` are the value and the time to live of one Redis key. `INCR`
and `EXPIRE` are two steps.

### `Elections` - `governance/governance.service.ts`

| State | Code |
|---|---|
| `status`, `candidates`, `votes` | `elections.status`, `candidates`, `votes` with the unique index on election, candidate and voter |
| `members` | active memberships, which voting and nomination ask for |
| `official`, `poll` | handlers of officers and of voters |
| `crowded` | voters two of whose ballots overlapped |

### `Registrations` - `activities/activities.service.ts`

`activity` is one row (status, capacity, price), `registration` and
`attendance` the rows of each user, `desk` the handlers; `unplanned` and
`largest` are history: seats that were confirmed beside the count, and the
largest capacity there was.

### `Promotions` - `students/promotion.service.ts`, `students/students.service.ts`, `institutions/institutions.service.ts`

`calendar` are the academic sessions of one institution, `student` and `record`
the profiles and academic records, `promoted` how often each session's students
were promoted, `office` the handlers. The initial states are those in which
`createInstitution` may leave an institution: any sessions, of which one or none
is current. `DefaultSession` is `getOrCreateDefaultSession`, which makes a current
session beside any that is still current.

### `Memberships` - `organizations/organizations.service.ts`, `onboarding/onboarding.service.ts`

`standing` is the status of each organisation, `membership` and `request` the
rows of each user and organisation, `clerk` the handlers. The operations of the
organisation and of its members run against each other. Onboarding is two steps:
`OnboardLeave` finds and locks the active memberships it ends, `OnboardCommit`
makes the new one visible; a membership inserted in between is not found.

### `Approvals` - `approvals/`, `rbac/rbac.service.ts`

`body` are the organisations submitted under one name, `request` the approval
requests, `admin` the status of their administrators, `task` the handlers. Names
are unique among organisations that are not deleted (a partial unique index of
the migration `20260924090000_add_self_service_approvals`), and a rejection
deletes, so a second row may take the name; the index refuses an approval's update
as it does an insert (`ReviewCommit`).

Administrators come from three places: the submission (inactive until the
decision), `assignOrganizationAdmin` (`AppointCheck`, `AppointRead`,
`AppointCommit`: the appointing administrator is looked up, then the organisation,
then the row is written) and the platform's `assignAdminRole` and
`assignAdminWithPermissions` (`AssignRead`, `AssignCommit`), which ask nothing of
the organisation but that it exists. `granted` remembers the last, `slipped` the
organisations reviewed while an appointment was under way.

## 4. Runs, bounds and fairness

`CHECK_DEADLOCK FALSE` everywhere: every instance is finite work (each row is
used once, each bound runs out), after which the system rightly stops.

| Run | Instance | Distinct states | Shows |
|---|---|---|---|
| `WithdrawalsOverlap` | 1 user withdrawal, 3 workers, 1 delivery per event, 1 crash, a provider fee that differs from the quoted one | 473,000 | types; a pending withdrawal keeps its reservation; COMPLETED only if paid; no payout without a journaled debit; no settlement after a refund; a recorded payout leaves PROCESSING |
| `WithdrawalsIsolated` | an organisation and a platform withdrawal quoted a fee of 2, of which the provider takes 1, 2 workers, 1 crash, 1 deposit to each wallet | 2,310,000 | wallets equal accounts, double entry, holds, journal against status, `reconcileAccounts`, final statuses, refinement of `WithdrawalPromise` |
| `CheckoutsOverlap` | 1 due, 2 attempts, 2 sessions, 3 workers, 1 crash | 1,773,000 | types; one pending attempt; payments are funded; the due follows its payments |
| `WalletsOverlap` | 3 requests of any kind but internal payments and credits, 1 crash | 455,000 | no overdraft however stale the copy; every request ends |
| `PaymentsSideBySide` | *wallets*: 3 requests, one after the other; *checkouts*: 2 dues, 2 attempts, 2 sessions, 2 workers, isolated, 1 stop; *claims*: 2 guests, 2 claimers, a webhook; *accounts*: 2 rows, 2 handlers | 2,594,000 | no update of a wallet is lost; refinement of `DueCollection`; claimed payments, dues and receipts agree; a destination pays to the account its row names |
| `ServicesOverlap` | two handlers each of sessions, password resets, an election, an activity, promotions, memberships (a draft that is activated and suspended), approvals | 2,540,000 | one invariant or action property of each, listed in `PROJECT.json` |
| `ProgressSideBySide` | *checkouts*: 1 due, 1 attempt, 2 sessions, 2 workers, 1 stop; *sessions*, *limits*: 2 handlers; *receipts*: 3 payments, 2 handlers | 375,000 | what must happen in the end; receipts are numbered without gaps |

In the last three the initial state chooses one part, and the other parts keep
their initial state: the states are the sum of the parts', and no property
speaks of two. `PaymentsFurther.cfg` and `ServicesFurther.cfg` are the same
instances with the properties that the three runs do not list: types, and
weaker or neighbouring ones (`CacheIsCurrent`, `NoAttemptForPaidDue`,
`AttemptsBounded`, `ClaimIsIdempotent`, `OneOpenLink`, `CandidatesLimited`,
`AttendeesWereConfirmed`, `ProfileFollowsRecord`, `ApprovedIsMember`,
`RevokedForGood`, `OneBallot`, `DeletionSparesRegistrations`,
`DecisionStands`). They pass and are run by hand; the modules hold mutants for
these properties too.

Counts are with the symmetry of the configuration. Why the bounds are enough:

* *Workers.* A hazard here is a read made stale by another handler's commit;
  it takes the stale handler and the other one. The third worker covers chains
  (approval, webhook, cron). Where only two are used, the schedule is isolated
  or the instance has a second row instead.
* *Rows.* Withdrawals interact through their wallet and through the clearing
  account; two suffice to take money from each other (`HeldCoversPending`).
  Two attempts and two sessions per due are what a replaced attempt needs.
* *Deliveries.* One delivery of each event, together with the cron and the
  compensation, already applies a final status several times; more deliveries
  repeat it. Checkout webhooks are unbounded.
* *Amounts.* A principal of 5, a fee of 1 or 2 and a provider fee of 1 or 2
  make every sign of the fee difference occur; in the isolated run the provider
  takes less than was quoted, so that a difference is returned and an
  organisation's share is posted; opening balances admit both
  requests (14), or exactly one (7).
* *Crashes.* One: nothing is persisted by a crash, so the second has no more
  effect than a handler that never started. In the modules about services
  handlers may stop without a bound; only `Sessions` (`MaxEvents`), `RateLimits`
  (`MaxStops`) and `Receipts` (`MaxFails`) bound it.
* *Services.* Two handlers on one row are what an unguarded check needs; the
  sets of users, positions, levels and academic years are the smallest in which
  a property can be violated at all, as its mutant and its counterexample show.
* *Organisations.* In `ServicesOverlap` the orders are ACTIVE and SUSPENDED: the
  one is also admitted without the table, the other only by it. `ServicesFurther`
  has ACTIVE and ARCHIVED.
* *Receipt numbers.* `Widest` is 1, so the second receipt is already the first
  number beyond the width, and the third payment shows what comes after it.

Symmetry is used for workers, requests, rows, sessions and dues, only in runs
without liveness properties.

**Fairness.** `WF` of a handler's next step: Node's event loop resumes every
`await`, and every one of them ends (the HTTP client gives up after 20 seconds,
a transaction after five). In `Withdrawals` also `WF` of the provider's
decision, and `SF` of the reconciliation of each stale row: the cron fires every
ten minutes for good, but at a given moment all workers of the model may be
busy. In `Checkouts` `SF` of the status poll of a pending attempt: the client
polls while the payment is pending and stops when it is completed
(`docs/due-payment-frontend-integration.md` 144-145, 164), and a worker may be
busy meanwhile. A paid session that is not `Itemised` depends on its webhook, so
`AwaitedPaymentIsRecorded` is of those that are. No fairness is assumed of webhooks: they may all be lost. In
`Wallets` a step includes the expiry of its transaction. `Sessions`,
`RateLimits` and `Receipts` have `WF` of each handler's next step and of Redis's
expiry of a key that has a time to live; `Sessions` also `WF` of the end of a
reset's transaction, which commits or is rolled back. Nobody is assumed to ask
for a receipt.

Every property of a passing run has a mutant in `PROJECT.json`: a plausible bug
in one definition, written next to it in the module, under which TLC finds the
property violated.

## 5. Where documentation and code disagree

Runs that TLC must find violated; the sentence each contradicts is quoted in
`PROJECT.json` under `findings`.

| Run | Property | What happens |
|---|---|---|
| `WithdrawalsHeldFunds` | `HeldCoversPending` | the failure webhook of a settled withdrawal lowers the held balance a second time, so another pending request loses its reservation |
| `WithdrawalsTimeout` | `FailedIsNotPaid` | a payout accepted by the provider whose answer is lost is refunded, then paid |
| `CheckoutsFailed` | `FailedHasNoPayment` | the event of an earlier failed attempt overwrites COMPLETED with FAILED |
| `CheckoutsSecondPayment` | `OnePaymentPerDue` | a stale expiry reopens the due for a second payment |
| `WalletsOrphan` | `JournalHasPayment` | a journal entry outlives the payment it was posted for |

Further instances, kept as evidence for hazards that the code is exposed to.
They are run by hand and end in the counterexample named:

| Configuration (module) | Violates | Because |
|---|---|---|
| `WithdrawalsLostReservation` (`MCWithdrawals`) | `PendingFitsBalance` | an approval that overlaps a rejection of the same row overwrites the held balance with zero, and the request that reserved in between is no longer covered |
| `WithdrawalsFinality` | `FinalStatusIsFinal` | an approval that read the row before its rejection settles it afterwards |
| `WithdrawalsFeeShare` | `FailedKeepsNoShare` | the failure webhook arrives before the payout is recorded, and the recording then posts the platform's share of a failed withdrawal |
| `WithdrawalsFeeReversal` | `PlatformFeeReversedOnce` | webhook and cron both read the share as allocated and both take it back |
| `WithdrawalsStuckPending` | `OrganizationLeavesPending` | a process that stops between request and settlement leaves the row PENDING, and nothing looks for it |
| `WithdrawalsStuckProcessing` | `ProcessingIsReconciled` | a process that stops before the payout is recorded leaves a row the cron's filter skips |
| `CheckoutsCancelled` (`MCCheckouts`) | `CancelledIsClosed` | cancelling does not tell the provider |
| `CheckoutsTwoSessions` | `OneSessionPerRow` | two initiations reuse one attempt without a checkout |
| `CheckoutsUnrecorded` | `ChargedIsRecorded` | a session paid after its attempt was closed is refused |
| `CheckoutsReconcile` | `LedgerReconciles` | completions add to accounts what `reconcileAccounts` subtracts |
| `WalletsLostUpdate` (`MCWallets`) | `NoLostUpdate` | overlapping requests overwrite each other's balance |
| `WalletsStaleCache` | `CacheIsCurrent` | a read caches what it loaded before an update, after the invalidation |

Other counterexamples are defined in the modules, after their properties, each
with the sentence it is about. To see one, put its
name in place of the properties of the configuration (`PROPERTIES` for those
marked *, `INVARIANTS` for the others).

| Property (configuration) | Violated because |
|---|---|
| `AccountsAlwaysReconcile` (`WithdrawalsIsolated`) | the failure webhook refunds the withdrawal before the payout is recorded; the recording then moves the fee difference between wallet and clearing account, but rewrites the lines of an entry that is REVERSED |
| `ClaimMovesEverything`, `ClaimedPaymentSettles` (`PaymentsFurther`) | a completion reads the placeholder as owner before the claim and writes the payment after it |
| `DestinationIsCurrent` (`PaymentsFurther`) | a destination made from old details is stored after the update that should have cleared it; or the provider answers an old key with an old destination |
| `DefaultIsKept`, `OneDefault` (`PaymentsFurther`) | the default moves in two statements without a transaction |
| `AwaitedIsAlwaysRecorded`* (`ProgressSideBySide`) | the webhooks of a paid session are lost, and its lookup names no charge: the poll leaves it to them |
| `SessionHasPassword`, `ResetEndsAll`, `TabsKeepSession` (`ServicesFurther`) | a login that checked the old password creates its session after the reset, or between its update of the sessions and its COMMIT; two tabs refresh with one token |
| `LogoutIsOwn`, `LogoutIsScoped`* (`ServicesFurther`) | a token that has expired has no user, and the logout finds the sessions of all (`LogoutIsOwn` with `Account <- OwnAccounts` and without symmetry); one whose own session has ended ends another of its user |
| `NewestLinkOnly` (`ServicesFurther`) | two requests for a link mark the old ones used before either inserts its own |
| `OneVoteAlways`, `CompletedIsFinal`*, `NoVoteAfterEnd`* (`ServicesFurther`) | two ballots overlap; a late start or update writes the status it read; a ballot checked before the end is inserted after it |
| `NeverOverbooked`, `CancelledMayReturn`*, `AttendeesAreConfirmed` (`ServicesFurther`) | seats are counted before the insert; the unique index still holds the cancelled registration; a check-in overlaps a cancellation |
| `NeverTwoCurrent`, `EveryoneMoves`* (`ServicesFurther`) | two officers make a session current at once; a student is edited after the snapshot of the promotion |
| `NeverTwoMemberships`, `ArchivedStays`*, `MembersLeaveDraft`, `MembersHaveNoRequest` (`ServicesFurther`) | checks and statuses read before the write; a failed membership puts the request back over another decision |
| `AccessNeedsApproval`, `DecisionAlwaysStands`*, `RejectedHasNoAccess`, `ApprovedIsAvailable`, `SubmissionHasRequest` (`ServicesFurther`) | a platform administrator assigns an administrator to an organisation that is not approved; two reviews of one request overlap; an administrator is appointed during the rejection; an approval after a rejection leaves the date of deletion; the process stops before the request is made |
| `PlaceholderAlwaysClears`*, `LockoutAlwaysEnds`*, `AttemptedReceipt`* (`ProgressSideBySide`) | a handler stops between two statements; a receipt whose number is taken is only logged, and nobody has to ask again |

## 6. Proofs

Modules of theorems, each beside its component. No assumption is made on
the constants but the `ASSUME` of each module: prices, amounts and bounds are
natural numbers and model values are distinct.

**`WithdrawalsProofs`.** For any set of withdrawals and workers, any amounts
and any schedule:

* `TypeCorrect`: needs `NonNegative` for the held balance.
* `PendingReserved`, `CompletedPaid`, `PayoutDebited` follow from the inductive
  `SafeInv` = `Reserved` /\ `SaidPaid` /\ `Debited`. The properties alone are not
  inductive, since a handler acts on what another step established: a new row
  has no entry yet; a "paid" event and a worker that is about to complete a row
  mean a paid payout; a worker that is about to submit has a journaled debit.
* `RefundedNotSettled`: an action property, from the guard on the entry.

With `Isolated` and `IsolatedInv` = `Exclusive` (one worker at a commit point),
`Fresh` (what it has read is still so), `Books` (wallets equal accounts, double
entry), `Stages` (status, journal, events and payout agree) and `Drivers` (at
most one worker submits, records or compensates a row, and its debit is posted
when the payout is accepted):
`WalletsMatch`, `LedgerBalanced`, `JournalFollows`, and `Implementation`:
`Spec => ImplementsPromise`, each action mapped to a step of
`WithdrawalPromise` or a stutter; and `FinalStatusKept`, an action property: a
handler that has read a row not final writes before any other does.

`AccountsAgree` and `HoldsCovered` speak of sums over all withdrawals, so their
invariant `SumsInv` (with `IsolatedInv`) says besides the two sums: what each row
says of its own lines, fee and share (`RowsTell`); that a handler about to write
has read the fee, status and share of now (`ReadsTell`); that a wallet holds back
at most what rows that wait have reserved (`HeldIsWaiting`; they all
have an active hold, so `NoPhantomHold` follows); and that only finitely many
withdrawals were requested, so `Withdrawals` itself may be infinite. A
step touches one row, and one lemma per action says by how much it moves each
sum. The lemmas about sums (`SumWithout`, `SumMoves` and those before them)
use no induction: that a sum depends on its set alone comes from a least
counterexample among the subsets of a finite set, which the library's theorem
on proper subsets provides. TLC checked `SumsInv` on the instance of
`WithdrawalsIsolated` with provider fees of 1 and 3 (8,370,000 states).

**`CheckoutsProofs`.** `TypeCorrect` is proved with `Linked`, without which it is
not inductive: a completion adds the share of the *row's due*, so the row a
worker holds must have one. `Linked` says what rows, sessions and tasks refer
to, all of it monotone. From it, under any schedule: `PaymentsFunded` (the look
at the session precedes the transaction, but a paid session stays paid),
`SingleAttempt` (the partial unique index judged after the closing of the old
attempt), `DueFollows`. With `Isolated`, `IsolatedInv` = `NoAttemptForPaidDue`,
`Exclusive` and `Fresh` gives `PaidDueIsClosed` and `Implementation`:
`Spec => ImplementsCollection`. The latter needs `OneActiveAttempt` too: the
completed attempt was the due's only pending one.

**`WalletsProofs`.** `TypeCorrect`; `NeverOverdrawn` from `Funded` (the copies a
request holds and the cached ones are never negative either, and a request past
its check has enough); with `Isolated` and `MaxCrashes = 0`, `CacheAgrees` and
`UpdatesKept` from `SerialInv` = `Exclusive`, `Coherent` (between requests the
cache is absent or right) and `Current` (the copies of the active request are).
`SerialInv` speaks of whole requests: one that stops after its commit leaves the
invalidation undone, hence `MaxCrashes = 0`.

**`ElectionsProofs`.** `TypeCorrect`; `SingleVotes` and `SingleBallot` from an
invariant that says, for a voter whose ballots never overlapped, what a handler
past its check knows: no vote of the voter is in the table yet. `FinalResults`
from the frame lemmas of each action: once the status is COMPLETED and no
officer, nomination or ballot that read it before is under way, none of them can
start.

**`ReceiptsProofs`.** `TypeCorrect` and `WithoutGaps`, for any natural width of
the numbers. The numbers given are 1..n for some n, and a handler holds one of
them or n + 1 (`Numbered`); so what it inserts is a number given already, which
the unique index refuses, or the next. Beyond the width, `Last` is a number of
1..n that is not the greatest, and the handlers are refused for ever, but no gap
opens.

**`AccountsProofs`**, of `PasswordResets` and `Sessions` as `Services` composes
them.

* `LinksUsedOnce`: a link changes the password once, however many requests have
  found it open. The invariant is the property itself with what a handler holds:
  it speaks of the link's row, and the transaction looks at that row again.
* `ResetsEndSessions` and `RevokedStays`. An active session that was not inserted
  while a reset was open was made with the password of now; the invariant says
  besides that an open reset has listed every active session of its account but
  the `unlisted` ones, so that its COMMIT leaves none with the old password. The
  exemption is needed (`ResetEndsAll`). No step but the insert makes a row
  active, which is the second theorem.
* `BrowsersKeepSession`. A browser whose requests were answered one at a time
  holds the token its row accepts. The invariant says which rows a handler may
  still write (its own new row, or the row its browser's cookie names), that two
  rows never have the same token but for the placeholder, and that a row whose
  login has not ended is nobody else's.

**`CampusProofs`**, of `Registrations`, `Promotions`, `Memberships` and
`Approvals` as `Services` composes them.

* `SeatsKept`, for any finite set of users: the confirmed registrations that were
  not made beside the count are counted with the library's lemmas about
  cardinalities; a handler past its count holds a number that is right, or its
  seat is put down as unplanned.
* `OneSessionIsCurrent` and `StudentsPromotedOnce`, the second from the guard on
  the record of the session that is left: a promotion under way finds it as it
  was, or another promotion has closed it.
* `OneActiveMembership` and `StandingChangesByTable`: what a clerk has read is
  still so, or the place is marked as overlapped.
* `AccessApprovedOnly`: only an approved organisation has administrators with
  access, unless one was appointed while it was reviewed or assigned by a
  platform administrator, who is not asked for an approval
  (`AccessNeedsApproval`). The invariant adds that a submission under way is
  nobody else's and has no request yet, and that an appointment under way is of
  an approved organisation or one of those exempt.

**`PaymentsProofs`**, of `GuestClaims` and `BankAccounts` as `Payments` composes
them, for any number of guest records, codes and handlers; and `CheckoutsCollect`,
the refinement of `DueCollection` that `CheckoutsProofs` proves, for the
composition: the theorems of `CheckoutsProofs` are instantiated under the
assumption `CheckoutsAssumption` of `Payments`, and the definitions they speak
of are those of the composition.

* `RecordsKeepOneOwner` and `DuesKeepTheirBacking`, from one invariant
  (`ClaimInv`): a record claimed in one piece had its checkout row
  (`AskedFirst`); a completion or a receipt under way knows the record's owner,
  unless the record was claimed meanwhile (`OwnerKnown`); what a claim has
  listed is paid and of one of its guests (`ListedPaid`); a due is backed by a
  payment of the right account (`BackedRight`). The claim reads its list before
  the transaction and moves what the list names afterwards: none of the parts is
  inductive without the others.
* `ClaimsRepeatNothing`: an action property of the same invariant and
  `BackersPaid`, a due with a due payment row is paid.
* `DestinationsFollowDetails`: a handler that is about to ask for a destination,
  or to store the answer, holds the details the row has now, or the row was
  written under it (`crossed`), or the answer was an older one (`replayed`).
  Every write needs the same fact of the handlers that do not make it.

The oldest record and the newest code are chosen by their numbers: that there is
one follows from the library's theorem that `Nat` is well founded, in the form
that a set of numbers that is not empty has a least element. The theorems of
these three modules are stated for a component (`S!Spec => []S!TypeOK`) or for
the composition the runs check (`ServicesSpec => []ResetEndsSessions`). A lemma
for each component (`ServicesSpec => S!Spec`) carries them over: a step of
another part leaves its variables alone.

Only model-checked: the liveness properties (`RecordedIsResolved`,
`AwaitedPaymentIsRecorded`, `EveryRequestFinishes`, `PlaceholderClears`,
`LockoutEnds`), since fairness is out of the prover's reach.
Every other property of the passing runs is stated by a theorem above. Of the
neighbouring properties that `ServicesFurther` and `PaymentsFurther` check,
`ClaimIsIdempotent`, `RevokedForGood`, `OneBallot`, the types and those that the
theorems above state are proved; the others (among them `OneOpenLink` and
`DecisionStands`) are not.

## 7. Not modelled

* *Within the modelled components.* Creating, freezing and unfreezing wallets
  (every wallet exists and is active); payments without a due;
  `cleanupExpiredPayments`, `retryFailedPayment`, `validatePayment`, which have
  no callers; authorisation, input validation and bank-account checks, which
  precede the modelled step and change nothing; notifications and audit entries
  afterwards. The checks of signature and schema of a webhook are taken as
  passed. A request that `timeout.interceptor.ts` answers after 30 seconds goes
  on; what its interceptors leave undone is covered by a crash.
* *Idempotency.* See section 3: no keyed operation commits.
* *Services.* Registration, e-mail verification, changing a password while
  signed in and Google sign-in; the approval of a candidate and deletion of an
  election; paid registrations and quantities above one; invitations, branches
  and the profile of an organisation; `promoteStudent` and
  `bulkPromoteStudents`, which no route reaches; the one-time codes. Access
  tokens live 15 minutes and are not looked up in the sessions, so ending a
  session is a matter of its refresh token, and that is what `Sessions` models.
  Academic sessions have no status in `Promotions` and belong to the institution:
  `deleteAcademicSession` and the sessions of faculties, departments and levels
  are left out. A user has one administrator's row for an organisation in
  `Approvals`; the code allows one more for each academic session.
* *Counters without a writer.* `register` and `resendVerificationEmail` compare
  counters with their limits that no code increments; there is nothing to model.
* *Other components.* Users, institutions, roles and onboarding are single-row
  forms but for the operations that `Sessions`, `Promotions`, `Approvals` and
  `Memberships` take from them; notifications, e-mail, files, search, analytics,
  dashboard and audit are delivery, object storage and read-only queries on
  which nothing else depends.
* *Generated code.* Three quarters of the TypeScript in the repository is the
  Prisma client under `src/v1/generated/prisma`, generated from
  `prisma/schema.prisma`: types and query builders without behaviour of their
  own. It is no component of the system, and nothing of it is modelled; the
  schema's unique indexes are, as guards of the steps that insert.

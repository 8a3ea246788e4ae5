# Verification of barghsa-core

Barghsa is an energy platform: a NestJS API (`src/apps/api`), a background worker
(`src/apps/worker`), a web client and shared packages over one PostgreSQL database.
This directory models the parts of it where money, messages or access can be lost,
doubled or stuck: the wallet, online top-ups and their chargebacks, refunds, the
settlement of invoices, the notification outbox, one-time codes, sessions with their
refresh tokens, and the configuration cache. Each module is translated from the code;
TLC checks it on small instances, and TLAPS proves every safety property that the passing
runs check, for every instance.

`PROJECT.json` lists components, runs, mutants, hazards and theorems, and maps every
definition to the lines it stands for.

## 1. Inventory

| Component | State | Operations | Talks to | What is hard | Correct when |
|---|---|---|---|---|---|
| Wallet ledger (`wallet.service.ts`, `wallet-credit.ts`) | `wallets` (posted, reserved, version), `wallet_transactions` | create, credit, debit, reserve, release, reverse | everything that moves money calls it, in its own or in the caller's transaction | one key on two wallets, lost connections around COMMIT, archival beside a credit | balances are sums of an append-only ledger; a key acts once; never overdrawn |
| Online top-up (`online-topup.service.ts`, `online-topup-callback.service.ts`) | intent rows, `wallet_topup_callback_events`, provider sessions | initiate, webhook, browser return | payment provider, wallet credit, expiry and reconciliation workers | no transaction spans a provider call; advisory locks vanish with the session; callbacks repeat and reorder | one session and one credit per intent, only if paid; nothing is marked done without its credit |
| Top-up workers (`online-topup-expiry-scanner.ts`, `provider-reconciliation-scanner.ts`) | candidates read ahead, `reconciliation_exceptions` | expire, report | intents and events above | stale candidates | no settled intent is overwritten; what is stuck is reported |
| Chargebacks (`chargeback-detection.service.ts`, `chargeback-alert.service.ts`) | `wallet_chargeback_events`, alerts | claim, match, reverse, finalise, alert | wallet reversal, outbox, reconciliation scan | a crash between the steps, two events for one top-up, credits that arrive late, archived or empty wallets | money is taken back once; finance sees the rest |
| Refunds (`refund.service.ts`, `refund-processing.ts`, retry runner) | `refunds`, `refund_retry_jobs`, approvals, invoice totals | request, review, approve, dismiss, process, retry, record and reconcile a transfer | wallet credit, dual approval, contracts, archival | attempts that fail half way, policies that change, concurrent retries, references without a unique index | money leaves once, within the invoice's budget, with the approvals asked for |
| Invoice settlement (`apps/api/src/invoice`, `apps/api/src/wallet`, `packages/db`) | `invoices`, `bank_receipts`, Pending wallet rows, `approval_requests`, reviews on screens | submit, review, confirm, park, override or reject a receipt; pay from the wallet; cancel and replace; mark overdue | wallet debit and credit, approvals register, policy, archival | a screen older than the row it decides, two members, a scan beside a payment | money is accounted to the last rial; states agree with amounts; two members where the policy asks for two |
| Notification outbox (`apps/worker/src/notifications`) | `notification_outbox`, `notification_job`, send receipts, inbox, delivery log, dead letters | enqueue, lease, send, record, staff triage | e-mail and SMS providers, business transactions, staff | a worker that dies or stalls around an external send | at most one send per channel; tables agree; every notice is settled |
| One-time codes (`otp.service.ts`, `auth.service.ts`, `auth-delivery/runner.ts`) | `otp_challenges`, `auth_delivery_outbox`, the account's current reset | request, resend, answer, exchange for a token, reset; claim, check, send | account, delivery worker, providers | guesses beside resends, requests beside answers, a worker that acts on what it checked earlier | guesses are bounded; only the last reset request opens the account; a usable code is not given up |
| Sessions and sign-in (`session.service.ts`, `auth.service.ts`) | `users` (version, password, flags), `sessions`, `refresh_tokens` | log in, rotate, refresh, detect reuse, revoke, change or disable the account | every authenticated request | logins and codes begun before the account changed, parallel refreshes, replays, rotations of rotations | no session outlives its credential; a replay ends its family; a login is bounded |
| Configuration cache (`config-cache.ts`, setters of `admin.service.ts`) | Redis entries, `app_config`, `config_version` | get, peek, set, invalidate | settings of every other part | a late store over a newer entry, a writer that never evicts | nobody reads a setting older than the call |
| Circuit breaker, rate limits, idempotency keys, async jobs | process memory, Redis, leases | call, count, claim | external services | late answers, windows, leases | see the plan |
| Orders, catalogue, contracts, consultation, electricity, saving, solar, profiles, CRM, documents, tickets, AI, administration, operations, web | single rows under row locks, files, calls to services | workflows and maintenance | the core above | little that tests do not reach | not modelled, see section 8 |

Components share the database and hardly anything else. The refund worker, the top-up
callback and the confirmation of a receipt call the wallet's credit, a payment its debit,
a chargeback its reversal; archiving a profile is guarded by the profile lock which every
money operation takes `FOR SHARE`; the worker processes share rows through leases,
advisory locks and `FOR UPDATE SKIP LOCKED`.

## 2. Modules

| Module | Models | Composition |
|---|---|---|
| `WalletAccounts` | abstract: accounts on which every command is one atomic step | |
| `WalletLedger` | `WalletService` statement by statement | implements `WalletAccounts` (`INSTANCE ... WITH`) |
| `OnlineTopUp` | initiation, callbacks, expiry and reconciliation of top-ups | composes API calls, provider, customer and two workers; the credit of `WalletLedger` is one step |
| `Chargebacks` | provider chargebacks of credited top-ups | composes deliveries, the reconciliation scan, customer and archival; the reversal of `WalletLedger` is one step |
| `RefundBudget` | abstract: what refunds may take from their invoices | |
| `Refunds` | refund service, dual approval, processing, retry worker | composes staff, worker, policy, archival; implements `RefundBudget` |
| `InvoiceSettlement` | receipts, wallet payment, cancellation and the overdue scan on the invoices of one profile | composes customer, staff with their screens, register, scanner, policy, archival; debit and credit of `WalletLedger` are one step |
| `NotificationOutbox` | one outbox row with its channel jobs, workers, provider, staff | composes workers, provider and triage |
| `OneTimeCodes` | codes of one account, from the request to the message and to the answer | composes requests, resends, answers and the delivery worker |
| `Sessions` | logins, sessions and refresh tokens of one account | composes logins, refreshes, requests, staff and the account's changes |
| `ConfigCache` | readers and writers of settings around Redis | |
| `MC...` | constants of the runs: commands, callbacks, terms, symmetry | |
| `...Proofs` | theorems of the module of that name | |
| `AccessProofs` | theorems of `OneTimeCodes`, `Sessions` and `ConfigCache` | the three share no state |
| `FiniteSums` | lemmas about sums over finite sets | used by the proofs about money |

### WalletLedger

A client is a call that owns its transaction. Its program counter follows the points
at which another transaction can interleave: `Submit` (validation and BEGIN),
`LockWallet` (profile `FOR SHARE`, wallet `FOR UPDATE`, and the ledger row for release
and reversal), `Lookup` (idempotency lookup, replay, checks in the order of the code),
`PostCredit`, `PostDebit`, `PostReserve`, `PostReversal`, `Release` (UPDATE and INSERT,
uncommitted), `Commit`, and `ReadWinner` after a unique violation. `InsertWaits` and
`UniqueViolation` are the two unique indexes: an INSERT waits for an uncommitted row
with its key. `Crash` loses the connection; the caller does not learn whether COMMIT
happened. `CreateWallet` and `ArchiveProfile` are the other writers. Amounts are
unbounded (BIGINT and BigInt); references are abstract values.

### OnlineTopUp

`start[s]` is an `initiate` call and `call[h]` a callback; each statement is a step
because each commits on its own. `LoseSession` drops a call's advisory lock while the
call goes on; `StatementFails` is the failure it meets at its next statement on that
session. The wallet credit runs on another connection and therefore succeeds. The
provider's answer to a start request may come long after the call that made it died
(`ProviderStarts`); `CustomerPays`, `PassTtl`, `PassStaleLimit` and `SpendBalance` are
the environment. Verification asks the provider, so it depends on `paid`, not on what
the callback says.

### Chargebacks

`call[h]` is a `handle` call. Under the event's advisory lock it goes through `ClaimEvent`,
`MatchTopUp`, `FindExistingReversal`, `ReverseTopUp` and `FinalizeEvent`, each of which commits on
its own; `SendAlert` follows after the lock is given up. A reversal that meets another
event's sends its call back to look for it. `CallDies` ends a call at any step: everything
runs on the session that holds the lock, so losing it ends the call too. The environment
credits top-ups late (`CreditTopUp`), spends the balance (`SpendBalance`) and archives the
profile (`ArchiveProfile`); `ReportChargeback` is the scan of what stays unclear.

### Refunds

Every operation holds the invoice row and is one step. `RecordTransfer` is the
exception: transactions of different invoices meet in its bank reference, so it has a
step for its work and one for its end. `RunDue` and `RunManual` are `runWalletRefund`
with its savepoint: the attempt is counted also when posting is rolled back.
`SetThreshold`, `ChangePermission`, `SpendBalance` and `ArchiveProfile` happen at any
time. `Terms` fixes invoice, amount, destination and origin of each refund, since none
of them changes. A transaction that rolls back as a whole is no step. `Budget` is what an
invoice sees of all this: a refund claims its amount once and within what was paid, and
is then paid or dropped for good. Its state variables are the sets of open, dismissed and
completed refunds and the amounts reserved and returned.

### InvoiceSettlement

Every operation is one transaction under the profile, wallet, invoice and receipt
locks, and one action. What interleaves are the operations: `Review` puts the facts a
member is shown on `screen[s]` (the code hashes them and sends the hash along), others
act, and `ParkForDualApproval`, `ConfirmReceipt` or `SynchronizeRejected` go through only
while `CurrentFacts` are still those. `Gate` lists the ways past dual approval,
`Binding` what a wallet receipt's request remembers, `validateTransition` is the table of
the invoice state machine. The approvals register (`ResolveRequest`) decides a request
without its receipt. `StartOverdueScan` reads candidates, `MarkOneOverdue` visits them
later. `PayInvoiceWithWallet`, `CancelInvoice`, `CancelAndReplaceInvoice`, `SetThreshold`,
`ChangePermission` and `ArchiveProfile` happen at any time.

### NotificationOutbox

Rows share nothing but the poll, so the model has one. A worker's `task` is what its
memory holds: the attempts it read, the legs still to send, outcomes, skipped and
deferred legs. `startOutboxLease`, `beforeSend`, `LeaseLost` and `stop` are the lease;
`LeaseLapses` stalls a worker past it. `ReadReceipt`, `PreflightFails`,
`durableDelivery`, `ProviderAnswers`, `RecordSend` and `RecordFails` are one send: the
receipt is claimed in its own commit before the provider is called, and the provider
may accept without an answer reaching the worker. `Persist` and `Fallback` are the
outcome transaction under `assertOutboxClaim`. Staff retry or close dead letters.

### OneTimeCodes

A challenge is asked for (`LookUpAccount`), written with its first delivery by one
statement (`createAccountChallenge`), and gets another code and delivery with each
`resendChallenge`, which reads without a lock (`ReadForResend`) and compares when it
writes. A code is generated together with the row that delivers it, so the delivery's id
stands for it. An answer is a transaction: `LockChallenge` locks the challenge and checks
it, and once it has the account's lock too it ends by `RejectCode`, `AcceptCode`,
`resetPassword` or `Reject`; requests, which lock only the account, come in between. A
worker's `Claim`, `Check`, `Send` and `Finish` or `Fail` are separate statements; `Reclaim`
takes a row whose lease is over from a worker that may still be running. `wrong` and
`newest` are history variables.

### Sessions

Every transaction of the code first locks the account's row, so each is one action;
what a request does before the lock is a step of its own: `CheckPassword` (the row is
read without a lock, and `login[l]` remembers its version), `SendCode`,
`validateRefreshCsrf` (`refresh[r]` remembers the token). `LoginTrusted` and
`completeLogin` create a session under the cap, `rotateSession` and `AcceptInvitation`
replace one, `Redeem` and `RedeemConsumed` are `redeemRefreshToken`. The changes of the
account raise its version as the trigger `bump_user_auth_version` does. A session's
`password` is a history variable: the password that was proved when it began.

### ConfigCache

A call of `get` or `peek` goes through its reads in order (`Lookup`, `Check`,
`FetchVersionBefore`, `FetchValue`, `FetchVersionAfter`, `Store`), each of which may
`Fail`. `Write` commits a row together with the version; `Evict` is the setter's
invalidation after its commit, which may never come. A value is represented by its
row's version, and `asked` is a history variable: the row's version when the call began.

## 3. Runs

| Run | Question | Instance |
|---|---|---|
| `wallet_ledger` | do balances, ledger, replies and the abstract accounts agree in every interleaving, and does every call that reached the database end? | 2 calls with 7 commands, 2 wallets, 3 keys, 3 ledger rows |
| `online_topup_settle` | is an order credited once, only if paid, not after archival, and through its lifecycle only? may an event claimed for one order settle another? do retries of initiate open a second session? | 2 orders, 1 event id for a callback of each, 1 caller that initiates twice, 2 callback calls, 1 fault, archival, expiry |
| `online_topup_live` | is a paid callback credited, a stuck event reported, a pending intent ended? | 1 order with an unpaid, a paid and a forged delivery, 2 callback calls, 1 fault |
| `chargebacks` | is money taken back once per top-up, do events, reversals and alerts agree, does a delivery settle its event, is what is unclear reported? | 2 deliveries of 3 notifications by 2 events, 2 top-ups of one wallet, 1 fault |
| `refunds_staff` | budget, totals, is a refund one claim that ends once, and does every queued refund end? | 2 staff refunds of one invoice of 3 (wallet, bank) beside the debt of an ended order, 2 members, 2 attempts, 2 policy, permission or profile changes |
| `refunds_contract` | obligations of a cancelled contract with manual retries: paid once? may two refunds share a bank reference, one member do both halves of a transfer? | 3 refunds (2 to the bank) of 2 invoices, one partly funded, 3 members, 1 reference, 2 attempts |
| `outbox_send` | is a message sent twice, do the tables agree, is every notice delivered or in triage in the end? | 2 workers, e-mail and inbox, 2 attempts, 2 faults |
| `outbox_skip` | can a policy skip hide an attempt? (violated, section 7) | 2 workers, 2 faults |
| `invoice_settle` | is money accounted for, do states agree with it, do large receipts take two members, may a stale screen settle anything? | 2 receipts (one for the invoice, one for the wallet), 2 invoices of which 1 exists, 2 members who may override, 1 payment key, 1 policy or permission change |
| `one_time_codes` | are wrong codes bounded over all resends, does only the last reset request open the account, is a usable code ever cancelled? | 2 challenges, 2 codes, 2 answers and 1 resend at a time, 2 workers, 2 attempts each, 1 change, deadline or fault |
| `sessions` | does a session outlive its credential, does a replay end its family, is a login bounded? | 3 sessions, 3 tokens, cap 2, 1 login and 2 refreshes at a time, absolute timeout 3, idle timeout 2, 3 ticks, 1 change of the account |
| `config_cache` | is an answer as new as its call? | 2 readers, 2 keys, 3 writes, 1 failing read |

### Properties

* Wallet: `BalanceMatchesLedger` (cached balances are the ledger's sums),
  `EffectsAreSingle` (one row per key, one exact reversal per original),
  `OkReplyIsBacked` (a caller told "ok" owns a committed row of its own command),
  `ImplementsAccounts` (a command is one atomic step, and a closed account is empty and
  stays so), `EveryCallEnds`.
* Top-up: `OneCreditPerIntent`, `CreditIsPaid`, `SettledIsCredited`,
  `ArchivedIsSettled`, `IntentLifecycle`, `OneSessionPerIntent`,
  `PaidCallbackCredits`, `StuckEventIsReported`, `PendingEnds`.
* Chargebacks: `ReversalsAgree` (at most one reversal per top-up, whichever events ask
  for it; events, reversals and alerts say the same), `DeliverySettles` (one undisturbed
  delivery settles the event, wherever earlier ones died), `UnclearIsShown`.
* Refunds: `BudgetKept`, `InvoiceAgrees`, `ImplementsBudget` (claims never come back and
  reserved and returned amounts move with them), `MoneyOutOnce`, `PaidWithTwoMembers`,
  `OneTransferPerReference`, `EveryJobEnds`.
* Invoices: `MoneyIsAccounted` (paid amounts and balance are what settled receipts and
  payments put there), `InvoiceAgrees` (state and paid amount), `ArchivedIsFrozen`,
  `TwoMembersSettle`, `ShownIsSettled` (what is settled is what the confirming member,
  and for a wallet receipt also the first, was shown).
* Outbox: `AtMostOneSend`, `RecordsAgree` (job, log row and dead letter of a message
  agree with what became of it), `OutboxAgrees`, `EveryNoticeSettles`,
  `SkippedIsUnsent`.
* One-time codes: `GuessesAreBounded` (wrong codes per challenge, over all its codes),
  `ResetsFollowTheLastRequest` (a code or token is honoured for the last reset asked for
  and on the account version it was asked for), `CancelledIsVoid` (a delivery that was
  given up carries a code no answer could use).
* Sessions: `SessionsAreCurrent` (a live session's login proved today's password, on an
  account neither disabled nor due for a change), `ReplayedFamilyIsDead`,
  `LoginsAreBounded` (one redeemable token per family, the cap, the absolute lifetime).
* Cache: `NoStaleAnswer`.

Every property of a passing run has a mutant in the module: the definition a plausible
bug would produce (a dropped guard, a swapped order, a forgotten reset), under which TLC
finds the property violated.

Some properties are proved and not run, since the proof says more than an instance
could: the `TypeOK` of every module (`CodesTypeOK`, `CacheTypeOK`), `NeverOverdrawn`,
`ArchivedWalletIsEmpty`, `LedgerIsAppendOnly` and `BalanceChangeIsLedgered` of the wallet,
`JobMatchesRefund` of the refunds, `InvoicesOnlyFill` of the invoices (what an invoice was
paid never shrinks, and a full or cancelled one stays as it is), `EndedJobsStay` of the
outbox, `VoidCodesStayVoid` of the one-time codes, `FreshEntryIsCurrent` of the cache and
`FinishedStays` of the chargebacks.

### Bounds and why they suffice

`TxIds`, `MaxStarts`, `MaxDeliveries`, `MaxFaults`, `MaxAttempts`, `MaxSends`, `MaxChanges`,
`MaxWrites`, `MaxClock`, `MaxVersion` and `MaxEvents` bound what would grow without end. Two
concurrent actors meet in every pair of steps, and the races of this code are between two
holders (of a key, of an order, of a lease, of a reference); a third ledger row, session
or write, a second delivery or fault lets a finished race be followed by a retry.
`MaxAttempts`, `MAX_ATTEMPTS` and `MaxSends` are 2 so that both a retry and exhaustion
occur; in the code each of them is 5. In `sessions` three sessions are one
more than the cap, so that a login evicts and a rotation follows a rotation; idle and
absolute timeout differ so that a session can die by either; one change of the account
lies before, inside or after every login and refresh. In `config_cache` one write lies
before, one inside and one after a read. In `invoice_settle` one receipt pays part of the
invoice and the other all of it, so that partial funding and overpayment occur in either
order; the threshold is off or reached by both. In `chargebacks` two events claim one
top-up, by its order and by its authority, and a third notification reuses an event's id
for another top-up. In `one_time_codes` two codes belong to two
challenges or are two of one; two wrong codes exhaust a challenge, and a resend may lie
between them; one event is enough for a lease to lapse, a worker to die, the account to
change or a deadline to pass around any step of the others, which need no bound.

Safety results that do not depend on the bounds are the ones proved below. Symmetry is
used only where no liveness is checked, over interchangeable calls, workers, members,
readers and ids. Deadlock is not checked where the system may really stop: a settled
notice or order, or exhausted bounds. The wallet run checks it.

### Fairness

* Wallet: strong fairness of each call's own steps. PostgreSQL queues lock waiters,
  so a step that is possible again and again is taken. Submitting, archiving and
  crashing are not fair.
* Top-up: weak fairness of a call that was not killed, strong for its advisory lock
  (queued) and for the reconciliation scan, which skips orders that are locked and runs
  on a timer; clocks advance. Nothing is assumed of customers or the provider.
* Chargebacks: the same for a delivery, its lock and the scan; clocks advance. Nothing is
  assumed of the provider, the customer or the callbacks that credit.
* Refunds: the worker polls every 15 s: strong fairness of each due attempt, weak for
  the back-off to pass and for an open transfer's transaction to end, since it holds
  the invoice row the worker waits for. Staff need not act.
* Outbox: some worker polls (every 2 s); a worker that runs takes its next step, since
  statements and sends have timeouts; leases of dead workers expire; the clock
  advances.
* Invoices, sessions, cache and one-time codes: none. In the first three nothing has to
  happen: members, customers and readers may stop anywhere. That a code is delivered or
  given up in the end is not checked: requests, answers and workers together have too
  many states for TLC's search for cycles.

## 4. Proofs

All theorems are of the form `Spec => []P` or `Spec => [][A]_vars` and hold for any
number of wallets, keys, calls, credits, events, refunds, invoices, receipts, members,
codes, workers, channels, sessions, tokens and readers, and for any bounds; two more
(`Refinement` of the wallet and of the refunds) say that the ledger implements the
abstract accounts and the refunds the abstract budget. They assume what
the modules' named ASSUMEs say: that constants have their types and that `None` (`Nil`,
`Absent`) is none of the values it stands in for.

**FiniteSums** has no specification. The sums of the models are `SumFunctionOnSet` of the
library, which takes the elements in an order CHOOSE picks; the lemmas say that a sum
does not depend on that order (`SumTake`), is split by a disjoint union (`SumUnion`),
grows with its set (`SumSubset`) and changes by what one term changes (`SumChange`). The
library's induction over finite sets takes the claim as an operator, so these proofs
argue by the least counterexample instead (`LeastSubset`).

**WalletLedgerProofs** (`TypeCorrect`, `NotOverdrawn`, `ArchivedIsEmpty`, `AppendOnly`,
`Ledgered`, `BalancesMatchLedger`, `SingleEffects`, `RepliesAreBacked`, `Refinement`).
`NeverOverdrawn` is not inductive: a posted but uncommitted balance is computed from what
the call read earlier. `IInv` adds that a holder of the wallet lock is alone on its wallet
and that what it has seen is still committed (`LocksProtect`), that a call about to post
has passed the archive check (`ChecksHold`), that each uncommitted write is worth exactly
the difference it makes to the balance and does not overdraw (`WritesAreSound`), and that
no two uncommitted writes are to one ledger row (`WritesAreDisjoint`). COMMIT is then the
only step that changes the tables, and the action properties follow from what the
committing call's write satisfies. `BInv` carries the sums on: the ledger is finite, and
for each wallet COMMIT adds to the sum what it adds to the balance (`CommitSum`). `UInv`
does the same for keys and replies: an uncommitted row fits its command and collides with
no committed one (`DraftsFit`), what is to be reversed can be (`OriginalsAreReversible`),
only inserts lose to the unique index (`LosersInsert`), and a call told "ok" has its row
(`RepliesStand`). The refinement maps COMMIT to the abstract command and every other step
of a call to a stutter.

**OnlineTopUpProofs** (`TypeCorrect`, `OneCredit`, `PaidCredits`, `Settled`, `Archived`,
`OneSession`, `Lifecycle`). No transaction spans the statements of a call, so what it does
next rests on what it established before. `CallOK` and `StartOK` say what that is at each
step; `Grows` says what no step takes back (an authority, an event's order, a payment, a
credit), which is why it stays true while others act. `OneStartPerKey` is what the
advisory lock of initiate gives, `UnclaimedIsUnopened` that an intent nobody claimed has
no session at the provider.

**ChargebacksProofs** (`TypeCorrect`, `ReversedOnce`, `FinishedEventsStay`). Deliveries of
one event are apart (`LocksApart`), so an event a call found unfinished is unfinished when
it posts, and what it matched is still in the ledger (`CallOK`). Deliveries of different
events for one top-up are not apart; there the unique reversal decides. `Kept` is the
action part: finished events, reversals and alerts stay.

**RefundsProofs** (`TypeCorrect`, `PaidOnce`, `TwoMembers`, `JobsMatch`,
`UniqueReference`, `WithinThePaid`, `InvoicesAgree`, `Refinement`). `IInv` adds to the
four properties that obligations carry no approval and no requester, that an open transfer
keeps an approved row and a reference that is nobody else's, that only completed refunds
are reconciled, and that manual retries belong to obligations. The two sums are carried by
`BudgetInv`, which needs one fact of a step (`Effects`): it opens a refund within what its
invoice has left, closes one, completes one and moves its amount to what the invoice has
returned, or leaves the open refunds, the completed ones and the invoices as they are.
`Refinement` maps these effects to the steps of `RefundBudget`: the reserved amount of an
invoice grows and shrinks with the refund that opens or is open no more (`ReservedGrows`,
`ReservedShrinks`), and the guard of `Claim` is the check of what is available.

**InvoiceSettlementProofs** (`TypeCorrect`, `InvoicesAgree`, `ArchivedStaysFrozen`,
`MoneyAddsUp`, `MoneyStaysOnInvoices`, `TwoMembersSettleReceipts`, `ShownIsWhatSettles`).
`AllocationIsBounded` is the lemma on amounts: what a receipt puts on its invoice is
neither negative nor more than remains. `IInv` joins the two invariants with
`OpenIsNotOverridden`: a receipt still open carries no override, so an approval found at
confirmation was given by a second member. The two action properties then follow from the
step that settles, one case of `Gate` each. `MoneyInv` restates what is to add up as sums
over receipts, payments and invoices: `MoneySettled` and `MoneyDebited` say that a settled
receipt and a payment change both sides alike, and every other step changes neither. That
money stays on invoices is a fact of single steps (`InvoiceStepsFill`): a receipt leaves
nothing on an invoice that is paid and does not go to one that is cancelled
(`ConfirmFills`), and no other operation changes such an invoice.

**NotificationOutboxProofs** (`TypeCorrect`, `SendsOnce`, `RecordsStayTrue`, `EndedStays`,
`StatusAgrees`). A worker between the claim of a send and the record of its answer owns
the receipt (`FlightIsFenced`), so no two are there for one channel, and until the
provider has answered nothing was accepted. A worker writes what it planned long ago:
`ClaimIsCurrent` says that while its claim holds, every leg of its plan is still pending,
because whoever ends a leg also takes the claim away, and a new claim comes with a new
plan; `OutcomesAreTrue` says that a delivery it remembers is on the receipt. These are
`RInv`. `SInv` is the row's status beside its jobs: whoever writes jobs writes their
aggregate in the same transaction.

**AccessProofs, codes** (`CodesTypeCorrect`, `CodesShareABudget`,
`OnlyVoidCodesAreCancelled`, `VoidIsForever`, `OnlyTheLastResetCounts`). The wrong answers
to a challenge and the attempts it has left never exceed `MAX_ATTEMPTS` together, over all
its codes (`ChallengeOK`); an answer may count on the attempt it found because it keeps
the challenge locked until it ends (`GuessOK`). A worker cancels a delivery in one
statement and checked it in an earlier one: `VoidStays` says that a code that cannot be
used never can be again, since its challenge only moves on to other codes, its attempts
only fall and the account's version only rises. `WorkOK` and `DeliveryOK` say what a
worker and a delivery may refer to. The reset property is about a step: the code or token
which it honours was issued to the challenge that is the account's current one
(`ResetStep`).

**AccessProofs, sessions** (`SessionTypeCorrect`, `NoSessionOutlivesItsCredential`,
`ReplayEndsTheFamily`, `LoginsStayBounded`). `LoginOK`: a login whose version is still the
account's proved the password the account still has. `FamilyOK`: a family is named by a
session of its own, from whose beginning the expiry of all of them counts, and at most
one of them is not revoked. `TokenOK`: a token belongs to its session's family, and a
session has at most one unconsumed token. `ReusedOK` says that reported families exist.
The statements of the code that touch many rows at once (`Revoke`, `Consume`) enter
through lemmas that say what they leave of a row.

**AccessProofs, settings** (`CacheTypeCorrect`, `FreshEntriesAreCurrent`,
`AnswersAreNotStale`). `Certifies` says of an entry, and of every value a call carries
beside a version, what holds of such a pair for ever: the version is not ahead of the
present one, and if it is the present one the value is the row (`EntryOK`, `ReaderOK`,
which also says that what a call holds is no older than its beginning). Because row and
version change in one commit, no step can leave an old value under the present version.

**Only model-checked.** Liveness (`EveryCallEnds`, `PaidCallbackCredits`,
`StuckEventIsReported`, `PendingEnds`, `DeliverySettles`, `UnclearIsShown`, `EveryJobEnds`,
`EveryNoticeSettles`) needs fairness and ENABLED, which the prover does not handle, and so
does the absence of deadlock in the wallet. Everything else that a passing run checks is
also proved.

## 5. Deliberate abstractions

* Wallet: idempotent replies compare whole commands; wallet history reads are left out.
* Top-up: signature checks, parsing and currency units are before the model; a callback
  that fails them changes nothing. The provider's session number stands for its
  authority. One profile.
* Chargebacks: signature and parsing are before the model, the reason is left out, and the
  available amount is the posted one (no reservations). The dashboard warning only reads.
* Refunds: one profile; credit-note invoices, legacy refund counters, review hashes,
  documents attached as evidence and notifications are left out; evidence is valid.
* Invoices: one profile. Documents, the claim of a document by one receipt and its
  withdrawal, reminders, the override of a due date, the customer's quote screen, drafts,
  refunds of invoices and the replay of a submission or payment by its key are left out.
  Both review hashes are equality of the facts they cover.
* Outbox: a worker's name stands for its lease and attempt tokens, since it has one
  claim at a time; building a message is reduced to failing or not; only delivered log
  rows are counted; reminder policy, quiet hours and availability are choices.
* One-time codes: one account; codes to sign in and to reset a password. Two codes never
  agree by chance, and a guess is right or wrong by choice. A worker's name stands for
  its lease token. Rate limits, branding and the sealed payload, the inbox notice after a
  send, staff activation links, and codes for registration, contacts, usernames and
  step-up are left out; the end of a back-off or a lease is "may be claimed".
* Sessions: one account, since every statement names one user. Waiting for the lock
  takes no time. Device trust, attempts and resends of codes (`OneTimeCodes` has them),
  step-up stamps, operating context, the session of a registration and CSRF values are
  left out; a reset code is bound to the account's version and therefore one step. No
  code enables a disabled account again; `cleanupExpired` and `revokeFamily` have no
  caller.
* Cache: a value is its row's version. Without Redis every call reads the database, which
  is the path of a call whose Redis reads fail.

## 6. Hazards

`PROJECT.json` lists what is hard to test, at its line, with the properties that would
catch it. Two have no property. An attempt at a refund that throws outside its savepoint
ends the worker's batch; the model picks due jobs one at a time. A wallet receipt that
the register approved and whose invoice then changes can neither be confirmed nor
rejected; the model reaches that state, and nothing in the code or its documents
promises a way out.

Three more behaviours are in the models and are promised against nowhere, so no property
excludes them: a bank transfer stays Processing when its profile is archived before it is
reconciled; an exhausted refund without a contract obligation keeps its share of the
invoice; and an honest client whose refresh is overtaken by a step-up of the same family
presents a consumed token and loses its family, as `session.service.ts:637` has it.

## 7. Finding

`outbox_skip`: the comment at `apps/worker/src/notifications/outbox-runner.ts:127-128`
says that an earlier attempt is recovered or held "before current recipient/channel
policy can hide the previous attempt". The receipts are read once, before the policy is
asked, and the skip is stored without reading them again. A worker that stalled after
its last renewal can claim its send in between, because the receipt claim does not
compare the lease; the leg is then stored as skipped and the row as delivered while the
message is in flight or accepted. `AtMostOneSend` still holds: the message is sent once,
but it is not on record as delivered.

## 8. Not modelled, and why

Planned components are in section 9. Left out for good: order, contract, consultation,
electricity, saving and solar workflows and the maintenance of profiles and staff, which
move single rows under row locks; documents, uploads, tickets, Telegram, e-mail intake
and AI inference, which are input and output of external services; health, metrics and
CSP reports; the web client. The reconciliation scanners of wallets, invoices and
refunds only read and report; the wallet one checks at run time what
`BalanceMatchesLedger` states. These parts are most of the repository's lines, so the
map covers a small share of them; what is modelled is where several actors meet over
money, messages and access.

## 9. Plan

1. `OneTimeCodes`: liveness of delivery in a smaller instance (a queued code is sent,
   cancelled or dead under a polling worker); step-up codes bound to a session.
2. `CircuitBreaker`: late answers of calls started in another state.
3. Idempotency keys: claim, replay and conflict of an HTTP request whose first attempt
   may still be running.
4. Background jobs: leases of `async_jobs`, recording of jobs, the poller group.
5. Rate limits: fixed windows in Redis with the local fallback.
6. `Refunds`: the order of the retry runner's batch with an attempt that throws.

## 10. Running

```
tlc -workers 2 -config MCWalletLedger.cfg MCWalletLedger
tlapm WalletLedgerProofs.tla
```

Each run of `PROJECT.json` names its module and configuration. The longest take about
three minutes with two workers.

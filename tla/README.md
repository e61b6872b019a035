# ConvertChain: a TLA+ model of the trade engine

ConvertChain takes a user's crypto deposit, sells it on an exchange and pays the
proceeds in naira to the user's bank account. A Go engine (`go-engine/`) holds the
state in PostgreSQL and drives every trade with background workers; a Python bot
(`python-bot/`) talks to the users over WhatsApp and Telegram and calls the engine over
HTTP. This directory models in TLA+ how the engine opens a trade and carries it through, and
the parts around it that have state of their own: the notification outbox, the verification of
users, running balances, review cases, the rate limiter, prices and the bot's conversation. TLC checks
the models on small instances; TLAPS proves their safety for every instance.

* [1 Inventory](#1-inventory)
* [2 Plan](#2-plan)
* [3 The modules and the code](#3-the-modules-and-the-code)
* [4 What is checked](#4-what-is-checked)
* [5 Fairness](#5-fairness)
* [6 What is proved](#6-what-is-proved)
* [7 What the model found](#7-what-the-model-found)
* [8 What is not modelled, and abstractions](#8-what-is-not-modelled-and-abstractions)

## 1 Inventory

Paths are relative to the repository; `G` stands for `go-engine/internal`.

| component | code | state | operations | talks to | what is hard | what makes it correct |
|---|---|---|---|---|---|---|
| Trade state machine | `G/statemachine/trade_fsm.go`, table in `G/service/financial_ledger.go` | none (two tables) | `Transition`, `CanTransition`, `isAllowedTradeStatusTransition` | watcher, `updateTradeStatusTx` | two tables that must agree with what workers and administrators ask for | every status change is a listed transition |
| Trade transaction and ledger | `G/service/trade_ops.go`, `financial_ledger.go`, `store.go` | `trades`, `financial_operation_keys`, `ledger_entries`, `trade_status_history`, `trade_disputes` | `UpdateTradeStatus`, `updateTradeStatusTx`, `reserveMoneyOperationKeyTx`, `postLedgerForStatusTransitionTx` | all workers and handlers | the transition is checked against a row read before the transaction | a key takes effect once; ledger, history and status agree |
| Deposit watcher | `G/workers/deposit_watcher.go` | none | `runOnce`, `processTrade`, `moveToDispute` | blockchain client | reorganisations, the deposit window, two trades with one hash | deposits are detected, confirmed, disputed or cancelled, once |
| Deposit backfill scanner | `G/workers/deposit_backfill_scanner.go` | none | `runOnce`, `scanTrade`, `raiseDispute` | blockchain client | works on the watcher's trades at the same time with other keys | it repairs what the watcher missed and undoes nothing |
| Conversion processor | `G/workers/conversion_processor.go` | `retries` in memory | `processConfirmedTrades`, `recoverInProgressTrades`, `processTrade` | exchange | the order is executed before anything is written; restarts forget the retries | a deposit is sold once; no trade is stuck |
| Payout processor | `G/workers/payout_processor.go` | none | `initiateReadyPayouts`, `reconcilePendingPayouts` | payout provider | the payout is created before anything is written | a trade is paid once, and only on the provider's word |
| Graph payout webhook | `G/service/graph_webhooks.go`, `G/api/handlers/provider_webhook_handler.go` | `webhook_events` | `HandleGraphWebhook` | provider | late, repeated, lost and reordered deliveries | an event is applied at most once |
| Disputes | `G/service/admin_ops.go`, `user_ops.go` | `trade_disputes` | `RaiseDispute`, `ResolveTradeDispute` | users, administrators | two administrators at once, disputes while workers write | one open ticket; nothing moves a disputed trade but its resolution |
| Quotes and trade creation | `G/service/trade_ops.go`, `G/workers/quote_expiry.go` | `quotes`, `trades` | `CreateQuote`, `ConfirmTrade`, `ExpireQuote` | pricing, compliance | checks before the transaction, expiry racing a confirmation | a quote is used once, and not after it expired |
| Ledger balances | `G/service/financial_ledger.go` | `ledger_entries.balance_after`, created_at | `ledgerBalanceForAccountTx`, `postBalancedLedgerEntryTx` | trade transaction | running balances under concurrency | balances add up |
| Notification outbox | `G/service/notification_ops.go`, `python-bot/app/services/message_runtime.py` | `notification_events` | `enqueueNotificationTx`, `GetPendingNotifications`, `AckNotification`, the bot's delivery loop | bot | leases that run out, lost answers, restarts, dead letters | every notice is delivered or given up; copies have a reason |
| Transaction password | `G/service/security_ops.go` | columns of `users` | set up, verify | trade creation, deletion | the attempt counter is read, then written | three wrong attempts lock |
| Account deletion | `G/service/account_ops.go` | `users`, `bank_accounts`, `account_deletion_events` | `DeleteAccount` | trades | blocking trades are read before the transaction | nobody is deleted with a trade in flight |
| User state machine and KYC | `G/statemachine/user_fsm.go`, `G/kyc`, `G/service/kyc_*.go` | `users`, `webhook_events`, `kyc_documents` | `submitTier1KYC`, `submitTier2PlusKYC`, callbacks of Smile ID and Sumsub, `SaveKYCResult` | providers, outbox | callbacks in any order, over submissions and over each other; local approvals in place of a provider's | a user is verified only on an approval, and told so |
| Compliance | `G/service/compliance_ops.go` | `compliance_screening_events`, `aml_review_cases`, their timelines | limits, screening, monitoring, `DispositionAMLCase` | quotes, trades | counts are read before the insert; a case and its timeline are separate statements | limits hold; a timeline tells its case |
| Rate limiter | `G/api/middleware/ratelimit.go` | Redis sorted sets | `SlidingWindowRateLimiter` | HTTP surface | errors let requests pass; requests of one instant are one entry | at most the limit per window |
| Pricing | `G/pricing/engine.go` | prices cached in Redis | `GetQuote`, `getBestCryptoPrice`, `generateFallbackQuote` | exchanges, Graph, quotes | a cached price outlives its moment, a quote outlives the cache | trades are made at recent prices; net + fee = gross |
| Provider adapters | `G/graph`, `G/exchange`, `G/service/*_clients.go` | none | requests | providers | what an error means | classified errors |
| HTTP surface, receipts, readiness, secrets | `G/api`, `receipt_ops.go`, `provider_readiness.go`, `G/vault`, `G/crypto` | none | routing, reports, encryption | all | - | - |
| Chat bot | `python-bot/app` | Redis sessions, claimed message ids | router, flows, replay guard | engine, outbox | whole-session writes by concurrent handlers, expiry, redelivery | effects only on the answer to their own prompt |

`PROJECT.json` lists the same components with what is modelled of each, and the hazards of
the code line by line.

## 2 Plan

Order: money first, then what leads into a trade, then what reports about it.

1. **Trade life cycle** (done): `TradeStatus`, `TradeStore`, `TradeLifecycle`, abstract
   specifications `TradePromise` and `OnceOnlyLedger`, proofs.
2. **Trade opening** (done): `TradeOpening` with `CreateQuote`, `CreateTrade`, `ConfirmTrade`,
   the transaction password, the tier limits, the quote expiry worker and `DeleteAccount`, over
   `users`, `bank_accounts`, `quotes`, `trades`; proofs.
3. **What reports and what admits** (done): `NotificationOutbox` with the bot's delivery loop,
   implementing the abstract `DeliveryPromise`; `UserVerification`; `LedgerBalance`;
   `ReviewCases`; `RateLimiter`; `Pricing`; `BotConversation`. They share no state; `MCServices`
   composes them so that their state spaces add instead of multiplying; proofs.
4. **The money side for every deployment** (done): `OrdersBacked`, `PayoutsBacked`,
   `PayoutsEvidenced`; what the pipeline keeps as long as nobody else has written to a trade
   (`PipelineKeepsPromise`, `PipelineFundsOnce`); the invariants of `Pricing` and
   `BotConversation`; the services together. Every invariant and every action property of the
   passing runs is now proved.
5. Left: pure arithmetic of prices (`Amounts`: minor units, fee tiers, rounding) against
   reference definitions; lemmas about `isAllowedTradeStatusTransition` against
   `trade_fsm.go`'s table; the step simulation under the liveness properties (that each fair
   action makes progress), as far as it is not temporal.

## 3 The modules and the code

| module | models |
|---|---|
| `TradeStatus` | the table of `trade_fsm.go`, `isAllowedTradeStatusTransition`, and which ledger entries a status posts |
| `TradeStore` | the tables and the one transaction `updateTradeStatusTx`, as `UpdateTradeStatus`, `RaiseDispute` and `ResolveTradeDispute` commit it |
| `TradeLifecycle` | the four workers, webhook deliveries, users and administrators over `TradeStore`; crashes; the properties |
| `TradePromise` | abstract: a status moves along an allowed transition from the status the trade really has, and posts with it |
| `OnceOnlyLedger` | abstract: a posting uses up one new operation key |
| `TradeClaims` | what comments and documents say and the code does not keep |
| `TradeOpening` | quotes, transaction password, limits, creation of a trade, expiry of quotes, deletion of the account |
| `OpeningClaims` | what documents and messages say of quotes and deletion and the code does not keep |
| `NotificationOutbox` | `notification_events` (queueing, claiming with a lease, acknowledging) and the pollers of the bot |
| `DeliveryPromise` | abstract: a notice is delivered once it was received, or given up at the maximum of failures; both final |
| `UserVerification` | the user's state machine, submissions, webhook events and callbacks of the KYC providers |
| `LedgerBalance` | running balances of ledger accounts, computed by concurrent transactions |
| `ReviewCases` | velocity and pattern monitoring of quotes, screening, review cases with their timelines, officers |
| `RateLimiter` | the sliding window in Redis, call by call |
| `Pricing` | where the price of a quote comes from and how old it is when a trade is made at it |
| `BotConversation` | message intake, sessions and flows of the bot with one user |
| `MCTrade`, `MCOpening`, `MCServices` | constants and symmetry for TLC; `MCServices` also composes the seven parts above |
| `TradeLifecycle_proofs` | the inductive invariant and type correctness; ledger, history and tickets, for every instance |
| `TradeMoney_proofs` | orders, payouts and their evidence, for every instance |
| `TradePromise_proofs` | one trade per hash, and the moves of `TradePromise`, for the trades only the pipeline has written to, in every deployment |
| `TradeOpening_proofs` | every invariant and the action property of `TradeOpening`, for every instance |
| `NotificationOutbox_proofs` | types, `DuplicatesExplained` and the refinement of `DeliveryPromise` |
| `UserVerification_proofs` | types and all invariants of `UserVerification` |
| `BotConversation_proofs` | types and all invariants of `BotConversation` |
| `Services_proofs` | types and the invariants of `LedgerBalance`, `ReviewCases`, `RateLimiter` and `Pricing`; the composition in `MCServices` |

**Granularity.** PostgreSQL gives each transaction atomicity, and `updateTradeStatusTx` takes
the row lock with its first write, so the transaction is one step (`UpdateCommit`,
`ResolveCommit`). What the code does *outside* it are steps of their own:

* a worker lists trades (`ListTrades`: the copies stay in `task[w].todo`, however old they
  get), handles an item and calls a provider (`WatcherChecks`, `OrderExecuted`,
  `PayoutCreated`, ...), then `UpdateTradeStatus` reads the row and checks the transition
  (`ReadTrade`), then commits (`CommitUpdate`) with the status it has *read*;
* `ResolveTradeDispute` reads the ticket (`AdminFindsTicket`), reads the trade
  (`AdminReadsTrade`), commits (`AdminCommits`);
* a webhook delivery is looked up (`HookReceives`), updates like a worker, and is marked
  processed afterwards, also after an error (`HookMarksProcessed`).

Anything may happen between any two of these steps. `CommitFails` is a transaction that is
rolled back, `Crash` stops the engine: tasks and the retry counter are lost, the database is
not. `PostingFails` is a transaction whose ledger posting has a key that is too long for its
column (`KeyFits`): it is rolled back too, at this attempt and at every later one, and no fault
is counted, because nothing about it is accidental. `StatusWritten` needs a key that fits.

**Variables.** `trade` (row: status, deposit hash, order, payout, actual amount), `opKeys`,
`ledger` (how often each group of balanced entries was posted), `history`, `disputes`;
outside the engine `chain`, `expired`, `orders` (exchange orders executed), `payouts` (the
provider's payouts); in memory `retries` and `task`; `hookDone` for `webhook_events`;
`faults` counts crashes, failed commits and lost answers of the exchange and the provider.

**Opening a trade** (`TradeOpening`). One user, since no check of these operations looks at
another user's rows. A session serves one HTTP request at a time; `request[s]` holds what the
handler has read so far and `pc` what it does next. Every read of the database is a step, and
the statement or transaction that ends the request is a step:

| request | steps |
|---|---|
| `CreateQuote` | `enforceQuoteTierLimits`, `InsertQuote` |
| `ConfirmTrade` | `ReadUser`, `PasswordRight` or `PasswordWrong`, `ReadQuote`, `ReadBankAccount`, `enforceTradeTierLimits`, `CommitTrade` |
| `CreateTrade` (legacy route, unless its mode is `enforce`) | as above from `ReadQuote` on |
| `DeleteAccount` | `ReadUser`, `PasswordRight` or `PasswordWrong`, `FindsNoOpenTrade`, `EraseAccount` |
| `SetupTransactionPassword` | `SetupReadsUser`, `SetupWrites` |
| `AddBankAccount` | `AddBankAccount` (it checks nothing that another request changes) |

`RequestEnds` ends a request anywhere: a refusal, an error, a stopped engine. The worker's
list is `expiring`; the clock is `QuoteLapses` and `LockEnds`. A trade is open until
`TradeEnds`: what happens in between is `TradeLifecycle`.

**The outbox** (`NotificationOutbox`). A row has a token, a lease that lapses after two minutes
and a backoff; a poller holds the batch it claimed under one token. `GetPendingNotifications`
is one statement, and takes any part of the claimable rows because locked ones are skipped.
`Deliver` sends one notice; the user may have received what the provider reports as failed.
`AckSent` and `AckNotSent` acknowledge under the poller's token: the answer, or the request,
may be lost, and then the client repeats it, gives up, or the exception handler reports a
failure. `repeats` records each reason to send a notice again. The legacy schema path
(a database without claim columns) is left out.

**Verification** (`UserVerification`). A submission decides on a copy of the user (`submitter`),
calls the provider and writes status and tier at the end. A callback goes through
`ensureWebhookEvent`, `ResolveTier`, `CallReadsUser`, `SaveKYCResult`,
`enqueueKYCVerifiedNotification`, `markWebhookEventProcessed`; each is a statement of its own in
the code, so each is a step. `EventKey` is the identity under which an event is stored.
`approvals` are those of the providers. `MockApproves` is what `AutoApproveKYC` (on by default
outside production, `cmd/server/main.go:179-181`) makes of a provider's error, of a rejection by
Smile ID and of a missing provider: a local approval, which `mocked` remembers.

**Balances** (`LedgerBalance`). `ledgerBalanceForAccountTx` reads the entry with the latest
created_at, its own transaction's included; entries of one transaction have one created_at and
a random id decides between them, which is a choice in `EntryInserted`. `WithEntries` is the
transaction after both halves of a posting. `disturbed` collects the accounts on which
transactions overlapped or one wrote twice.

**Review cases** (`ReviewCases`). A quote request is screened, counts the recent quotes, looks for
patterns and inserts; a flagged one opens a case. The case and the entry of its timeline are two
statements, and an officer's disposition likewise.

**Rate limiter** (`RateLimiter`). A request takes its time, then `ZAdd`, `ZRemRangeByScore`,
`Expire`, `ZCard`: four separate calls that may interleave with another request's.
Any call may fail, and the key may expire between two of them. `members` is the set in Redis,
where requests of one instant are one member; `admitted` has a record for each request let
through.

**Prices** (`Pricing`). A request for a quote looks into the cache, asks the first exchange and caches
its price (`StorePrice`), or asks the second; then it asks Graph for the rate and offers a quote.
Whatever fails, `generateFallbackQuote` quotes fixed rates. A price is the instant an exchange
showed it. `ReadOffer` and `CommitAtPrice` are the confirmation, as far as the price matters.

**Bot** (`BotConversation`). A message is claimed, its handler copies the session
(`LoadSession`), refreshes it from the engine (`RehydrateSession`), acts on the step it finds in
its copy and writes the whole copy back (`SaveSession`). The flows are actions (`FillForm`,
`submitKYC`, `SetupPassword`, `AddBank`, `Sell`, `Confirm`, `TradePassword`, `ConfirmDelete`, ...);
commands come first (`RouteCommand`). Words are classes of input: "text" is what the step asks
for, "bad" what it refuses. `asked` remembers what the user has confirmed. A message whose event
has an id is claimed under it; one without (`Unnamed`) is taken up at every delivery. A
kyc.verified notification activates the session before each attempt to send it:
`ActivationReads` and `ActivationWrites` are two steps with anything in between, and
`NoticeSent` may leave the notice to be sent again. A first submission may find that the engine
does not know the user; `submitKYC` then looks the user up or makes a new one, saves the session
and submits once more (`resubmitKYC`).

## 4 What is checked

Runs on the life of a trade use the module `MCTrade`, runs on its opening `MCOpening`. Bounds
are the constants of the `.cfg` files:
`MaxOrders`, `MaxPayouts` (how often the exchange and the provider are used for a trade),
`MaxAttempts` (`conversionMaxRetryAttempts`, 2 or 1 instead of the code's value), `MaxFaults`
(crashes and failed transactions together). Trades interact only through the deposit hash,
so one trade is enough except where the hash is the subject.

| run | instance | shows |
|---|---|---|
| `pipeline` | watcher, converter, payer, one delivery, a fault; one of two hashes too long for the ledger | types; `PayoutsEvidenced`; the pipeline implements `TradePromise`; confirmed, pending and received deposits all come to an end, the latter if their confirmation can be posted |
| `deposit_side` | watcher, scanner, converter | `PostedOncePerKey`, `OrdersBacked` while watcher and scanner confirm the same deposit under different keys |
| `disputes` | watcher, a user, two administrators (symmetric), a fault | `OneOpenTicket`, `AuditTrailCurrent`, `AuditTrailAllowed` while tickets are raised and resolved concurrently |
| `recovery` | pipeline, a delivery, an administrator who retries or forces, a fault; one of two notes too long for the ledger | `PayoutsBacked`, the refinement of `OnceOnlyLedger`, `DisputesAreTicketed`; until the administrator first writes, the pipeline's writes are moves of `TradePromise` (`PipelineKeepsPromise`) |
| `opening` | two sessions, three quotes and bank accounts, a limit of one | everything `TradeOpening` states: keys are used once, accepted quotes have trades and do not expire, what is left of the limits and of "accepted once" under concurrency, the lock follows the attempts |
| `services` | the seven parts of `MCServices`, each with its own concurrency and faults | at-least-once delivery (`OutboxKeepsPromise`, `DuplicatesExplained`, `NotificationsSettle`), verification only on approvals (`ApprovalBacked`, `ApprovedHasTier`, `VerifiedIsAnnounced`), `BalancesAddUp`, monitoring (`VelocityOvershoot`, `TimelineTells`), `AdmittedWithinLimit`, `TradedAtRecentPrice`, the conversation (`HandledOnce`, `EffectsConfirmed`, `ReadyIsEarned`) |
| `paid_without_deposit`, `dispute_overwritten`, `rejected_payout`, `duplicate_deposit`, `quote_used_twice`, `deleted_with_trade` | smallest instances (`duplicate_deposit`: two trades, one hash, watcher and scanner) | counterexamples, see section 7 |

Why the bounds suffice for these questions. Two orders (two payouts) let a second, unwanted
one happen. One fault separates an external effect from its record at every point where
that is possible, since it may strike any task at any step. Two administrators are the
smallest number for which both find the same open ticket; with a watcher and a user there
are two sources of disputes, so a new ticket can be raised between the two closings. The
administrators' symmetry is used only in a run of invariants.

In `opening` two sessions are the smallest number that can pass a check together. With a limit
of one, the bounds on quotes and trades are two, and three quotes and three bank accounts let
them be exceeded; the lock comes after two attempts (`MaxRetries`) instead of the code's three,
and `MaxAttempts` bounds the counter at the same value: the wrong attempt after a lock has run
out is in the proof of `LockAgrees` and not in the run. Trades end by
cancellation there, the only end that frees the limit. Quotes, bank accounts and sessions are symmetric; the run has invariants and an action
property and no liveness.

In `services` the variable `active`, chosen initially, names the part whose steps a behaviour takes;
the other parts keep their initial states. The parts have disjoint tables and keys, so nothing of
their interaction is lost. A property of a part is checked in all its states, and holds in the
states of the other parts because it holds initially. Bounds, part by part:

* outbox: two pollers and three things to announce, two of them with one dedupe key; two failures
  give up a notice (`notificationMaxAttempts` is 8); one mishap (a restart, a lost answer, a lease
  that runs out under a live poller) strikes at any step. Five tokens: two rows and two pollers
  remember at most four, so one is always fresh.
* verification: one submission and one delivery at a time, two callbacks of six kinds (approved,
  rejected, pending; tier named, wrong or missing; with and without an identity), one failure,
  with `AutoApproveKYC` on, which includes the behaviours without it.
  Several concurrent deliveries are in the proofs; with two the states are 4.5 million and the
  invariants hold there too.
* balances: three transactions (two conversions, one with a fee, and a payout).
* review: two clients, two officers, threshold 1, one case with at most two entries, one lost entry.
* limiter: two requests at a time, limit 1, window 3, delay 1, four instants: an old request leaves the
  window. Two requests of one instant may pass (`MaxTogether`), and one call may fail: from the first
  failure on nothing is claimed (`spoilt`), so a second one would show nothing.
* pricing: two requests, one coin (the cache has a key per coin), the cache for two instants, a quote
  for one, a request for at most one, seven instants; the bound of `TradedAtRecentPrice` is reached.
  One quote and one trade, beyond those already being asked for when the bound is met.
* bot: two handlers and sixteen scripts of up to three messages from four situations, one quote, two
  accounts one after the other, one fault. The scripts interrupt each flow by a command, answer it
  rightly and wrongly, and delete the account in the middle of another flow. Two of them have no
  message ids; each of their messages is delivered up to twice (`MaxRepeats`). Notifications are
  delivered one at a time, by the one loop of the bot.

All of these but the liveness properties (`ConfirmedDepositsSettle`, `PendingTradesEnd`,
`ReceivedDepositsSettle`, `NotificationsSettle`), `KeepsPromise` and the six counterexamples are also
proved for every instance (section 6); of `KeepsPromise` its step, as `PipelineKeepsPromise`.
`CHECK_DEADLOCK FALSE` is set because a trade does come to an end: once it
is paid, closed or cancelled and nobody raises a dispute, no step is left. In `MCOpening` the
bounds stop the system: quotes and bank accounts run out, and the account may be deleted. In
`services` every part stops when its notices are settled, its scripts read, its clock at the bound.

`KeepsPromise` is checked in a deployment without scanner and people, although `main.go:272` always
starts the scanner: what these write to a trade may be stale (section 7, `dispute_overwritten`),
so that it holds only as long as they have written nothing. `PipelineKeepsPromise` says that in every
deployment: the keys of scanner, users and administrators have names of their own, so that the key
table tells whose writes a trade has seen (`OnlyPipeline`). `PipelineFundsOnce` says the same of the hash.

## 5 Fairness

The liveness properties are checked under `FairSpec`:

* weak fairness of `ListTrades`, `ReadTrade`, `CommitUpdate` or `PostingFails`,
  `HookMarksProcessed` and `ConverterStep`: the workers run on tickers (5, 5, 5 and 30 seconds, `cmd/server/main.go`),
  so a pass is always started again, and a call that was started returns;
* weak fairness of the clock (`WindowCloses`) and of the provider's settlement
  (`ProviderSettles`): time passes, and the provider decides at last;
* strong fairness of the watcher's and the scanner's checks, of `PayoutCreated`,
  `PayoutReconciled`, of `ConversionTimesOut` and, for the trades of `RejectedPayouts`, of
  `PayoutRejected`: an item may be skipped
  again and again because the explorer or the provider returns an error or the ten minutes
  are not over, but not each time forever. Each tick is a new attempt, so this is the usual
  assumption that an outage ends.

`NotificationsSettle` is checked under `OutboxFairness`: weak fairness of each poller's steps (the
bot's loop never ends, and an error of one pass is logged and slept over), of the end of a backoff
and of a lease (both are comparisons with the clock). Nothing is assumed of the user's phone, of
Redis or of a provider: a delivery may fail every time, and the notice is then given up.

Nothing is assumed of users, administrators, deliveries or the chain: a deposit need never
come and never become final (`ReceivedDepositsSettle` says what then is lost).

## 6 What is proved

`TradeLifecycle_proofs`, `TradeMoney_proofs` and `TradePromise_proofs` hold for every set of trades, hashes, notes,
workers, deliveries, users and administrators and every bound, from the assumptions
`StoreAssumption` (NULL is no value), `LifecycleAssumption` (workers are workers of the code,
bounds are numbers) and `ProcessesDistinct`.

* `InvariantHolds`, `TypeCorrect`. `TypeOK` is not inductive: that a commit writes a well-typed
  history row needs what the task read earlier, that a deposit update has a hash needs what
  the chain showed earlier. `IInv` adds `TaskSound` (a task about to commit holds a status it
  has read, an allowed transition from it, and an update without posting only towards
  DISPUTE) and `ChainSound` (a deposit that was seen has a hash). One lemma per action; most
  go through `TaskStep`, a step of one process that leaves the database alone.
* `StoreSteps`, `StoreTransactions`: a step either leaves all tables alone or is one
  `Transaction` of one task. The theorems below are invariants of that single shape.
* `HistoryCorrect`, `HistoryAllowed`: `AuditTrailCurrent` and `AuditTrailAllowed`. The history
  records the transition that was *checked*, which need not be the one that happened.
* `OnceOnlyKept`: any deployment refines `OnceOnlyLedger`; `PostedOnce`: ledger counts equal
  key counts (`KeysInv` adds that the keys stay finite, or there would be nothing to count).
* `OneTicket` (`TicketInv` says it without cardinality).
* `DisputesTicketed`: an action property. It needs `AdminInv`, that no resolution mode asks for
  DISPUTE, since a resolution closes a ticket and opens none.
* `OrdersAreBacked`. An order is *due* (`OrderDue`) for a trade that the converter has on its list
  as confirmed, or that is confirmed while its latest order is not being recorded. `OrderInv` says
  that a due order is still covered: one posting or fault more than orders. So an order that is
  executed uses up what covered it. It falls due again only by a write of DEPOSIT_CONFIRMED, which
  posts, or by a fault, which counts. This needs that the call recording an order cannot be
  taken for a duplicate (`OrderTasks`, `OrderKeys`): its key carries the number of the latest order.
* `PayoutsAreBacked`: the same for payouts. Their references are known to deliveries, rows and
  administrators as well; `OldRef` says that while a payout is being recorded theirs are older.
* `PayoutsHaveEvidence`: `EvidenceInv` adds that a call about to post PAYOUT is for a payout that was
  completed when it was read; `PayoutsGrow` (settled payouts stay) carries that to the commit.
* `HashesFundOnce`: `PipelineFundsOnce` in every deployment. `HashInv`: of two trades with one hash
  at most one *can fund* (waits for a deposit, is in the watcher's hands, or has its DEPOSIT posting),
  if only the pipeline has written to both; the call the watcher holds brings a hash of no other such
  trade. A trade that can no longer fund never can again, and one that somebody else has written to
  stays outside the claim, since keys are never given back. That it does not extend to the scanner's
  own writes is the counterexample `duplicate_deposit`.
* `PromiseKept`: `PipelineKeepsPromise` in every deployment: whatever scanner, users and administrators
  hold or have done to other trades, a trade only the pipeline has written to moves as `TradePromise`
  says. The code reads the row before its transaction, so a write could always be stale;
  `PromiseInv` says why the pipeline's are not while nobody else has written. Each status has one
  worker that moves a trade on from it (`Owns`), and what that worker has listed (`ItemTrue`) or is
  about to write (`Moving`) is still true of the row. Only where
  reports of the provider arrive, several hold one trade (`Settling`); there the keys already
  reserved (`PaidRow`) and the provider's final records leave only one of their updates new. A posting
  whose key does not fit changes nothing.

`TradeOpening_proofs` holds for every number of quotes, bank accounts and sessions and every
limit, from `OpeningAssumption` (finitely many sessions, at least one; NULL is no quote and no
bank account; limits are numbers, `MaxRetries` positive).

* `OpeningTyped`. `TInv` adds that a request about to look at the limit or to commit knows its
  quote and its bank account, or the row it inserts would have no type.
* `ConfirmedOnce`, `AcceptedTraded`: `KInv` says that the trades' keys are the reserved keys and
  that the accepted quotes are those of trades. `TradeSteps` reduces a step to three cases: the
  trades stay, one is appended by `CommitTrade`, or one ends and keeps its key.
* `QuoteUses`: `UseInv` counts the trades of a quote together with the sessions that have found
  it unused. While it is unused that is at most the number of sessions; once it is accepted no
  session joins, so the sum only falls as requests end.
* `TradeLimit`, `QuoteLimit`: `TradeLimitInv` counts the trades together with the requests past
  the check. Passing the check puts the sum within `Limit` plus the sessions, minus one; a commit
  moves one from the second count to the first.
* `LockAgrees`, and `AcceptedKept`, an action property: `ExpireQuote` looks at accepted_at in the
  statement that writes expired_at.

The proofs of the other parts hold for every value of their constants, from the assumption each
module names; `OutboxAssumption` asks for finitely many pollers, since copies are counted by them.

* `CopiesExplained`. `DuplicatesExplained` is not inductive: nothing in it stops two pollers from
  sending at once. `Budget` counts, per notice, the copies received, the pollers still about to send
  it, and one more if it is `FreeToSend`: claimable without a reason, now or after an acknowledgement of
  failure that its poller may still make under its own lease. The sum is at most one more than the
  reasons to repeat. A claim under a fresh token moves one from the last part to the second.
* `OutboxDelivers`: the refinement of `DeliveryPromise`. `RowSound` (a delivered or dead row carries
  no token) makes stale acknowledgements harmless; `BatchSound` (what is about to be acknowledged as
  sent was received) makes recorded deliveries real.
* `VerifiedHaveTier`: `Sound` says that a first submission writes a tier exactly with an approval,
  and that a delivery has resolved a tier before it reads.
* `VerifiedOnApproval`: `Unapproved` describes the whole system before the first approval, by a
  provider or in its place: tier 0, only tier 1 checked, nothing on its way with an approval, an
  upgrade or a tier above 1.
* `ApprovalsAnnounced`: `AInv` adds that a delivery of an approval about to be marked has announced
  it, and that no event of a call still to come has been received.
* `BalancesKept`: a transaction that does not disturb an account has read its committed balance, and
  what it has moved explains what it will show. `VelocityBounded` counts the quotes together with
  the requests past the check. `TimelinesTell` follows each case to its pending entry.
* `WindowsRespected`: unless a failure or an expiry spoilt the set, it keeps the instant of every
  admitted request of the last `Window` instants and every counted request in progress, and the key outlives them
  (`KeyOutlives`). Every window a new request lies in is then a part of the set it was counted in.

* `TradesAtRecentPrice`: `PriceInv` bounds, for the cached price, for each request by where it
  stands, and for each offer, how long ago the price was shown. The bound grows by a request's delay
  at each hand-over, which is why it ends at both lifetimes and three delays.
* The bot: `BotInv`. `Truthful` says that whatever a session claims (an account, that the user is set
  up, a quote that awaits its password, a deletion that was confirmed) is true of the engine,
  in Redis *and in every handler's copy*. It stays true because these facts are stable (`Later`), so
  it does not matter whose copy is saved last, nor how often a notification activates the session
  (`CourierSound`). `MessagesHandledOnce` is about messages with an id.
* `PartsKeepTheirSpecs`, `ServicesTyped`: a behaviour of `ServicesSpec` is one of each part's
  specification, so that the theorems about the parts hold of their composition.

Only model-checked: the liveness properties `ConfirmedDepositsSettle`, `PendingTradesEnd`,
`ReceivedDepositsSettle`, `NotificationsSettle` and the counterexamples of section 7, among them
`RejectedPayoutsFail` (temporal reasoning under fairness and ENABLED are out of the prover's reach). No
module declares a RECURSIVE operator, and no induction over data is needed.

## 7 What the model found

* **Paid without a deposit** (`paid_without_deposit`). A user may dispute a trade that still
  waits for its deposit. `retryStatusForTrade` (`G/service/admin_ops.go:529-537`) sends a trade
  without an order to DEPOSIT_CONFIRMED and does not ask for a deposit; the processors sell
  and pay. `trade_fsm.go:12-13` says the state machine prevents this by design.
* **A dispute is overwritten** (`dispute_overwritten`). `UpdateTradeStatus` reads the row before
  its transaction and the UPDATE names only the id. The watcher commits DISPUTE between the
  scanner's read and its commit; the trade goes on towards payout with a ticket open.
* **A rejected payout is never failed** (`rejected_payout`). The processor asks for
  CONVERSION_COMPLETED -> PAYOUT_FAILED, which `isAllowedTradeStatusTransition` does not list:
  the error is logged, and the payout is attempted at each tick.
* **A quote used twice** (`quote_used_twice`). `createTradeWithAuthorization` looks at accepted_at
  before its transaction, the UPDATE names only the id, `trades.quote_id` is not unique, and the
  operation key contains the bank account: two confirmations with two bank accounts both trade.
  `QuoteUsesBounded` is what remains of the promise.
* **Deleted with a trade** (`deleted_with_trade`). `DeleteAccount` looks for open trades before its
  transaction; a confirmation in between leaves an open trade of an erased user whose bank account
  is archived. An account erased while a password is being set up can even confirm afterwards.
* **One deposit confirms two trades** (`duplicate_deposit`). Watcher and scanner, both started by
  `cmd/server/main.go:271-272`, look a hash up (`G/workers/deposit_watcher.go:168`,
  `deposit_backfill_scanner.go:107`) before they write it, and the column is not unique. Working on two
  trades of one deposit, both find nobody and both write it; from then on the lookup returns the
  trade that was updated last, which may be the one being checked, and both are confirmed.
  `docs/blockchain-deposit-monitoring.md:61` lists a "Unique transaction hash across trades." The
  watcher alone keeps it (`HashesFundOnce`).

Visible in the model as well, and kept as hazards: the two deposit workers post DEPOSIT twice
for one deposit, because their operation keys differ, and the trade can then be sold twice
(`OrdersBacked` says at most once per posting); `retry_processing` after a *failed* conversion
goes to CONVERSION_COMPLETED because an order id is on record; a resolution whose note was used
before for the same status commits nothing but closes its ticket.

What the services run and its model show, where the properties are weakened accordingly:

* **Operation keys that do not fit.** `ledger_entries.idempotency_key` is VARCHAR(128)
  (`go-engine/migrations/000004_ledger_webhooks_triggers.up.sql:53`, never widened), while the key
  of a confirmed deposit's debit entry is built from the trade's UUID and the transaction hash: 135
  characters with a 66-character hash, 133 with one of 64. The INSERT fails and the confirmation is
  rolled back at each tick, so that a final deposit stays in DEPOSIT_RECEIVED for good. `deposit_confirmed` fits
  for hashes of up to 58 characters and the scanner's form for 49, which the sandbox's hashes keep and the
  chains' do not. The same holds of a dispute with a reason of more than 55 characters, of
  `retry_processing` with a note of more than 46 (towards DEPOSIT_CONFIRMED) or 33 (towards
  CONVERSION_COMPLETED), and of `force_complete` with a note of more than 14, its default note included.
  `Oversized` is the set of these keys, the runs put a hash or a note into it, and
  `ReceivedDepositsSettle` promises an end only to a deposit whose confirmation fits.
* **Running balances** are wrong after overlapping transactions (no lock) and already after one
  transaction that writes to an account twice, because its entries share created_at and a random id
  decides: a conversion with a fee does. `BalancesAddUp` therefore excludes `disturbed`.
* **Verdicts overwrite each other.** `persistTier1KYCOutcome` writes the answer of a submission over
  a callback that came first. Without a level name, Sumsub's tier is the one after the user's, so a
  second approval of one check promotes to a tier nobody checked; an unknown name counts as tier 1.
  Smile ID callbacks without an event id share the identity of their job, so a later verdict may be
  dropped; a failed statement marks the event processed, so the verdict is lost. The guard of the
  retry state is void, because the time of the rejection is emptied before it is asked.
* **A refusal that verifies** (`G/service/kyc_ops.go:480-494`). A check of a named tier 2 that is refused
  for a user who is back at TIER_0 leaves KYC_REJECTED with TIER_2; the next refusal, without a level,
  is then taken for a refused upgrade and writes KYC_APPROVED. It takes an earlier approval, since
  only a verified user applies for tier 2: `ApprovalBacked` proves that nobody is verified who was never
  approved, and says nothing of who was. With `AutoApproveKYC` an approval may be the
  engine's own, given when the provider failed or Smile ID refused (lines 178-198).
* **Review cases**: an update between another update and its entry leaves a timeline that ends with
  the wrong status; a closed case can be set back to review and keeps its resolved_at.
* **Rate limiter**: a request that is delayed between taking its time and being counted lets the full
  window overshoot, so `AdmittedWithinLimit` shortens it by the delay; requests of one instant (a
  nanosecond) are one member of the set and are let through together, which the property allows
  besides the limit; errors let everything pass.
* **Prices**: the lifetimes of a cached price and of a quote add up, and the cache's runs from the
  write and not from the answer: `TradedAtRecentPrice` allows their sum and three requests. A failure
  of a provider is answered with fixed rates (`G/service/trade_ops.go:576`) in every mode, and such a
  quote is accepted like any other, because `quotes` does not store how it was priced. The tiers of
  `calculateFee` compare a hundredth of the minor units with amounts in cents, whatever the coin.
* **Bot**: a claim is made before a message is handled, so a failed handler loses the message; a
  message without an id (`python-bot/app/providers/openclaw_relay.py:82`, `meta_whatsapp.py:91`) is never
  claimed and handled at each delivery (`python-bot/app/services/replay_guard.py:12-13`); a
  confirmation that timed out but succeeded is refused as used on retry and the session forgets the
  trade; a KYC notification overwrites the step of another flow, again each time it is sent again
  (`python-bot/app/services/message_runtime.py:263-275`), and after a deletion points the
  session at the erased account; "no" is a cancel word before any flow sees it
  (`python-bot/app/flows/router.py:15`), so the bank flow's answer NO cancels the whole flow.

## 8 What is not modelled, and abstractions

* **Deposits**: `chain[t].level` is what `CheckDeposit` and the matching rules make of the chain.
  "none" includes too few confirmations to be detected; "bad" is a wrong network, address or
  amount, a blocked sender (only the watcher looks), a reversed or replaced transaction.
* **Listing**: the statuses a pass queries in order are queried in any order, since each query
  may come back empty. That includes every order the code can produce.
* **Amounts** are positive and not counted: an entry group is posted or not. CONVERSION stands
  for the asset, fiat and fee entries, written together; `LedgerBalance` has the single entries with
  small amounts, and its own transactions, since no guard of a trade reads a balance.
* **Keys** are records (scope, operation, reference, note) instead of strings; which of them are too long
  for a ledger entry is the constant `Oversized`. The note of a
  dispute or resolution is part of the key because the code builds it from the metadata.
* **Retry counter** saturates at `MaxAttempts`: beyond it, the code behaves the same.
* **Ten-minute timeout**: a conversion in progress may time out whenever it is listed.
* **Provider**: a payout is pending, then completed or failed for good; `RejectedPayouts` is the
  set of trades whose payout request is always refused as final. A webhook event is a payout
  and a reported status; reports may be repeated, late (an old "pending") or missing.
* **One amount**: all quotes of `TradeOpening` are of one amount, so that the tier limits count
  quotes and trades; the daily and the monthly sum are the same check over different windows, and
  one window is modelled. Prices, screening, monitoring, provider preflight and the weekly quota
  of deletions only refuse: they are in `RequestEnds`. The review cases that monitoring opens are
  in `ReviewCases`.
* **Passwords**: right or wrong. Concurrent wrong attempts are counted once, because each writes
  the counter it has read plus one; the model allows that and no property forbids it.
* **Expiry of quotes** is not a liveness property here: nothing depends on expired_at that
  valid_until does not also decide.
* **Left out**: timestamps beyond the ones above, notifications, `dispute_reason` and the other
  metadata that no guard reads, logging.
* **Outbox**: the text of a notice is not modelled; an event without a text is acknowledged as
  delivered without being sent, which is outside `DeliveryPromise`. The legacy path for a schema
  without claim columns is left out.
* **Verification**: documents, names and scores are left out; their statements only add failures. Only
  tiers 1 and 2 are applied for in the run; the proofs are for all.
* **Review**: what a screening decides is a choice; amounts and the patterns' thresholds are left out.
* **Limiter**: one client, since keys are per client; the clock of the engine and of Redis are one.
* **Bot**: one user on one channel; wording, parsing, prices and receipts are left out, and so are the
  administrators' commands. The consent a submission needs is not modelled: a user made anew during a
  submission would be refused for want of it, and a refusal is among the answers of `resubmitKYC`.
  One branch of the module is not reached by the run's scripts and
  bounds: the password confirmed on an account that was erased meanwhile.
* **Prices**: the formula over decimals, its fee tiers and its rounding are left out (section 2, step 5);
  stablecoins have a fixed price of one.
* **Components without a module**: HTTP routing and authentication, receipts, readiness reports, encryption and the provider clients'
  request code hold no state of their own. The providers' behaviour towards the engine (pending,
  failed, repeated, lost, late) is in the modules that call them.

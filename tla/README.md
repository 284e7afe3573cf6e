# Verification of Brain-Storm

TLA+ specifications of the parts of Brain-Storm whose correctness depends on
the order in which things happen: concurrent requests in the NestJS backend
(`apps/backend`), retries against Stellar, and the multi-call protocols of the
Soroban contracts (`contracts`). TLC checks every specification on a small
instance; TLAPS proves the most important properties for all instances.
Paths below are relative to the repository; `backend/` stands for
`apps/backend/src/`.

## 1. The system

Brain-Storm is a learning platform. A browser frontend talks to a NestJS
backend, which keeps its state in Postgres (TypeORM) and a cache, and calls
Stellar (Horizon and a Soroban RPC node), Stripe, a KYC provider and the
webhook endpoints of its customers. Rust contracts on Soroban keep the token,
the credentials, the governance and the markets. The backend is one event loop
per process: code between two `await`s is atomic, everything else interleaves.
A contract call is one transaction: it runs alone, and a failed `assert!`
undoes it.

### Inventory

| Component | State | Operations | What is hard | What makes it correct |
|---|---|---|---|---|
| Circuit breaker (`backend/stellar/circuit-breaker.ts`) | state, two counters, next attempt time | `call`, `reset`, the reports `onSuccess`, `onFailure` | calls settle in a state they were not admitted in | trips and closes only on results of the current period; recovers |
| Soroban RPC client (`backend/stellar/soroban-rpc-client.service.ts`) | one breaker with its function, `lastSubmittedHash` | `invokeContract` | two nested retry loops, lost replies, state shared by all calls | bounded, explained submissions; answers about one's own transaction |
| Stellar service (`backend/stellar/stellar.service.ts`) | none of its own | `issueCredential` and its fallback, `mintReward`, `recordProgress` | a ledger write whose reply is lost | one credential per completion |
| Progress and credentials (`backend/progress`, `backend/credentials`) | `progress` and `credentials` tables | `record`, `issue`, `awardOnCompletion` | check-then-act across awaits; three systems, no transaction | credentials are earned, answered requests have one |
| Webhook delivery (`backend/webhooks`) | `webhooks`, `webhook_deliveries` | `publish`, `deliver`, `retryPending`, `replayDelivery`, secret rotation | overlapping sweeps with copies of one row, restarts | no false success or dead letter; every row settles |
| Payments (`backend/payments`) | payments, subscriptions, invoices, enrollments | Stripe webhooks, Stellar verification | redelivered, reordered, overlapping events; crash between marker and grant | paid means enrolled, once |
| Authentication (`backend/auth`) | refresh tokens, blacklist in cache and table | `login`, `refresh`, `logout` | rotation race; a restart between the two blacklists; a log-out with a token revoked before | a log-out that revokes is final, an exchanged token is revoked |
| User accounts (`backend/users`, `backend/auth`, `backend/gdpr`) | one row per user, reset tokens | ban, erasure, verification, password reset, MFA, backup codes | whole rows saved from copies; codes and tokens used once | bans, erasures and passwords stand; a code opens one login |
| Bookings (`backend/bookings`) | one table | request, answer, cancel | decisions on stale copies | a closed booking stays closed |
| KYC (`backend/kyc`) | one customer row; the provider's sessions | `upsertCustomer`, `uploadDocument`, `handleWebhook` | a row written back after a provider call | approvals are the provider's |
| Off-chain proposals (`backend/governance`) | status and two counts | draft to execution, `recordVote` | counts read, awaited, written | outcomes follow from the votes |
| Moderation, admin disputes (`backend/moderation`, `backend/admin`) | items, disputes | report, decide, appeal | two moderators, one row | one report, one appeal, final decisions |
| Batch jobs (`backend/batch`) | row and Bull job | create, process, export, redeliver | status updates nobody awaits, workers that die, exports that count one item | counts and status show what happened |
| Shutdown (`backend/middleware`, `backend/health`) | in-flight count, two drains | middleware, signals | a request given back twice, two signals | drained means no request in flight |
| E-mail, preferences, reminders (`backend/email`, `backend/reminders`) | queue rows, preferences, reminders | passes over the queue, opt-outs | a flag per process, stale whole-row saves, several reminders for one course | each mail accounted for, opt-outs hold |
| Scheduled notifications (`backend/notifications`) | scheduled rows, in-app rows | `schedule`, `cancelScheduled`, `processScheduled` | passes that overlap, a cancellation during one | shown once, a cancelled one stays cancelled |
| Courses, forum (`backend/courses`, `backend/forums`) | course rows, search index, versions; posts and replies | edit, schedule, publish, remove, number; mark the answer | a cron job beside the editors, an index beside the table, three writes without a transaction | one publication per date, index and table agree, one answer |
| Offline queue (`apps/frontend/public/sw.js`, `useOfflineSync.ts`) | IndexedDB store, sync registration, indicator | queue, flush, timers | a worker the browser may end at any await, lost replies, timers that outlive their event | a queued write is stored until it has arrived |
| Rate limits, cohorts (`backend/rate-limit`, `backend/cohorts`) | window, daily count; members | `checkRateLimit`, `addMember` | read, await, write | no more than the limit |
| Event indexer, idempotency, coupons, certificates service | see section 7 | | | |
| Governance contract (`contracts/governance`) | proposals of three families, votes, id counter, configuration | 12 state-changing calls on proposals, 4 of configuration, delegation | one counter and shared keys, ledger windows, moving balances | decisions follow from the votes and stand |
| Course NFT and credential metadata contracts | owner, metadata, owners' lists, listings, links | mint, transfer, burn, sell; issue, renew, compact | one fact kept in several entries | entries agree |
| Certificates, badges | records, owners' lists, supply | mint, revoke, transfer, burn | revocation and soulbound tokens | lists agree, revocation is final |
| Grants, scholarships, royalties, buyback | applications, milestones, reserves, shares | apply, decide, release, donate, distribute | rounding, order of calls | no value created, nothing paid undecided |
| Dispute, market escrow, shared multisig contracts | parties, approvals, expiry | open, decide, settle; approve, time out | release against time-out, signers named twice | money goes once, to the side decided |
| Shared library | roles, authorised callers, lock, pause, upgrade | assign, call, pause, schedule, execute | a pause that ends by the clock, a replaced upgrade | timelocks and pauses hold |
| Registry, analytics, reputation, token restrictions | skills, progress, scores, lists of addresses | curate, record, slash, restrict | lists beside records, lazy decay | lists agree, scores add up |

How they interact: `POST /v1/progress` runs `ProgressService.record`, which
awaits the analytics contract through the RPC client, saves the row and at
100 % awaits `BadgeAwardService.awardOnCompletion`, which awaits
`CredentialsService.issue` (KYC check, mint through `StellarService`, reward,
insert) and then pays a referral. The indexer and administrators call `issue`
too, at any time. All contract invocations of the process go through one
`SorobanRpcClientService` and so through one breaker. Events of the platform
are handed to `WebhooksService.publish`. The governance contract asks the token
contract for balances, and the NFT contract links its tokens with credentials. The smaller
services of the backend and the other contracts do not read each other's rows or entries.

`PROJECT.json` lists the components one by one (also those not modelled, with
the reason) and, under `hazards`, what is hard to test at the line where it
bites, with the properties that cover it.

## 2. The modules

| Module | Models | Reads as |
|---|---|---|
| `CircuitBreaker` | `circuit-breaker.ts` | any number of callers inside `call()` |
| `SorobanRpc` | `invokeContract` and its retry loops | extends `CircuitBreaker`: the invocations are the breaker's callers |
| `GovernanceBase` | ledger, token balances, the one id counter, `initialize`d or not | extended by the next two |
| `GovernanceLegacy` | simple and upgrade proposals (`lib.rs`) | |
| `Voting` | advanced proposals (`voting.rs`) and the configuration calls | |
| `Governance` | the contract: all three families and the environment | the composition that is checked |
| `Ballot` | abstract: what an advanced proposal promises | refined by `Governance` |
| `CourseCompletion` | `record`, `issue`, `awardOnCompletion`, the two ledger paths | every call a job, every await a step |
| `WebhookDelivery` | `publish`, `deliver`, `retryPending`, `replayDelivery` | workers holding copies of rows |
| `Payments` | `PaymentsService`: checkout, Stripe events, Stellar verification, subscriptions | requests and deliveries as calls; Stripe as what it has opened and reported |
| `MCGovernance` | balances for TLC, and the check of `integer_sqrt` | |
| `Requests` | what backend handlers share: calls that hold copies across awaits, crash, failure | extended by the next group |
| `Sessions`, `Accounts`, `Bookings`, `Kyc`, `Proposals`, `Moderation`, `BatchJobs`, `Shutdown`, `EmailQueue`, `RateLimits`, `Courses`, `OfflineQueue` | one service each (`EmailQueue` also preferences, reminders and scheduled notifications, `RateLimits` the places of a cohort, `Courses` the accepted answer of the forum, `OfflineQueue` the browser's service worker and indicator) | one row or a few, any number of calls |
| `Services` | all of these | the composition that is checked |
| `Ledger` | what contracts share: accounts, the ledger clock, lists of ids per owner | extended by the next group |
| `CourseNft` | `contracts/nft` and `contracts/credential_metadata` with the links between them | |
| `Certificates`, `Grants`, `Royalties`, `Disputes`, `MultisigEscrow`, `SharedContract`, `TokenRestrictions`, `Registry`, `Reputation` | one contract each, or two small ones side by side (`Certificates` also `contracts/badges`, `Grants` also scholarships, `Royalties` also buyback, `Registry` also analytics; `SharedContract` is `contracts/shared` with `multisig.rs`) | one action per entry point |
| `Contracts`, `MCContracts` | all of these, and values for TLC | the composition that is checked |
| `Sums` | nothing of the code: lemmas about sums over finite sets, for the proofs | used by three of the next |
| `*_proofs` | theorems | extend the module they are about (`SorobanRpc_proofs` also holds the breaker's) |

Correspondence of state and actions (line by line in `PROJECT.json`, `map`):

* **CircuitBreaker.** `state`, `failureCount`, `successCount` are the fields;
  `due` says whether `nextAttemptTime` has passed; `call[c]` is one activation of
  `call()`: whether it runs, how often `withRetryBackoff` has retried, what it
  answered. `Refuse`, `Admit`, `Probe` are the synchronous part before the
  await; `Succeed`, `Retry`, `GiveUp` what happens when an attempt settles;
  `Reset` is `reset()`. `failureCount` is kept up to the threshold, the only
  thing the code compares it with. `history` (failures since the breaker closed,
  successes since it went half-open) is not in the code and serves the properties.
* **SorobanRpc.** `frame[c]` is where an invocation awaits and its locals, `tx`
  the transactions that reached the network, `fn` whose arguments the breaker's
  function closes over (line 259 keeps the first). One action per await:
  `AccountReply`, `Reach` and `SendReply` or `SendReplyLost`, `StatusReply`,
  `RpcThrows`, `Resume` after the sleep. `Apply` is the network; it may apply,
  fail or never touch a queued transaction.
* **Governance.** One variable per kind of storage key. `DataKey::NextProposalId`
  and `GovernanceKey::NextProposalId` serialise to the same key and are one
  variable, while `Proposal(id)` of the two enums live in different storages and
  are two. An action is a contract call; its guards are the `assert!`s. `CloseLedger` and
  `Transfer` are the outside. The constant `EarlyCalls` says whether the contract may be
  called before `initialize`; several calls do not need it, and the ids they take
  are given out again when `initialize` resets the counter, so `IdsUnique` is
  claimed for deployments that initialize first.
* **CourseCompletion.** A job is a call of `record` or an outside call of
  `issue`. `progress` rows are named by the job that inserted them (the index on
  user and course is not unique, so there may be two); `credentials` holds the job
  whose transaction the row names (that index is unique, so a second insert throws).
  `percentage` is abstracted to "100 % or not", `completedAt` to "set or not".
  Each database call may throw (`Throw`), each Stellar call may fail or take effect
  and lose its reply, `Crash` ends all jobs. The learner's key is taken as the service
  receives it; `JwtStrategy.validate` returns no `stellarPublicKey` although the
  controller passes `req.user.stellarPublicKey`, which is outside the model.
  `rewards` and `referrals` count calls of `mintReward`, not the
  submissions one call may make (that is `SorobanRpc`'s subject).
* **WebhookDelivery.** `row` is the table, `worker[w].copy` the entity a worker
  has loaded and will write back. The first post of an event is a worker of its own
  (`setImmediate`), sweeps and replays are others. `due` abstracts `nextRetryAt`. `deployed`,
  chosen by `Init` and never changed, says which hooks and workers a behaviour has
  (`Deployments`): it is no state of the code, and lets one run check one hook with many
  workers and two hooks with one sweep. A deleted hook leaves its rows behind, pending ones
  too: the delivery has no foreign key and `remove` no cascade.

* **Payments.** `payments` is the table; a row's `key` is its unique `idempotencyKey`, which
  is a session until its event arrives, then that event. The other tables are sets or, for
  subscriptions, a function to the status. A call is a request or one delivery of an event;
  `Deliver` may repeat any event that Stripe has sent, at any time and twice at once. `stripe`
  is Stripe's side, external: what it opened for whom, and which events it sends. `Anonymous`
  are invoices without a `userId` in their metadata, which `onInvoicePaid` skips; Stripe does
  not copy a subscription's metadata there by itself. The learner is taken as the service
  receives him: the controller passes `req.user.userId`, while `JwtStrategy.validate` returns
  `id`. A failed call is one that took no effect, except that a reply of Stripe may be lost;
  a Stellar transaction is one of those that `Successful` names or not, which is all that
  `Verify` asks of it (payments.service.ts:200): who paid, how much and with which memo is
  read by nobody, so that learner and course are those of the request.

* **Requests and Services.** `call[c]` is one activation of a handler: where it waits, on which
  row, with which copy (`seen`) and argument. A handler's action of the method's name runs
  up to its first `await`, `<method>_<rest>` from there to the next. `repository.save` writes
  the copy back whole, `update`, `increment` and `delete` only what they name; no handler
  in these services uses a transaction or a version column. `raced` is not in the code: it becomes
  true when a step trusts or writes a copy that is no longer the row. It divides the properties: those that
  hold whatever races, and those that hold until the first stale write.
  `service` is chosen by `Init` and says which service a behaviour follows. As no service
  reads another's rows, the behaviours of all of them are interleavings of these; following
  one at a time adds the state spaces up instead of multiplying them.
  `Restart` (sessions), `WorkerDies` (batches) and `PassFails` (e-mail) are crashes,
  `Fails` is a query that throws. Environments are external: the KYC provider decides each session once
  and reports late and repeatedly, Bull hands a stalled job out once more, a Node response
  emits `finish` and then `close`.
  In `Sessions` a log-out whose refresh token is revoked already (`logout_unknown`) is answered
  and does nothing else: the controller passes no user, so the service has nobody to
  blacklist the access token for (auth.service.ts:192, auth.controller.ts:115). `closed` has
  the tokens whose log-out came to the blacklist, `answered` all that were answered.
  In `BatchJobs` an export is a batch of its own kind: `processExportBatch` takes the first
  item and writes 1 processed, or 1 failed, whatever the total; a success leaves `failedItems`
  as a stalled run before it wrote them. That the analytics export calls a service the class
  does not declare (batch.processor.ts:214) is read as an export that fails.
  In `EmailQueue` a POST inserts a reminder whatever is there; disabling and enabling
  update every row of the learner and course, and a pass of the cron job takes any of them, as
  `findOne` does.
  In `Accounts` a call carries a number, which names every token, password, secret and batch of
  codes it makes. `UsersService.update` reads the row again, so the decision (`Checks`) and the
  save rest on two copies, and each of them may be stale. In `Courses` dates are numbered as they are set and come
  in any order (`DateComes`). In `OfflineQueue` the awaits are fetches and transactions of the store: `raced`
  plays no part there, as the worker reads nothing it decides on twice.
* **Ledger and Contracts.** A variable is a contract's storage (a record of its entries), an action
  an entry point with its assertions as guards; a failed one changes nothing and is no step.
  `sequence` stands for `env.ledger().sequence()` and `.timestamp()`. The vectors of ids kept per owner are
  bags (`Pushed`, `Dropped`), because what can go wrong is a missing, foreign or double entry.
  `subject` is to contracts what `service` is to services; only the NFT and credential contracts
  call each other, and they are one module. Fields that the storage lacks and only properties
  read (`added`, `plans`, `paid` and the like) are named as such where they are declared.

## 3. Runs

| Run | Question | Instance |
|---|---|---|
| `breaker` | do reports of calls admitted in an earlier state corrupt the counters; does the breaker recover? | 3 callers, thresholds 5 and 2 as configured, 1 retry |
| `soroban` | how many transactions can one invocation submit, and does it ask about its own? | 2 invocations, 2 attempts in 2 rounds, 4 faults |
| `soroban_foreign` | (violation) an invocation submits its own arguments | same, threshold 2 |
| `governance` | are ids unique, executions due, decisions lasting and the outcome of the recorded votes? | 2 holders, 2 proposals of any family, 3 ledgers, 1 transfer or reconfiguration, one snapshot below zero |
| `completion` | is every credential earned, does every answered caller have one, does every call end? | 2 records and 1 issue, 1 learner, 2 courses (one under KYC) |
| `completion_referral` | (violation) one referral per learner | as `completion` |
| `webhooks` | does overwriting of rows lose a delivery, invent a success or a dead letter? | 1 delivery with 2 sweeps and 1 replay, or 2 deliveries with 1 sweep; sweeps of 1 row, 2 attempts, 1 fault |
| `payments` | is each payment good for one enrollment, does only a fault lose one, is what was answered recorded? | 2 learners, 1 course, 1 of each Stripe object, 2 transactions, one of which failed, 3 calls, 1 fault |
| `services` | what survives any interleaving of two calls of a service, and what breaks only by a stale write? | sixteen services in turn, 2 calls, 2 or 3 rows |
| `shutdown_drains_early` | (violation) cleanup waits for requests in flight | the shutdown alone |
| `contracts` | do lists agree with records, books balance, payments happen once, waits last? | sixteen contracts in turn, 2 accounts, 3 ledgers, 1 to 3 records of each |
| `restrictions_inverted` | (violation) a requested transfer waits for approval | the restrictions contract alone |

A run marked "violation" shows that the code does not do what the quoted
comment or document says; section 6 lists them.

Why the bounds are enough for the cases meant:

* *breaker*: three calls are enough for one to probe, one to report late from the
  closed period and one to report late from an earlier probation. The thresholds are
  those of the code.
* *soroban*: two invocations are what sharing needs; two attempts and one retry of the
  breaker run each loop into its last round and past it; four faults use up all attempts
  of one of them, or both of each; threshold 1 lets one failure
  open the breaker with the other call in flight. In the violation run the threshold
  is 2, so that the other call is not cut off first.
* *governance*: two proposals show collisions between any two families; three ledgers
  hold a window, its end, and a timelock; balances 4 and 1 with a transfer of 4 let the
  outcome change between two votes; delay 1 shifts a window. One reconfiguration
  before a proposal makes its quorum 1 (20 % of 5), 3 (60 % of 5), 5 (20 % of 25: every token must
  vote) or -1 (20 % of -8 without its fraction: any turnout will do).
* *completion*: two reports and one outside call overlap in every way two requests and
  the indexer can; with one learner and two courses they may hit the same or different
  rows.
* *webhooks*: rows do not share state except through the take of a sweep, so one row
  with four workers shows every overwriting; 2 attempts are the least with a retry
  between. The limit of a sweep, 20 rows in the code, is `Take` = 1: with two hooks a sweep
  must leave one of two eligible rows behind, and the row of a deleted hook fills it.
* *payments*: three calls are a request, or none, and two overlapping deliveries or
  verifications, which is what the unique keys and the markers must tell apart; two learners
  can claim one transaction, the successful or the failed one. One of each Stripe object suffices, as the handlers of different
  objects share rows of the enrollments table only, where a row is a pair and inserts agree.
* *services*: two overlapping calls are what a stale copy needs. Three token pairs let a
  refresh overlap another on the same token and one on its successor; two bookings may or may not
  overlap; one proposal with two votes and quorums 1 and 2 has ties and misses; a window of 2
  moments in 3 slides; the limit 2 is reached and passed. Three calls in all on one account let
  two overlap and a third meet what they left; two codes in a batch are the one used and the one
  brought back; a batch of up to two items is one whose export counts too few; two reminders are a disabled
  one and one created after it; the code's limit of 3 reset tokens an hour is 1, so that it is reached. Two dates, two publications and two versions
  show a repetition; three replies let two overlapping answers meet an earlier one. Two
  writes, three arrivals of each and two interruptions of the network let a write be sent again
  after a lost reply and after a failed delete, with timers of two `online` events running.
  The constraint `Explored` keeps independent quantities from being multiplied: TLC goes on only from states where one
  token has lapsed or been logged out (tokens of different sessions meet in no step), and where
  a course has two dates, two versions or one of each. The proofs know neither bound.
* *contracts*: two accounts are an owner and another, or an admin and a user; ledgers 0 to 2
  hold a timelock or pause of 1 or 2 with a step before and after; two records of each kind
  show a mix-up of ids, three badges or recipients the middle of a list. One of the
  buyback's configurations has a minimum of -1. Splits 50/33/17 and
  100/0/0 with royalties 7 and 10 leave remainders to both recipients and none.

Bounds named in the modules: `MaxFaults` (faults), `MaxCalls` (Payments), `MaxMoves`, `MaxLedger`, `MaxId`,
`MaxAdvanced`, `Amounts`, `Supplies`, `Percentages`, `Delays`, `Durations`,
`TimelockDelays` (Governance), `Deployments`, `Take` (webhooks), and in the services and contracts the constants that begin with
`Max`, each with its meaning where it is declared. The sets of callers, jobs and workers bound how many
calls there are. `CHECK_DEADLOCK FALSE` stands where the finite supply of requests or
ledgers really runs out; the breaker never stops and is checked for deadlock.

### Properties

* *Breaker*: `CountersBelowThreshold`, `TripsOnlyAfterThreshold`,
  `ClosesOnlyAfterProbation` (a counter kept over from an earlier period breaks them),
  `EveryCallAnswered`, `Recovers` (once failures stop, closed for good).
* *RPC client*: `OneSubmissionPerLostReply` and `SubmissionBudget` bound what reaches the
  network, `FreshStatusCheck` keeps an earlier call's hash out of this one's status
  check, `EveryInvocationSettles`.
* *Governance*: `IdsUnique`, `ExecutionsWereDue`, `DecisionsStand`, and
  `ProposalsAreBallots`: each proposal refines `Ballot`, where the outcome is computed from
  the ballots cast; the code computes it from tallies kept under other keys.
* *Completion*: `CredentialsWereEarned`, `AnswersHoldCredential`,
  `AnsweredMintIsRecorded`, `EveryJobSettles`. Note what is *not* claimed: two
  overlapping calls may both mint, and the loser's transaction stays on the ledger without a
  row; the property is that its caller is told of an error.
* *Webhooks*: `DeadLettersAreExhausted`, `SuccessWasAcknowledged`,
  `EveryDeliverySettles`, which holds as long as the pending rows of deleted hooks stay fewer than
  a sweep takes: once they are as many, a sweep may take nothing else for ever (section 6), and TLC
  finds that behaviour if the premise is dropped. Not claimed: that a success is never followed by another
  post or even by a dead letter. A stale copy can overwrite it, and does in the model.
* *Payments*: `PaymentFundsOneEnrollment` and `GrantsWerePaid` (one payment, one learner and
  course, and no enrollment without it: for a checkout an event of the session its buyer opened for that
  course, for a Stellar payment a transaction that succeeded, of whomever and for whatever), `OnlyFaultsLoseGrants`, `AnsweredInvoicesAreRecorded`,
  `StatusWasReported`. Not claimed: that a faulted grant is repaired (the marker makes each
  redelivery skip it), or that the status of a subscription agrees with Stripe's last event. A
  late `invoice.paid` makes a cancelled subscription active again, and an event that arrives
  before the row is stored is lost.
* *Services*: `SafeUnderRaces` holds for every interleaving, failure and restart. A log-out
  leaves its refresh token revoked, and one that revoked it is final for the access token too; an
  exchanged token is revoked; approvals are the provider's; the drain count is never too high; a batch
  counts each of its items, an export its first; a write answered "queued" is in the browser's store
  until it has reached the server, and reaches it again only after a loss the worker did not learn of;
  no vote is counted that was not cast, no e-mail or notification marked sent that was not, no
  date published before it has come.
  `ExactWithoutRaces` is what each service promises its users and keeps until a step
  uses a stale copy: a lost vote, a double delivery, an undone ban or a second pair of tokens does
  come about in the code when calls overlap (section 6), and the property says that nothing else brings it
  about. `ClosedStaysClosed` is an action property with the same proviso: what was
  decided is reopened by a stale write only. Not claimed: that a reset token sets one password. When
  a failure or the end of the process keeps it from being spent it sets another, and the property
  counts these; nor that an indexing failure is repaired, or that a write answered with an
  error is kept: any answer takes it out of the queue.
* *Contracts*: `IndexesAgree` (each list names an id once, for its owner), `BooksBalance`
  (balances, reserves and totals are the sums of the calls recorded; of royalties paid for a
  course with one recipient exactly the contributor's share is missing, and the reserve is
  below zero only after a buyback under a negative minimum), `PaidOnce`
  (disputes, escrows, multisig calls, milestones), `WaitsAreKept` (timelocks, intervals, pauses,
  revocations). Not claimed: that a milestone is paid once in its life. `set_milestone`
  replaces a released one, which can be released again.

### Fairness

* Breaker and RPC client: each awaited request resolves or rejects (the question is whether
  the client's own loops end then), timers fire, and requests keep arriving. The last is needed
  by `Recovers` only, because the breaker looks at its timeout only when called. No fairness
  is assumed of success: `Recovers` assumes that failures stop. The network need never apply
  a transaction.
* Completion: each started call goes on (weak fairness of `Step`), that is, each awaited
  call of the database or of Stellar returns or throws; nothing is assumed of KYC, of
  success, or of requests arriving.
* Webhooks: the interval fires (it is a `setInterval` of a minute), posts end (they have a
  timeout of ten seconds), time passes. Faults are bounded by `MaxFaults`; a database that
  fails for ever would deliver nothing.
* Payments, governance, services and contracts: none; their properties are safety.

## 4. Proofs

All theorems are checked by tlapm from nothing. They hold for every value of the constants
under the assumptions the modules name (`ThresholdAssumption`, `BaseAssumption`,
`VotingAssumption`, `CompletionAssumption`, `AttemptAssumption`, `DeliveryAssumption`,
`PaymentsAssumption`, `KeysAssumption`, `RequestsAssumption`, `LedgerAssumption` and the
`...Assumption` of each service and contract), which TLC also evaluates on the instances.

* `Governance_proofs` - `TypeCorrect`, `IdsStayUnique`, `ExecutionsDue`,
  `DecisionsHold`, `BallotsRefined` (the refinement of `Ballot`, `ProposalsAreBallots`). `IdsUnique`
  needs that nothing is in use before `initialize`
  (whence `~EarlyCalls` in the theorem); the two about decisions need that a vote is
  only possible before the end ledger and a decision only after it, and that ledgers do not
  go back. The refinement needs `IdInv`, so that no ballot lies under the id of a proposal before it is
  opened (hence `~EarlyCalls` again), and `CountInv`: the tallies for and against, and all three together, are the
  sums of the weights of the votes stored with that answer, or with any. One lemma per action shows the step of `Ballot` or the stutter it maps to. `BallotOf(id)` reads
  nothing but the storage of the contract.
  `SqrtIsTheFloor`: the loop of `integer_sqrt` ends at the floor of the square root for every
  balance (`MCGovernance` compares the two up to 300). The function it is exists because
  a step from above the root goes down, and stays above the root because the arithmetic mean is no less
  than the geometric one. With it `WeightsAreNumbers`: `cast_vote`'s assertion on the weight never fails.
* `CourseCompletion_proofs` - `TypeCorrect`, `CredentialsEarned`, `AnswersHold`,
  `AnsweredMints`. The invariant `JobOK` says what each call has established at each
  await; the lemma `Compose` shows once that a step of one call cannot take from another
  what it has established, since transactions and credential rows are only added, and
  `cleared` only grows. One lemma per action shows `JobOK` of the call that moves.
* `SorobanRpc_proofs`, of the breaker - `BreakerTypeCorrect`, `CountersBelow`, `TripsAfterThreshold`,
  `ClosesAfterProbation`. Inductive invariant: types, the bounds on the
  counters, and `HistoryCovers`, that the history has seen at least as many failures
  (successes) as the counter says. The last is what the two action properties need:
  without it nothing ties the code's counter to the results of the current period.
* `SorobanRpc_proofs`, of the client - `BreakerInside` (`Spec => BreakerSpec`: every behaviour of the
  client is one of the breaker), and with it `BreakerPromisesInside`: the breaker's three
  properties hold inside the client. `TypeCorrect`, `OneSubmission`, `WithinBudget`, `StatusIsFresh`. `ClientInv` adds to
  the types, for each invocation, `HashesOK` (what it knows of the hash it holds: its own unacknowledged
  transaction while the send is awaited, none acknowledged before its start) and `CountOK`, which ties the
  number of its transactions to its place in the two loops: at most one per attempt begun. Without it the
  budget is not inductive, because a retry sends again whatever was sent before.
* `WebhookDelivery_proofs` - `TypeCorrect`, `DeadLetters`, `SuccessesAcknowledged`. A row says nothing of
  itself that did not happen (`TrueRow`: success was acknowledged, a counter counts failures), and
  the same holds of every copy a worker has, which is what makes a stale write harmless to the two.
  None of it depends on which hooks and workers a behaviour has (`DeploymentStays`).
* `Payments_proofs` - `TypeCorrect`, `OnePaymentOneEnrollment`, `NothingGrantedUnpaid`,
  `GrantsAreLostToFaultsOnly`, `InvoicesAreRecorded`, `StatusesAreStripes`. `PaymentsInv` says for each call what it
  has established at its await (`Known`), that keys and sessions name one row (`RowsOK`), that no two calls
  insert the row of one session (`InsertsApart`), and what Stripe has sent (`StripeOK`).
  One lemma per action; `Grown` shows once that no step takes back what another call knows.
* `Services_proofs` - `ServicesAreSafe` (`SafeUnderRaces`), `ServicesAreExact`
  (`ExactWithoutRaces`), `ClosedRowsStayClosed` (`ClosedStaysClosed`), `ServicesAreTyped`
  (`ServicesTypeOK`). `ServicesInv` has three parts: `FollowedInv`, the inductive invariant
  of the service followed, `OthersInv`, that the rest is as `Init` left it, and
  `CountedInv`, that only the shutdown counts requests in flight. A service's invariant says of
  each step a call may wait at what its copy knows, on the condition `~raced` where the
  property has it: that the copy still is the row. This is why the condition suffices:
  a call that would act on an outdated copy raises `raced` in the same step. Beyond this the
  accounts need that tokens, secrets and codes carry the number of a call already begun, so that a
  batch being made is disjoint from every code used; the courses, that two calls holding the row cannot both
  publish one date without one being outdated; the offline queue, that one call at most has a
  given write in hand and that its arrivals are counted with that call's place. The rate limits need
  that the list kept under the key holds all of the window that ended at the last admission
  (`LastIs`): a later window then has at most the ones counted when that request was let in, and one more. For
  the types, `BoundsInv` adds the bounds on rows, batches, queues, counts and stalls, and `Awaits` lists
  where a call may wait. It lists the names because `"x" \in STRING` is beyond the provers.
* `Contracts_proofs` - `PaymentsAreMadeOnce` (`PaidOnce`), `ListsStayInStep`
  (`IndexesAgree`), `WaitsHold` (`WaitsAreKept`), `BooksStayBalanced` (`BooksBalance`),
  `ContractsAreTyped` (`ContractsTypeOK`). `ContractsInv` is the conjunction of one inductive
  invariant per contract; the lemma `OneContractMoves` says that a step is one of a
  single contract or of the ledger, so that each invariant is shown for the steps of its own
  contract and for those that leave it alone. What had to be added to make them inductive: ids not given out
  yet have no record (lists), an approved and a paid entry stand for a decided one
  (payments), each upgrade executed has its own plan and a plan once ended never changes (waits),
  and the ledger does not go back. The books are their own inductive invariants once sums can be
  moved by one summand (`Sums`); `MaxThreshold` is at least 1, as the threshold is before `set_threshold` (`get_threshold`).
* `Sums` has the lemmas about `SumFunction` that the proofs of `Governance`, `Services` and
  `Contracts` need: the sum exists, does not depend
  on the order in which the fold takes the elements, is a number, grows with its summands, and changes by the
  difference when one of them does. Induction over sets being out of reach, each is proved by a smallest
  counterexample: of the subsets for which it fails one has no smaller one (`FS_StrictSubsetOrderingWellFounded`,
  `WFMin`), and taking an element from that one contradicts it.

Every invariant and action property of the runs is thus stated by a theorem. Only
liveness is left to TLC (`EveryCallAnswered`, `Recovers`, `EveryInvocationSettles`, `EveryJobSettles`,
`EveryDeliverySettles`), as TLAPS has no rules for fairness here.

What the theorems assume of the constants is what `ASSUME` names. `VotingAssumption` says, for instance,
that the value for "no entry" is no record, and that percentages and delays are natural numbers; supply
snapshots are any integers, as `set_total_supply_snapshot` checks nothing, so that of a quorum
`TypeCorrect` says only that it is an integer.
`~EarlyCalls` is a hypothesis of two theorems and not a fact about the contract, which can be called before
`initialize`: what the ids and votes of such calls do is described in section 2.

## 5. Plan

Done: the modules of section 2. What is left, in this order:

1. `VotingPower`: delegation and the cache of the governance contract.
2. `SecretRotation`: rotation, the purge of previous secrets and `update` on webhooks.
3. Registration and the Stellar challenge beside `Accounts`; modules, lessons and `rollback` beside `Courses`.
4. Liveness of the services: that a drain ends, that a queued e-mail is sent or failed.
5. `StellarIndexer`, once it compiles: checkpoint, limit and swallowed failures, composed
   with the `issue` jobs.

## 6. Where code and documents disagree

Shown by a run:

* `soroban_foreign`: the breaker runs the first caller's closure for every later caller.
* `completion_referral`: the referral for the first completion is paid at each repeated
  report of 100 %.
* `restrictions_inverted`: a requested transfer reads as approved, and approving it removes the entry.
* `shutdown_drains_early`: a response releases its request on `finish` and on `close`, so the drain
  ends with requests in flight.

Met while modelling; the models show them, without a run of their own:

* A lost reply makes the Soroban client submit again, against the comment on
  `invokeContractOnceChecked`. Vote weights are read at the vote, not at the start of
  voting. The `ManageData` entry of a course is overwritten by its next graduate,
  against `docs/data-privacy-gdpr.md`. Failed payments and cancellations leave
  no marker, so their events are processed at each delivery, against the comment on
  `handleStripeWebhook`.
* `UserRateLimitService.resetUserLimit` leaves the window of an endpoint, against its comment
  (`user-rate-limit.service.ts:148`). An off-chain proposal can be executed before its voting
  ends, and nobody remembers who voted. An empty batch ends as `failed`. Of two overlapping
  booking requests both can be confirmed, one after the other. A second signal takes the
  place of the first one's drain, which then waits for its timeout. A KYC call can restore an
  earlier session, so that the later one's webhooks find no customer. An opt-out can be
  undone by a stale save. `cleanupExpiredTokens` and `registerCleanup` have no caller.
* Log-out: with a refresh token that was revoked before, by a log-out or by the exchange that
  replaced it, `logout` answers "Logged out successfully." and leaves the access token valid until it
  expires, against "Logout and invalidate" in the API description (`auth.controller.ts:111`).
  Batches: `processExportBatch` runs the first operation of an export, drops the others and shows it
  as completed with 1 processed item; one that failed, stalled and then succeeded shows 1 failed too.
  Reminders: nothing keeps a POST from inserting a second row for a learner and course, active even
  after a disable; the cron job looks at any one of them.
* Webhooks: deliveries of a deleted hook stay pending for ever. Twenty that are due fill the twenty
  places of each sweep (`webhooks.service.ts:230-244`, no order), and the others are never retried.
* Stellar payments: the doc comment at `payments.service.ts:181-183` says that the memo is confirmed to
  match `courseId:userId`. Line 200 asks only whether the transaction succeeded: neither memo
  nor payer nor amount is looked at, and the first learner to name a transaction is enrolled in the
  course of his choice. `GrantsWerePaid` claims no more than that.
* Governance: `set_total_supply_snapshot` takes any `i128`; below zero it makes a quorum that a
  proposal meets without a vote.
* Accounts: any change of a user saves the whole row, so that a request overlapping a ban or an erasure
  undoes it. `JwtStrategy` asks neither for the ban nor for the deletion. `deleteAccount` leaves `mfaEnabled`,
  and a reset token made before it sets a password on the erased row. Overlapping logins with two
  backup codes bring one of them back. Courses: an update that overlaps a removal inserts
  the course again, and a schedule set while the cron job holds the row is lost and published at once.
  Forum: two overlapping answers leave two replies flagged. Notifications: one pass a minute, whether or not the
  last one ended, so a slow pass shows a notification twice, and a cancellation during a pass is overwritten.
* Offline queue: a write that fails while the browser believes to be online (a lost reply, a server out of reach)
  is answered "queued" but asks for no sync event, and waits for the next time the browser goes
  online. A queued write the server refuses is dropped. The timers of an earlier `online` event run on after
  the network is gone, so the indicator can say "online" without one.
* NFT: a listing survives the sale or transfer and blocks or revives a sale; the former owner
  keeps access; a credential cannot be linked again after a burn.
* Royalties: with one recipient, who is creator and platform at once, the contributor's share is
  credited to nobody (`royalty_distribution/src/lib.rs:149-187`), although the contract's README (lines
  13-17) says that the total allocated matches the amount exactly; further recipients shift the platform's
  role. Buyback: its README (INV-4, lines 41-49) says that the reserve is never below zero, but
  `update_config` accepts a negative `min_reserve_balance` (`buyback/src/lib.rs:158`), under which a
  manual buyback spends more than there is. Grants: `set_milestone` un-releases a paid milestone.
* Reputation: decay leaves `level` as it was; a slash skips the total, the history and
  the decay and takes negative amounts (`reputation/src/tests.rs:671` documents the total).
* Pause: an expired pause still refuses a new one; the registry lets any account pause,
  and `register_user` ignores the pause. Multisig: approvals are not checked against a
  membership, and `set_threshold` trusts any signer of its own call. Market escrow: a signer named
  twice counts once, which can make the threshold unreachable. Buyback: a manual
  order is not checked for its sign or the interval.

## 7. Not modelled

Wording, logging, metrics, pagination, authorisation (every call is made by one who may make
it, except where the code asks nobody), serialisation, fees and the contents of payloads. Numbers of the
contracts are unbounded naturals: `i128` sums of token balances cannot reach the limit, and
`u64` ids cannot either; a call whose ledger arithmetic overflows `u32` aborts
or saturates far beyond any ledger the network will reach. Archival and time-to-live of contract storage are left out. The components without a module are
listed in `PROJECT.json`; the reasons are of five kinds:

* *No running behaviour.* The event indexer and the certificates service refer to
  members their classes do not declare. The market's `lib.rs` stores through `env.storage().set`, which names
  no storage (its `multisig_escrow.rs` is modelled for itself), and the liquidity pool builds records without
  their fields: code would have to be written before they run. The token's keys are symbols made of the
  debug text of an address, with characters no symbol may have, so that each call on a balance aborts. The
  single-payee escrow is stubs; `actionQueue.ts` of the mobile client ends inside a template literal. `AppModule` imports none of coupons,
  organizations and the job board.
  Not compiling is by itself no reason: as it stands `contracts/shared` declares its module `access`
  twice (`shared/src/lib.rs:9-11`), and with it the crates that use it, such as governance and registry, do not
  build, and `buyback` names an undeclared `oracle_mod` (lines 390-396). These slips leave one
  reading: either `access` is the same file, and the price is the 2000 that is written there in either
  outcome. They are modelled in that reading, as is the batch processor.
* *No protocol.* Payouts, backend grants, lessons, quizzes, reviews and the audit
  log are rows that no call reads to decide about another.
* *Someone else's protocol.* Queues are Bull's; what a redelivered job does is in `BatchJobs`.
* *Applied nowhere.* The idempotency middleware is exported and configured on no route.
* *User interface.* Apart from the offline queue, frontends and SDK keep no state that backend or contracts rely on.

Most of the repository's lines are of the second and last kinds, with entities, DTOs, migrations, seeds and
scripts. The map therefore covers a small share of the implementation, although it covers
the services and contracts that have a protocol.

Hazards that no property covers: a recovering node gets every call at once, as
`HALF_OPEN` does not count its probes; the indexer's checkpoint moves past failed events; rotating a webhook secret twice within a day
keeps one previous secret; the governance contract's `get_voting_power` keeps the value it
cached, and a delegate without a checkpoint gets one of 0; an advanced proposal whose
delay exceeds its duration opens after it has ended.

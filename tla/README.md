# Verification of Backend-Mercuria

Mercuria is a payment backend in Go: five services (auth, wallet, transaction,
ledger, analytics), each with its own PostgreSQL database, a shared Redis, and
Kafka between them. Money lives in the wallet service; the other services call it
over HTTP or follow its effects through events.

    client --HTTP--> transaction --HTTP--> wallet        (Transfer)
                         |                   |
                     outbox table        outbox table    (same DB transaction
                         |                   |            as the business rows)
                     publisher           publisher
                         v                   v
              Kafka transaction.completed  wallet.balance_updated
                         v
                      ledger --outbox--> Kafka ledger.entry_created
                                                 v
                                             analytics

The modules here are TLA+ models of the parts that decide where money and events
go, with TLC configurations that check them on small instances and proofs, checked
by TLAPS, for every instance. Each definition is translated from the Go source;
`PROJECT.json` maps it to its lines.

## Inventory

**Outbox** (`pkg/outbox/outbox.go`, `internal/common/kafka/producer.go`).
State: the table `outbox_events` (status, attempts, created_at) and, per running
publisher, the rest of the batch it has read. Operations: `SaveEvent` in the
business transaction; every poll `GetPendingEvents`, then per event `PublishEvent`
and `MarkAsPublished`, `MarkAsFailed` or `IncrementAttempt`. Hard: the write to
Kafka and the update of the row are two steps; several instances poll one table
without a lock; the limit of attempts is tested on a copy; `created_at` is the
start of a transaction that becomes visible later. Correct when: nothing is
announced that did not commit, nothing is marked published that is not in Kafka,
no row is stranded, duplicates and attempts are bounded, causal order is kept.

**Wallet** (`internal/wallet`, with `common/redis` and `common/db`). State: the
wallets and their events in PostgreSQL under row locks and behind a connection
pool; idempotency keys, try-locks with a time to live and cached balances in Redis.
Operations: `Deposit`, `Withdraw`, `Transfer`, `GetWallet` (cached), `CreateWallet`,
read-only queries. A money operation checks its key, takes the Redis locks in the
order of ids, reads its rows `FOR UPDATE`, checks the balance, commits, records the
key, drops cache entries and releases the locks. Hard: a lock that expires under its
holder and is then deleted for the next one, lost answers of COMMIT, crashes with
locks held, opposite transfers, retries, the cache race, a second connection inside
a transaction. Correct when: balances follow the journal, are never negative, each
request acts atomically and once, answers are true, every request is answered.

**Wallet creation** (`CreateWallet` of `internal/wallet`). State: the rows of
`wallets` with UNIQUE (user_id, currency). The handler takes the user from its access
token, looks for a wallet, then inserts one and saves `wallet.created` in the outbox
in one transaction. Hard: look and insert are apart, an error of the look counts as
"none", a second INSERT waits for the first transaction. Correct when: one wallet and
one announcement per account, whoever asks how often, and every caller is answered.

**Transaction** (`internal/transaction`, the worker loop in `cmd/transaction`).
State: the tables `transactions` and `batch_transactions`, outbox rows, idempotency
keys shared with the wallet service in Redis. Operations: P2P, batch and scheduled
transfers, and the worker that runs due transfers. Each transfer is an HTTP call of
the wallet service followed by a record of it. Hard: there is no transaction around
the two; timeouts, retries, concurrent duplicates, half a batch, a worker that dies
between payment and record. Correct when: completed means paid, paid is recorded,
a retry does not pay twice, rows settle once and do so in the end.

**Kafka consumer** (`internal/common/kafka/consumer.go`). State: owner, position and
committed offset per partition. Operations: fetch, handle, ask for the commit of a
handled message; kafka-go sends it each second. Hard: failed handlers, rebalances
with a handler under way, crashes, commits by an owner that lost its partition.

**Ledger** (`internal/ledger`). State: `ledger_entries`. The handler looks for
entries of the transaction, reads the latest balance of both wallets and inserts a
debit and a credit. Hard: the reads are outside of the inserting transaction, a
failed read counts as "none", events of batches have another shape. Correct when:
one debit and one credit per transaction, balances that add up, nothing skipped.

**Analytics** (`internal/analytics`). State: daily and hourly metrics, snapshots of
users, `event_processing_log`, views cached in Redis. The handler looks in the log,
performs four upserts, writes the log row and drops the cached views of the date.
Hard: no transaction around these, duplicates, two instances at one event, cached
views that were read before a change. Correct when: an event is counted once in
every aggregate, and the cache does not lie.

**Auth** (`internal/auth`). State: `users` and `refresh_tokens`, each statement
committing by itself. Operations: `Register`, `Login`, `RefreshAccessToken`, which
revokes the token it was shown and issues another. Hard: check, revocation and issue
are three statements, concurrent refreshes of one token, an error of the look for a
user counts as "none", a token is determined by its user and a whole second. Correct
when: a used token is refused, tokens do not multiply, calls fail for a reason.

**Amounts** (the helpers of `internal/wallet/service.go`, again in `internal/ledger`,
and `CalculateBatchTotal`). Pure functions on decimal strings by way of binary
floats. Correct when: sums, differences and comparisons are exact to four decimals.

**HTTP, middleware, mTLS**, **configuration, logging, start-up**: no concurrent state
of their own. Of these only the issue, the expiry and the check of access tokens are
modelled; see below.

## Modules

| module | models | extends or instantiates |
|---|---|---|
| `EventChannel` | the promise of the outbox: at-least-once delivery of committed events | |
| `Outbox` | table, business transactions, publishers, faults | refines `EventChannel` (`AtLeastOnce`) |
| `Bank` | the promise of the wallet service: atomic, once, never overdrawn | |
| `KeyedCalls` | what an idempotency key of the wallet service is good for | |
| `Wallet` | Deposit, Withdraw, Transfer, GetWallet over Redis and PostgreSQL | refines `Bank` (`Atomic`) and `KeyedCalls` (`KeyDiscipline`) |
| `Transaction` | the three kinds of transfers and the worker, against what `Wallet` shows of a Transfer | refines `KeyedCalls` (`KeyDiscipline`) |
| `Auth` | Register, Login, RefreshAccessToken and the expiry of tokens | |
| `WalletCreation` | CreateWallet | |
| `Onboarding` | the two services from registration to the first wallet | composes `Auth` and `WalletCreation` |
| `Consumer` | a topic, the consume loop and the consumer group | |
| `Ledger` | the handler of transaction.completed | extends `Consumer` |
| `Pipeline` | the way of a committed transfer into the ledger | composes `EventChannel` and `Ledger` |
| `Analytics` | the handler of ledger.entry_created and the cached views | extends `Consumer` |
| `Amounts` | the arithmetic on amounts, with the rounding of floats | |
| `ConsumerProofs` | lemmas about the steps of the consumer group | `Consumer` |
| `PipelineProofs`, `AnalyticsProofs` | theorems | the module they are named for, and `ConsumerProofs` |
| `OutboxProofs`, `WalletProofs`, `TransactionProofs`, `OnboardingProofs`, `AmountsProofs` | theorems | the module they are named for |
| `MCOutbox`, `MCWallet`, `MCTransaction`, `MCOnboarding`, `MCLedger`, `MCPipeline`, `MCAnalytics` | scenarios for TLC | the module they are named for; `MCWallet` also extends `Amounts` |

The three compositions rest on the abstract specifications. `Outbox` implements
`EventChannel`, and `Pipeline` runs the ledger behind that `EventChannel` instead of
behind the table: the topic grows by what the channel delivers. `Wallet` and
`Transaction` both implement `KeyedCalls`: what `Transaction` takes the wallet service
to do under a key, admit, move the money or refuse, and use the key, is no more than
what `Wallet` is shown to do.

Conventions. An action is named for the function it models. A step of a handler is
what lies between two points where another process can interfere: a call of Redis,
of PostgreSQL outside of its transaction, of Kafka or of another service. `pc` holds
where each caller is. Failures draw on one budget `faults <= MaxFaults`, which the
properties may mention ("once more per fault"). Variables marked "history" are read
by no guard. A definition `XBug`, before `X`, is a plausible mistake in `X`; nothing
uses it, it serves to show which property notices the mistake.

**Auth, WalletCreation, Onboarding.** A refresh token is `<<e-mail, second>>`, since
the JWT holds the user and the times in whole seconds and nothing else; `IssueToken`
is refused by UNIQUE (token_hash) if the account got one in the same second
(`collided`). `GetRefreshToken`, `RevokeRefreshToken`, `IssueToken` are the three
statements of a refresh. What the code does between two statements, generate the
access token and the refresh token and take the time for `expires_at`, is of some
second between the earlier (`since`) and the later one, in the code's order: a refresh
generates its access token before the revocation, and a slow INSERT enters a token of
an earlier second. The expiry of a row (`expires`) carries fractions of a second and
may lie on either side of the clock's tick. `inserting` is the open transaction with an
account's row, for which another INSERT waits. `SendCreate` is JWTAuth: a call goes in
with an access token that has not expired, or is denied.

**KeyedCalls, Pipeline.** `KeyDiscipline` maps a request of `Wallet` that passed its
check, and a call of `Transaction` under way, to an open call of its key. `Pipeline`
adds to `Ledger` the outbox rows of the transfers: `Publish` is a delivery of
`EventChannel` that appends to some partition, `Settle` the end of a row.

**Outbox.** `SaveEvents`, `CommitTx`, `RollbackTx` are a business transaction;
`clock` orders begins and commits, so that `created` (begin) and visibility (commit)
differ. `GetPendingEvents` takes any batch the query can return, `seen` keeps the
attempts as read. `PublishUnacknowledged` is a write that Kafka kept although the
client saw an error; `UpdateLost` is an UPDATE that fails; `Stop` a crash or shutdown.

**Wallet.** One action per call: `CheckIdempotency`, `AcquireLock` (once per wallet),
`BeginTx`, `GetWalletForUpdate` (once per row), `Decide`, `ReadBack` (the second
connection of Deposit), `Commit`, `SetIdempotency`, `InvalidateWalletBalance` (once
per wallet), `ReleaseLock`. The updates and inserts inside the transaction are seen by
nobody before the commit and happen in `Post`. `CommitUnacknowledged`, `TxError`,
`Abandon` (a dead process or a cancelled request context, which every later call of
the handler uses) and the expiries are the faults. `AbortDeadlocked` is PostgreSQL's
own deadlock detection. `WantsRow` keeps the order source, destination of the code.
A SETNX whose answer is lost leaves a lock nobody holds. A lock left behind by a dead
holder expires without counting as a fault. Every wallet is active; the refusal of one
that is not is a `TxError`.

**Transaction.** A key is `<<k, 0>>` (the client's, and the row's), `<<k, i>>` ("k-i",
of a batch's item) or `Scheduled(k)` ("scheduled-id", of the worker's call). Of the wallet service the module keeps what `Wallet` shows of a
Transfer: it admits a call whose key is unused, then moves the money or refuses, and
uses the key after the money moved, so that two calls admitted together may both move
it. `CallTimesOut` leaves a call behind that the wallet service still runs
(`StrayCall`). The record of a payment can fail (`RecordFails`), or commit and be
answered with an error all the same (`RecordUnacknowledged`): the worker then marks
as failed what it has just completed. `inserting` is the uncommitted row with the batch's UNIQUE key, for
which a second batch waits. `LIMIT 100` and the order of the worker's query are
abstracted to any subset order.

**Consumer, Ledger, Analytics.** `topic` starts as `Log` and grows by `Produce`. The
producer's balancer is `LeastBytes` (`kafka/producer.go:22`), which takes no notice of
the key: an event goes to any partition, and a copy of it to another. `Holding` are the
partitions with a copy. `asked` are the commits kafka-go has not sent yet. `HandlerFailed` asks for
nothing, but the reader goes on. In `Ledger` a table row carries `created`, the begin
of its transaction, by which the latest balance is chosen. In both, a statement or a
commit that is reported as failed may have taken effect (`TxUnacknowledged`,
`UpsertFails`, `QueryFails`). In `Analytics` sums are
kept apart by event (`counted`), so that a sum is wrong exactly when a term is missing
or repeated; a view is a daily or an hourly range of dates, and `InRange` says which
events it sums up.

**Amounts.** An amount is a number of 0.0001 units; floats are whole numbers of
1/`Grid` units, on a grid fine enough to hold all that occur. `Round` is a constant
operator of which only the contract is assumed: a relative error of at most
1/`Precision`, and monotone. `Text` leaves a tie open. An operation returns the set
of amounts it may print.

## Runs

All pass except the three marked (v), in which TLC finds the counterexample that is
described. Deadlock is not checked: in every scenario the finitely many requests and
events are used up and the system then rests; that nothing gets stuck before is what
the liveness properties say.

| run | instance | shows |
|---|---|---|
| `outbox_one` | 1 publisher, 2 events, 5 attempts, 2 faults | `ExhaustedIsFailed`: no pending row is beyond the poll's limit. `EventuallySettled` |
| `outbox_two` | 2 publishers, 2 events, 2 attempts, 2 faults, symmetry | `CopiesBounded`, `CausalOrder`, `AtLeastOnce` (refinement of `EventChannel`) |
| `wallet_transfers` | 2 opposite transfers, a withdrawal, a deposit, 2 faults | `JournalExplainsBalance`, `HoldersBounded`, `NoRowDeadlock`, `AnswerIsTrue`, `Atomic` (refinement of `Bank`) |
| `wallet_retry` | a deposit sent again, a transfer followed by a deposit, a reader, 2 connections, 1 fault | `RetryAppliedOnce`, `StaleOnlyByRace` for the cached balance, `KeyDiscipline` (refinement of `KeyedCalls`), `AnsweredOrExhausted`, `LockFreed` |
| `wallet_dupkey` (v) | 2 concurrent deposits, one key, no fault | `KeyAppliedOnce` fails |
| `transaction_concurrent` | P2P and batch, each twice at once under one key, 2 faults | `CompletedIsPaid`, `PaidIsRecorded`, `AllAnswered` |
| `transaction_retry` | P2P and batch, each sent again, a scheduled transfer, 1 worker, 1 fault | `RetryPaysOnce`, `FailedIsUnpaid`, `KeyDiscipline` (refinement of `KeyedCalls`), `ScheduledSettles` |
| `transaction_batch` (v) | one batch of 2, no fault | `BatchAtomic` fails |
| `pipeline_two` | 2 instances, 2 partitions, an event and a batch event in the topic, one committed meanwhile and delivered up to twice, to one partition or to both, 1 fault | `RunningBalance`, `RecordedOnce`, `SkippedOnlyIfFailed`, `EveryTransferRecorded` |
| `ledger_retried` (v) | 1 instance, 2 events, 1 failed transaction | `FailedIsRetried` fails |
| `analytics_two` | 2 instances, 2 partitions, an event twice in one and once in the other, a reader of a daily and an hourly view of 3 dates, 1 fault | `CountedOnce`, `StaleOnlyByRace`, `EventuallyConsistent` |
| `onboarding` | 1 e-mail: 2 registrations at once, 2 refreshes of one token (one of them when the second registration is over), a login after that one, 2 creations of one wallet, 3 seconds, 1 fault | `ReplayRefused`, `LiveBounded`, `RefusedForAReason`, `WalletCreatedOnce`, `AllAnswered` |

One run per module also checks its `TypeOK`. The wallet runs evaluate, as assumptions
of `MCWallet`, the operators of `Amounts` for floats of five bits: sums, differences,
comparisons and totals of small amounts are exact (`SmallAmountsExact`,
`SmallBatchExact`), and larger ones are not (`LargeAmountsRounded`).

**Why the bounds are enough.** The properties relate at most two actors (two
publishers, two holders of a lock, two instances at an event, a reader and a writer)
and one or two rows or wallets, and each run has that many and, with the retries, one
more. Balances start at 2 and requests move 1 or 2, so that some interleavings are
refused for lack of money and others not. The limit of attempts is 5, as in the code,
where a row must be followed to its end, and 2 where two publishers meet, since only
the step over the limit matters there. `BatchLimit` is 1 or 2 against two rows, so
that the LIMIT cuts. The tokens of `onboarding` live one and two seconds of three, so
that they expire before, between and after the calls. One or two faults let a fault
strike during the recovery from another in the outbox, wallet and batch runs; the runs
with liveness and two instances keep to one. The theorems have no such bounds.

**Fairness.** A handler that runs goes on, the publisher's ticker and the worker's
ticker fire as long as the process does, a process that stopped is started again, and
kafka-go's background flush runs: weak fairness of the steps of each caller. In
`Pipeline` the publisher is the channel's, which settles each row it owes
(`EventuallySettled` of `Outbox`). Redis expires what has a time to live: weak fairness
of the expiry of a lock nobody holds, and of a cached view of analytics. Scheduled
times pass. Each client of `Onboarding` sends its call. No fairness is given to faults,
to the clock of `Auth`, to the end of a business transaction or to readers.

## Theorems

`OutboxProofs` (any finite set of events, any set of publishers, any number of faults):

- `TypeCorrect`: `Spec => []TypeOK`.
- `PublishedDelivered`: `Spec => []PublishedIsInKafka`. Not inductive by itself: a
  publisher marks what it sent earlier. The invariant adds `SentBeforeMarked`, that
  all a publisher has in hand are rows of committed transactions and that the one it
  is about to mark is in Kafka.
- `OutboxIsAtLeastOnce`: `Spec => AtLeastOnce`. Each step maps to a step of
  `EventChannel` or to a stutter, by the same invariant.
- `OnePublisherReportsFailure`: with one publisher `ExhaustedIsFailed`; the invariant
  says that the publisher's copy of the attempts is the table's as long as it has the
  row in hand (`ExactSnapshot`). With two it is not, and the property fails.
- `OutboxBoundsCopies`: `Spec => []CopiesBounded` for finitely many publishers. The
  invariant `CopiesCounted` adds to the copies those that may come from the batches in
  hand; and the copies of a row that can still be selected are about to be marked, or
  a fault kept them from it.
- `OutboxKeepsCausalOrder`: `Spec => CausalOrder`, for any number of publishers. A
  batch is read in the order of `created`, so whoever has the later event in hand
  finds the earlier one tried, or has it in hand before (`EarlierFirst`); begins and
  commits are told apart by a clock that each of them advances (`Times`).

`WalletProofs` (any wallets, readers, connections, faults, finitely many requests):

- `WalletTypeCorrect`: `Spec => []TypeOK`.
- `WalletImplementsBank`: `Spec => Atomic`; `NeverOverdrawn`: `Spec => []NonNegative`;
  `JournalComplete`: `Spec => []JournalExplainsBalance`.

These three rest on one invariant, `RowInv`: a request that holds the row lock of a
wallet has in `seen` its current balance (`RowsAreCurrent`), a request past its reads
holds all its rows (`RowsAreHeld`), one about to commit has found the money in them
(`FundsAreChecked`), and one that is applied never gets back before its commit
(`CommittedIsOver`). It says nothing of the Redis locks: the proof shows that the money
is safe by the row locks alone, whatever expires in Redis. What the rest of the module
proves has invariants of its own on top of it:

- `AnswersAreTrue`: `[]AnswerIsTrue`. The balance to be shown is drafted from the locked
  row (`Drafted`), and from the commit on the journal has an entry with it
  (`Reported`), which later commits only extend. Nothing is claimed of the balance in
  the answer of a deposit (see below).
- `WalletStaleOnlyByRace`: `[]StaleOnlyByRace`. It is inductive once a request is known
  to have only its own wallets to drop.
- `WalletHoldersBounded`: `[]HoldersBounded`. The count has to tell whether Redis has
  the lock: with it one holder is for free, and each other has cost a fault
  (`HoldersCounted`).
- `WalletNoRowDeadlock`: `[]NoRowDeadlock`. Without a fault the locks in Redis are in
  the hands of those that took them (`Owned`), and a row is locked by a request that is
  about its wallet (`RowsAreOwn`). So nobody even waits for a row, in whatever order the
  code reads rows; the deadlock needs a lock that expired under its holder.
- `WalletCallsAreKeyed`: `KeyDiscipline`, by the phases a request is admitted in. With
  `CallsAreKeyed` of `TransactionProofs` it closes the gap between the two services.
- `RetriesAreAppliedOnce`: `[]RetryAppliedOnce` under `RetriesInTurn`: of two requests
  with one key, one is sent when the other is over. That is what the property calls a
  retry; `wallet_dupkey` shows that requests under one key at once are both applied,
  and its scenario is one that the hypothesis excludes. The invariant counts what a
  key has applied, and allows one more per fault once the key is used
  (`OncePerFault`).

The assumptions are those in the modules: sets are disjoint from their "none" values, a
transfer has two different wallets (checked before Transfer is called), amounts are not
negative.

`TransactionProofs` (any requests, keys, workers, transfers per batch and faults):

- `TransactionTypeCorrect`: `Spec => []TypeOK`, with `Control`: which kind of request
  takes which step, and that a worker has only scheduled transfers in hand.
- `TransactionCompletedIsPaid`: `Spec => []CompletedIsPaid`. The invariant adds
  `Called`: who is about to record a payment has made it, and so have a batch's
  earlier items.
- `RetriesArePaidOnce`: `Spec => []RetryPaysOnce` under `RetriesInTurn`: of two P2P
  requests with one key, one waits for the answer of the other, and there is one
  worker. The property is about retries; `wallet_dupkey` shows that concurrent
  requests under one key are paid twice, and a second worker is such a request. Batches
  may be concurrent: the uncommitted row with the key keeps the second out. The
  invariant is `OncePerKey` (money that moved has used its key, an admitted call has
  moved none) and `InTurn` (who waits has not begun, a batch that makes calls holds its
  key); from it follows that no two calls of one key are admitted together.
- `PaymentsAreRecorded`: `Spec => []PaidIsRecorded`, for concurrent requests too. The
  invariant says of faultless states that no call is left behind (`Quiet`) and that a
  payment has its row or a request about to write it, and a row its one event
  (`Recorded`).
- `FailedTransfersAreUnpaid`: `Spec => []FailedIsUnpaid`. What the one worker has
  selected is still scheduled and unpaid (`Untried`), and what is paid is completed or
  about to be (`PaidCompletes`).
- `CallsAreKeyed`: `Spec => KeyDiscipline`, for finitely many requests and workers, if
  requests of one key are of one kind (`KeysOfOneKind`). Finiteness lets calls be
  counted. The hypothesis on kinds is one on clients: a scheduled transfer sent under
  the key of a payment marks that key, which `KeyedCalls` allows only for what it has
  seen move.

`PipelineProofs` (any instances, partitions, transfers, copies, crashes and
rebalances), about `PipelineSpec`:

- `LedgerTypeCorrect`: `[]TypeOK`. A balance is an integer only because a wallet's
  entries have a latest one (`HasLatest`), which is part of the invariant.
- `LedgerSkipsOnlyFailed`: `[]SkippedOnlyIfFailed`. What the offset in Kafka has passed
  has been dealt with, because what is asked to be committed has, and what lies behind
  the position of an owner but for the message it is at (`Passed` of `ConsumerProofs`,
  which holds for any handler that asks only for what is dealt with).
- `LedgerRunningBalance`: `[]RunningBalance`. Transactions begin at times of their own
  (`BeginsApart`); as long as none overlapped the open one is alone and the latest
  (`AloneInTx`), so what it has read is still the latest balance (`ReadsLatest`), and
  its entries carry on the chain (`InsertChains`).
- `LedgerRecordsOnce`: `[]RecordedOnce`. An instance that has found no entries counts as
  if it had inserted (`Records`). Instances at a copy of an event are owners of the
  partitions with a copy, or strays of a rebalance, of which each has cost a fault
  (`StraysBounded`, `HandlingBounded`).

`AnalyticsProofs` (any instances, partitions, events, readers and faults):

- `AnalyticsTypeCorrect`: `[]TypeOK`.
- `AnalyticsCountsOnce`: `[]CountedOnce`. The invariant `Counts` has a line per
  aggregate: what is counted, and those about to count it, are no more than the
  aggregate before it; and as long as there is no log row, an event that was added and
  has no instance behind the upsert any more has cost a fault. Instances in a phase are
  counted by the cardinality `N`, of which `Tally` says how a step changes it.
- `AnalyticsStaleOnlyByRace`: `[]StaleOnlyByRace`. A cached view is current, or about to
  be dropped, or has one of the excuses (`Presentable`), whoever steps.

`OnboardingProofs` (any calls, accounts, lifetimes and faults):

- `OnboardingTypeCorrect`, `TokensWorkOnce`, `RefusalsHaveReasons`,
  `WalletsCreatedOnce`: `Spec` implies `[]TypeOK`, `[]ReplayRefused`,
  `[]RefusedForAReason` and `[]WalletCreatedOnce`.
- `LiveTokensBounded`: `[]LiveBounded`. Not inductive by itself: a refresh takes the old
  token away in one statement and adds the new one in another. `Balanced` counts a
  refresh between the two (`Pending`) with the live tokens.

The invariant has a part for each service. For auth: each answer has a token of its
own (`TokensDistinct`), a refresh that issues a token has revoked the one it was shown
unless a fault kept it from that (`UsedIsRevoked`), so a late one finds it revoked
(`LateIsOver`), and a token is revoked by a refresh that presents it only
(`RevokedByUse`), so a refused refresh has another to blame. For creation
(`CreationInv`): an account has one open INSERT at most, and none once its row is
there. The steps of one service are stutters or faults to the other (`AuthInvFrame`,
`CreationInvFrame`).

`AmountsProofs` (any rounding that keeps the contract, any precision, any grid):

- `AddExact`, `SubtractExact`: on amounts with 6 (|a| + |b|) < `Precision` the printed
  result is the exact one, whatever the tie rule.
- `SufficientExact`: a balance that covers the amount is found sufficient, whatever
  their size, for the rounding is monotone; a small one that does not is refused.

The errors of two operands and of their sum are together at most 3/`Precision` of the
operands (`ErrorBound`), less than half a unit for small ones (`HalfUnit`), and then
only one number is nearest (`TextExact`). With the 64 bits of `big.Float` small means
about 3 * 10^14 in units of currency. `NUMERIC(20,4)` holds more: up to 10^16. The
theorems ask the contract of the numbers that are rounded in the operation only.

`PublishedDelivered` and `NeverOverdrawn` are proved and have no run of their own: they
follow from `AtLeastOnce` and `Atomic`, which have.

Two of the proofs showed the models wrong, which the runs had not. A first proof of
`RecordedOnce` needed an event and its copies to share a partition, which `LeastBytes`
does not give; the bound counts partitions now. And the keys of a worker's call and of
a batch's first item were one value, so that `CompletedIsPaid` could not be proved for a
key with requests of two kinds.

Every invariant, every action property and every refinement that a passing run checks
is a theorem, under the hypotheses named above where there are any. Only model-checked: all liveness, which is beyond the prover, and the total of a batch,
which is a recursion over its items. That the ledger behind the outbox table works as
it does behind `EventChannel` is by the composition and has no theorem of its own.

## Where the code and its documentation part

Shown by the runs marked (v):

- **Idempotency keys.** README.md:282 has them "Prevent duplicate transactions". The
  key is looked up before the lock and set after the commit, so two concurrent
  requests under one key can both be applied, without any fault.
- **Atomic batches.** `internal/transaction/models.go:47`: "All transfers in a batch
  must succeed or all fail". Each is paid by its own call; a refusal of the second
  leaves the first paid and without a row.
- **Retry of failed messages.** `internal/common/kafka/consumer.go:69`: "message will
  be retried". The loop goes on and the commit of the next message passes it.

Behind the exceptions that passing properties make:

- *Exactly once* (`pkg/outbox/outbox.go:15`): delivery is at least once; `CopiesBounded`
  counts a copy per additional publisher and per fault.
- *Stranded rows*: `ExhaustedIsFailed` holds for one publisher. Two can both increment
  a row up to the limit without either marking it failed; it stays pending and is not
  selected again.
- *Answer of Deposit* (`internal/wallet/service.go:247`, "Get updated wallet"): the
  wallet is read on a connection outside of the transaction, before the commit, so the
  answer shows the balance before the deposit and not the updated one. `ReadBack` and
  `shown` model the read; `AnswerIsTrue` makes no claim about it, as the one the comment
  makes does not hold. The second connection is what `PoolExhausted` is about.
- *Two workers*: `FailedIsUnpaid` holds for one worker instance.
  With two, one pays a due transfer, the other is refused by the key and marks the
  paid transfer as failed.
- *Retry of a half-paid batch*: the keys of its paid transfers are used, so the wallet
  service refuses them and the batch can never be completed.
- *Running balance of the ledger*: `RunningBalance` excepts transactions that overlap
  (the latest balance is read without a lock) and a failed read of the balance, which
  the code takes for a wallet without entries.
- *Batches in the ledger*: `batch.completed` has no transaction_id and is refused, so
  the payments of a batch get no entries; `EveryTransferRecorded` counts the refusal. The
  event of a scheduled transfer has no currency, and the ledger never sees deposits
  and withdrawals.
- *Idempotent analytics*: upserts and log row are separate statements;
  `CountedOnce` counts an event again per fault. A failed upsert leaves a log
  row of status failed that keeps the event from being completed. The amount of a
  credit entry is added to what its wallet sent as well.
- *Cached ranges*: the pattern of the invalidation finds a range by its first and last
  date only; `StaleOnlyByRace` leaves the dates between out, and such a view is stale
  until it expires, which is all that `EventuallyConsistent` promises.
- *Hourly summaries*: the handler of the summary takes the last date as its midnight,
  so of that day only the first hour is summed up; the daily summary has all of it.
- *Refresh tokens of one second*: two tokens that an account is issued in one second
  are one string, and the second is refused by UNIQUE. A login or a refresh right after
  another fails with an internal error, and the refresh has revoked its token by then
  (`collided` in `RefusedForAReason`).
- *Rotation*: two concurrent refreshes of one token can both succeed
  (`forked` in `LiveBounded`). `RevokeAllUserTokens` is called by nothing.
- *Zero amounts*: ValidateAmount says "must be greater than zero" and compares with a
  few spellings of zero; others ("00", "0.000") pass.
- *Batch total*: its comment says "Use big.Float for precise decimal arithmetic", and
  the code adds float64; in `Amounts` that is a `Precision` of 2^53.

## Not modelled

The regular expressions that validate requests. HTTP routing, JSON, signatures and
headers of tokens, mTLS, configuration, logging, health checks: no shared state; a
cancelled request is `Abandon`, a timeout `CallTimesOut`. Read-only queries but the
cached ones. Redis counters and `RevokeAllUserTokens`, which nothing uses. Averages,
minima and maxima in the tables of analytics. Set-up of the connection pool. Loss of
acknowledged data by PostgreSQL, Redis or Kafka.

## Plan

Done: every component with state of its own is modelled and checked, alone or behind
the abstract specification of its neighbour, and each invariant is proved. What is left,
in order:

1. The two refinements joined: a system of `Transaction` over `Wallet` itself in place
   of `KeyedCalls`, of `Ledger` behind `Outbox` in place of `EventChannel`, and the
   properties of the one carried over to the other.
2. Under which bound on a batch the float64 total is exact: `CalculateBatchTotal` as a
   recursive function, and its error by the number of items.

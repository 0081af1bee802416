# A formal model of the trading backend

TLA+ specifications of the algorithmic-trading backend in `src/app`, model-checked
with TLC and, for every safety invariant of the passing runs, proved with TLAPS. This file says what the system
consists of, which module models which part, what the checks and the proofs show,
and what is left.

## 1. Inventory

The backend is a FastAPI application (handlers run in a thread pool, several worker
processes), Celery workers, a PostgreSQL database at READ COMMITTED (SQLAlchemy
sessions with `autoflush=False`), Redis, and exchanges reached over HTTP.

| Component | State | Operations | Correct when |
|---|---|---|---|
| Order lock (`core/locks.py`) | Redis key `lock:order:<key>` with token and TTL; `_LOCAL_LOCKS` of a process | `__enter__`, `__exit__` | a live lock is freed by its owner only; nobody waits for a lock that is left over |
| Trade execution (`services/trade_service.py`) | `trades` with a unique (user, broker, key) | `execute_trade`, `execute_copy_trade` | one trade per key, one answer per key, a second order only when something went wrong |
| Risk limits (`services/risk_service.py`) | the day's trades | `validate_trade` | limits overshot only by what was under way |
| Copy trading (`services/copy_service.py`, `tasks/trading.py`) | `copy_relationships`, two task queues | subscribe, unsubscribe, fan-out, copy | every follower once, no cascade, nobody else |
| Delta adapter (`brokers/delta_exchange.py`) | circuit breaker in Redis, or per process; attempts of an order on their way | `_request`, `place_order` | opens on evidence, pauses calls, closes again; one order for a `client_order_id` |
| Broker accounts (`services/broker_service.py`) | `broker_accounts` | connect, disconnect, order, balance | one active account per broker; orders use the keys last connected, where they are valid |
| Strategies and signals (`services/strategy_service.py`) | `strategies`, `signals` | create, update, delete, duplicate, signal | tags unique; a signal is stored before it orders |
| Administration and its cache (`api/v1/routes/admin.py`, `services/admin_cache_service.py`) | users, trades, strategies, settings, `audit_logs`, cache entries | ban, manual close, bulk actions, settings, broadcast, cached reads | what was answered is seen, every change audited, nothing done twice |
| Academy (`services/academy_service.py`) | `academy_articles` | create, update, delete | slugs unique, changes audited |
| Sessions (`services/auth_service.py`, `api/dependencies.py`) | `refresh_tokens`, `revoked_tokens`, `users.tokens_revoked_at` | login, refresh, logout, logout-all, password change and reset, deletion | a revocation holds; the number of sessions is bounded; a token is exchanged once |
| One-time passwords and sign-up (`services/auth_service.py`) | `auth_otps` | send, verify, register, reset | attempts bounded, a challenge used once, nothing without the right codes |
| Password history, trusted devices, profile | `password_history`, `trusted_devices` | record, check, prune | the last five passwords are refused |
| Live feed (`services/websocket_manager.py`) | set of connections | connect, disconnect, broadcast | a dead connection is dropped, others are served |
| Dashboard, notifications, settings, KYC, backtesting | single rows | reads and writes of one row | — |

Interactions. An HTTP request authenticates (`get_current_user`), and executing a
trade takes the order lock, asks the risk service, calls the exchange through the
broker service, commits the row, and publishes `replicate_leader_trade`. That task
lists the followers and publishes one `execute_follower_copy_trade` each, which
enters trade execution again with a key of its own. All exchange calls go through
the circuit breaker. A signal is stored and then enters trade execution without a
key. An administrator's ban changes `users.is_active` under all of them; his other
changes go through a service or straight to the table, write an audit row, empty the
cache of the dashboard and publish a live update.

What is hard here: requests of one key or one user in several threads and
processes, each step of which reads state that may be stale when it is used; locks
that expire while their holder works; Redis, database, queue and exchange calls
that fail after they were applied; processes that die between the exchange's
acceptance and the commit. `PROJECT.json` lists each such hazard at its line.

## 2. Modules and the code they stand for

| Module | Code | What it is |
|---|---|---|
| `OrderLock` | `core/locks.py` | the lock's state and operations, without a next-state relation of its own |
| `TradeExecution` | `services/trade_service.py`, `services/risk_service.py`, `repositories/trade_repository.py` | extends `OrderLock`: requests that execute orders |
| `IdempotentOrders` | — | abstract: what clients of one idempotency key are promised |
| `TradeInvariants` | — | the inductive invariants of `TradeExecution` |
| `TradeExecution_proofs`, `TradeRisk_proofs` | — | theorems about `TradeExecution` |
| `CopyTrading` | `services/copy_service.py`, `tasks/trading.py` | subscriptions, fan-out, copies |
| `CopyTrading_proofs` | — | theorems about `CopyTrading` |
| `DeltaCircuit` | `brokers/delta_exchange.py`, `_request` | retry loop and circuit breaker |
| `DeltaCircuit_proofs` | — | theorems about `DeltaCircuit` |
| `BrokerOrders` | `services/broker_service.py`, `brokers/delta_exchange.py`, `services/strategy_service.py` (`process_signal`) | accounts of a user and what is ordered through them |
| `BrokerOrders_proofs` | — | theorems about `BrokerOrders` |
| `AdminConsole` | `api/v1/routes/admin.py`, `services/admin_cache_service.py`, `services/strategy_service.py`, `services/academy_service.py`, `main.py` (seeding) | administrators' changes, audit rows and the cache |
| `AdminConsole_proofs` | — | theorems about `AdminConsole` |
| `Sessions` | `services/auth_service.py`, `api/dependencies.py` | refresh and access tokens of one user |
| `Sessions_proofs` | — | theorems about `Sessions` |
| `OtpChallenges` | `services/auth_service.py` | challenges of login, sign-up and password reset, sent and brought |
| `OtpChallenges_proofs` | — | theorems about `OtpChallenges` |
| `MC*` | — | instances for TLC: model values, payloads, symmetry |

Definitions named `…Unchecked`, `No…`, `…Anyway` and the like, with a comment
"Faulty variant", are no part of any specification: each is what a plausible mistake
in the definition after it would look like, and shows that a property can fail.

**OrderLock / TradeExecution.** `redisLock[k]` is the owner of `lock:order:<k>`,
`localLock[p]` are the entries of `_LOCAL_LOCKS` of process `p`, `method[r]` says
which of the two `__enter__` used and `lost` collects the holders whose Redis token
expired. A request's program counter follows `execute_trade`: `precheck` (line 28),
`lock` (`__enter__`), `recheck` (37), `busy` (the handler of `LockBusyError`, 42),
`risk` and `loss` (`validate_trade`'s two queries), `place` (the call to the
exchange), `insert` (`create`'s flush), `commit`, `enqueue`, `unlock`
(`__exit__`). Between two labels other requests, the administrator, Redis and
failures run. The call to the exchange is the retry loop of `_request`: `attempts[r]`
counts what was sent of an order (`Send`), of which `PlaceOrderAgain` is followed by
another attempt and `PlaceOrder` is answered. What was sent may be accepted, then or
later, whatever the request was told: properties about orders speak of what was sent.
An order is sent before its row is inserted and the row is visible
to others only after `Commit`; an insert waits for an open transaction that holds
the same (user, broker, key), and fails when that one has committed.
`DatabaseFails`, `EnqueueFails`, `PlaceOrderFails`, `Crash`, `Expire` and the failing
outcomes of Redis commands (before or after they took effect) are the faults; the
constant `Faults` selects them. Celery's copy requests run the same code with
`copy = TRUE`.

**CopyTrading.** A trade is a path of users: `<<leader>>` is the leader's own,
`<<leader, follower>>` a copy of it. `toReplicate` and `toCopy` are the Celery
queues, `task[w]` what a worker does: `StartReplication`, `LeaderBalance`,
`ListFollowers`, `NextFollower` follow the lines of `replicate_leader_trade`;
`StartCopy`, `LookUpCopy`, `RecordCopy`, `CopyFails` those of
`execute_follower_copy_trade`, with `TradeExecution`'s guarantee that a key records
one trade. Messages may be delivered again, balances may not be fetched and workers
may die. `failed` and `cut` remember whose copy failed by itself and who was still to
come when the fan-out broke off for somebody else.

**DeltaCircuit.** `failures` and `open` are the Redis keys, `localFailures` and
`localOpen` the breaker of each process. One call is `Begin` (the circuit is checked
once), `Send`, then `Answered`, `Refused` or `TransientFailure`, and
`RecordSuccess` or `CountFailure` / `OpenCircuit` / `CountLocally`, each Redis
command a step of its own where others can come between. Any Redis command may fail
and the next one succeed; `blind` are the calls that could not ask Redis whether the
circuit is open.

**BrokerOrders.** An account is named by the connect that inserted it and a pair of
keys by the connect that brought it; `ValidAt` says at which base URL the exchange
knows which keys. `Validate` is the balance fetch of `connect_account` with its
fallback to the alternate URL, `LoadAccount` the lookup of the active account,
`ConnectAccount` its insert or update, of which SQLAlchemy writes only the columns
that differ from what was loaded. `GetActiveClient` chooses the keys of an order,
`SendOrder`, `OrderAnswered`, `OrderRefused` and `OrderTimesOut` are the attempts of
the retry loop; an attempt that timed out stays `onWire` and may be taken by the
exchange later (`ArrivesLate`). `StoreSignal` is the commit of `process_signal`
before it orders. Every commit may fail, with nothing written (`DatabaseFails`), or go
through although the request ends with an error, because the answer of the database is
lost or the refresh after it fails (`Committed`). `after[q]` remembers which requests
had ended when `q` began, so that properties can speak of what a client could know.

**AdminConsole.** Each route loads its row (`Loads`, with the answers that end it at
once), commits (`Commits`), and has its audit row in that commit (`WithAudit`) or,
where a service commits first, in a second one (`WriteAudit`, after `Refresh`, the
`db.refresh` that fails when the row is gone). Then `Invalidate`, `ScanKeys` and
`DeleteKeys` empty the cache and `Publish` sends the update. A cached read is
`AskCache`, `GetJson`, a `Select` for each query of its answer, `Built` and
`SetJson`. `client[p]` is the state of the process's `AdminCacheService`: not looked
for, being pinged, there, or absent for good. What a query finds is the set of
changes committed to its table, so that an answer shows which changes it has seen.

**Sessions.** A session is named by the request that issued it and stands for its
row of `refresh_tokens` and both of its tokens. Each operation is a first step that
reads (`Login`, `Refresh`, `Logout`, `RevokeAll`, `Reset`, `RevokeSession`), further
reads (`LoadUser`, `SelectAll`, `SelectSession`), a flush where the code flushes
(`IssueTokens`), and `Commit`. Rows written by an open transaction are locked:
logins wait for each other on the user's row, exchanges of one token on its row.
`created`, `stamp` and `revokedAt` are readings of one clock; `Iat` rounds the
access token's down to `Second`.

**OtpChallenges.** A send (`SendSignup`, `SendLogin`, `SendReset`, then `Deliver`)
stores one challenge or a pair; those of earlier sends stay usable, and a request may
name the mail half of one pair and the phone half of another. `attempts`, `verified`,
`consumed` are the columns of `auth_otps`. A request loads its challenges one by one
(`Find`), compares the codes (`WrongCode`, `RightCodes`) and commits (`Commit`) only
the columns it changed, computed from what it loaded. The commit of a wrong code and
of a request with right ones may fail, with nothing written, or go through unheard
(`Fault`): then the client is told of an error. Challenges of the purposes `Timed` may
expire at any time after their send.

What the models leave out, on purpose:
- one user, one broker and one UTC day in `TradeExecution`; `trading_enabled`,
  which no code changes, is true; a client that sets `is_copy_trade` itself and
  sends no key is not among the payloads; an administrator's manual close, which
  overwrites the pnl that the day's loss query reads (`admin.py:428-465`), is in
  `AdminConsole` only;
- readings of the clock that are stored differ from each other; the access token's
  `iat`, read just before the new session is flushed, is the reading of its
  `created_at`;
- a logout brings the session's own access token; in the code it may bring another
  one or none;
- a commit that goes through although its answer is lost does so at once, not after
  the request has ended;
- in `DeltaCircuit`, `INCR` and the `EXPIRE` after it are one step;
- `change_password` does to sessions what `logout_all_devices` does, and is that
  action; trusted devices mark sessions and are never asked for access;
  a refresh token past its own expiry is turned away when it is decoded, before
  anything the model has;
- in `BrokerOrders`: one user and the Delta exchange (the client of the other brokers
  answers at once); the circuit and the order's validation are one step that may
  refuse an order before its first attempt; the platform's own keys are valid where
  the settings say;
- in `AdminConsole`: lists, which only read; a table is the rows that routes can
  collide on, a strategy or an article having the tag or slug it had, the one that
  everybody wants, or a random one;
- in `OtpChallenges`: an email is the only thing a registration must have to itself
  (user names and phones behave alike); an account that is deleted while its reset or
  login is confirmed is left to `Sessions`; a login knows its password; the refusals of
  a reset's further checks are one; challenges that were stored although their send
  answered an error have ids that nobody was told, so nobody names them.

## 3. Runs

| Run | Bounds | Question |
|---|---|---|
| `TradeKeys` | 3 requests, 1 key, 2 processes, 2 threads at a time; Redis fails, locks expire, processes die | one trade per key, one answer, no clean double order |
| `TradeLimits` | 4 requests, 2 threads, 2 attempts per order, limits 2 and 1; bans, failing Celery | how far the daily limits and a ban are overshot |
| `TradeLiveness` | 2 requests, 2 keys, 2 attempts per order, all faults but bans, fairness | refinement of `IdempotentOrders`, and what must happen |
| `CopyTrading` | 3 users who follow each other in a circle, 1 order, 2 workers, all faults, fairness | no cascade, only followers, nobody forgotten, work ends |
| `CopyIsolation` | one leader, his 2 followers, failing balances | finding 1 (violation) |
| `DeltaCircuit` | 2 callers in 2 processes, 2 attempts, threshold 2, Redis fails now and then, fairness | opens on evidence, pauses calls, closes for good |
| `BrokerOrders` | 4 requests, 2 attempts, keys valid at either URL or both, all faults, 4 workloads | one account, current keys, orders accounted for |
| `BrokerValidated` | the same | finding 3 (violation) |
| `AdminConsole` | 3 requests, 2 processes, all faults, 16 workloads | answered changes are seen, audit, nothing twice |
| `SessionSafety` | 4 requests, 2 threads, 1 session allowed, 2 clock readings to a second, bans and failing transactions | cap, single use, revocation |
| `SessionLogoutAll` | 4 requests, 3 threads | finding 2 (violation) |
| `OtpSafety` | 2 sends in 4 combinations, 3 requests, 2 threads, 2 attempts, 1 commit that fails or is not heard of | guesses, single use, one registration, proof before use |

Why these bounds are enough to be interesting. Every bound that a property names
(`MaxTrades - 1 + Slots`, `Slots * Attempts`, `MaxSessions + Threads - 1`, `Threads`,
`SendBound`) is
smaller than what the instance's requests could reach together, and each is shown
to be tight or nearly so by a faulty variant that exceeds it. Two requests are
enough for every race on a key; the third is the retry that comes when one holder
has expired and another is inside, which is what the token comparison is for. Two
processes separate the process-local locks and breakers. Threads bound how many
requests run at one time, and requests beyond them come later and see what the
first left. Symmetric requests are a symmetry set in the runs without liveness whose
requests are alike.
`BrokerOrders` and `AdminConsole` have many operations and are checked in workloads:
which operation each request may be. A hazard there is a race of two requests and a
third that notices: most workloads of `AdminConsole` put two changes of one table
beside a read or a third change that depends on them, the others one change beside two
reads, one to fill the cache and one to find it filled, and every route is in at least
one. In three of the four workloads of `BrokerOrders` the fourth request is the order
that uses what connects and disconnects left; in the other one two signals race for
their strategy, and order, while keys are connected and disconnected.
`Failures` bounds how often a commit goes wrong in `OtpSafety`: once is enough for a
code that is compared and not counted, and leaves two further requests to use what the
attempt left. Challenges of a sign-up do not expire there, those of a login and of a
reset do, by the same action; the theorems are for any `Timed`. `TradeKeys` sends each order once, since what is told of a key does not
depend on how often.
Two sends are enough to mix their pairs and to have an account
appear between them.
`CHECK_DEADLOCK FALSE` stands in the runs whose requests are used up: when all have
ended nothing need happen. `CopyTrading` and `DeltaCircuit` go on for ever and are
checked for deadlock.

What the safety runs show about tolerated races. Several properties state how much
a race costs and not that it is absent, since the code does check-then-act without
locks: the daily trade limit is overshot by up to one trade per other thread
(`TradeLimit`), a ban misses the requests that had loaded the user, which may send
their orders as often as a call is retried (`BanIsPrompt`; it counts what is sent, and
an attempt that timed out before the ban may be accepted during it as well),
a refresh token can be exchanged by as many requests as looked at it together
(`ExchangedAtOnce`), a challenge the same (`UsedAtOnce`), and wrong guesses made
together count once (`GuessesCounted` is claimed for challenges that no two
requests had loaded together). A code that is compared when the commit fails is not
counted at all; what `GuessesCounted` says is that nobody is then told it was wrong: the
client gets the error that a right code would have got from a commit that fails. Two connects that overlap leave two active accounts,
and connects that do not overlap never do (`OneAccountUnlessOverlap`,
`KeysAreCurrent`); two administrators close one trade only when they overlap
(`NotDoneTwice`); and a cached answer misses an answered change only when the cache
could not be emptied for it, or when the entry it comes from was stored after the keys
had been scanned, by a reader who had begun before the change was answered
(`AnsweredChangeIsSeen`). How long such an entry lives is up to its TTL. After a
connect was answered the platform's keys are used only when a disconnect of that very
account was committed, after the connect or overlapping it, whatever the disconnect's
client was told (`KeysAreCurrent`).

**Fairness.**
- `TradeExecution!Fairness`: a thread that has a request takes its next step
  (`Proceed`): handlers are synchronous and every call they make has a timeout or
  fails. `DatabaseFails` and `EnqueueFails` are not in it, so nothing relies on a
  fault, and neither are `Expire` and `ExpireInProcess`: a request that finds a lock
  left over is refused and does not wait for its TTL.
- `CopyTrading!FairSpec`: while there is work some worker goes on with it (weak
  fairness of all workers together: Celery's pool hands a free worker the next
  message), and a message that is delivered again and again is acknowledged some time
  (strong fairness of the deliveries that take it out of its queue). A worker need
  not survive.
- `DeltaCircuit!FairSpec`: a thread in `_request` goes on; the key `open_until` has
  a TTL, and `opened_until` of a process is a time that comes.

Nobody need send a request, fail, crash or ban; `Sessions`, `OtpChallenges`,
`BrokerOrders` and `AdminConsole` have no liveness properties and no fairness.

**Findings.**
1. `CopyIsolation`: "failure isolation per follower" holds for the copies that were
   published; a follower's failing balance fetch in the fan-out loop ends the task
   and the followers after him get nothing.
2. `SessionLogoutAll`: a refresh that read its token before a logout from all
   devices and inserts its session after it stays logged in, though the answer is
   "Logged out from all devices".
3. `BrokerValidated`: `connect_account` says "Validate provided credentials up-front
   so UI can show a real connection error", but `base_url` in the metadata of the
   account it updates is only ever set. Keys validated at the primary URL are used at
   the alternate one that an earlier connect needed.

## 4. Proofs

`TradeExecution_proofs` and `TradeRisk_proofs` prove, for all sets of requests, keys
and processes, any payloads, any subset of the faults and all limits;
`CopyTrading_proofs` for all users, subscriptions, orders, workers and faults;
`DeltaCircuit_proofs` for all callers, processes, numbers of attempts and thresholds;
`BrokerOrders_proofs` for all requests, workloads, keys, attempts and faults;
`Sessions_proofs` for all requests, threads, caps, clock resolutions and faults, with
and without the protection against reuse; `OtpChallenges_proofs` for all requests,
combinations of sends, threads, numbers of attempts and of failures; and
`AdminConsole_proofs` for
all requests, processes, workloads and faults:

| Theorem | States |
|---|---|
| `TypeCorrect` | `Spec => []TypeOK` |
| `LiveTokenIsKept` | a holder whose token has not expired owns the Redis key |
| `OneTradePerKeyAlways` | one trade per key, whatever fails |
| `NoCleanDoubleOrderEver` | two requests nothing went wrong for never both send an order |
| `AnswersAlwaysAgree` | answers name committed trades, one per key |
| `QueueFollowsCommit` | only committed trades that are no copies are handed on |
| `TradeLimitHolds` | the overshoot of the daily limit |
| `BanIsAlwaysPrompt` | attempts at orders that are sent during a ban |
| `LossLimitHolds` | the overshoot of the loss limit |
| `PromiseKept` | `Spec => KeepsPromise`, the refinement of `IdempotentOrders` |
| `PromiseSuffices` | `IdempotentOrders` alone gives one trade per key and answers that agree |
| `CopyTypeCorrect` | `Spec => []TypeOK` of `CopyTrading` |
| `NoCascadeEver` | a trade is a leader's own or the copy of one |
| `OnlyFollowersEverCopy` | a copy's owner followed the leader |
| `NobodyEverForgotten` | each follower found is served, under way, failed or cut off |
| `CircuitTypeCorrect` | `Spec => []TypeOK` of `DeltaCircuit` |
| `OpensOnlyOnStreak` | the breaker opens after a streak of failed calls only |
| `CallsArePaused` | attempts the exchange sees while the circuit is open |
| `BrokerTypeCorrect` | `Spec => []TypeOK` of `BrokerOrders` |
| `OrdersAreAccountedFor` | orders, trades and signals of a request fit together |
| `OneAccountOrOverlap` | two active accounts come from overlapping connects only |
| `KeysOfOrdersAreCurrent` | which keys an order may use after a connect was answered |
| `SessionsTypeCorrect` | `Spec => []TypeOK` of `Sessions` |
| `SessionsCapped` | live sessions are at most the cap and one for each other thread |
| `SessionsExchangedAtOnce` | a refresh token has at most one successor for each thread |
| `SessionsRevocationHolds` | no token from before an answered revocation is accepted |
| `OtpTypeCorrect` | `Spec => []TypeOK` of `OtpChallenges` |
| `OtpGuessesCounted` | whoever is told that a code is wrong used up an attempt, unless guesses raced |
| `OtpUsedAtOnce` | a challenge is used at most once for each thread |
| `OtpOneRegistration` | one registration of an email is carried out |
| `OtpProvenBeforeUse` | what succeeds had the right code of each challenge |
| `AdminTypeCorrect` | `Spec => []TypeOK` of `AdminConsole` |
| `AdminChangeIsSeen` | which answered changes a read of the dashboard shows |
| `AdminNotDoneTwice` | later requests do not do again what was answered |
| `AdminAuditMatches` | changes and audit rows fit together |
| `AdminEffectsStay` | what a change has closed, deleted or inserted stays so |
| `AdminCacheFresh` | what is left in the cache after an answered change |

Assumptions are the named `ASSUME`s of the modules: requests of `TradeExecution`,
`Sessions` and `OtpChallenges` and callers of `DeltaCircuit` are finitely many, `None`
is no request and no key, answers are distinguishable from errors, limits, attempts,
failures and thresholds are natural numbers (attempts of `TradeExecution` and the bounds
of `Sessions` and `OtpChallenges` positive, but for failures), a
workload gives each request an operation that exists, each request of `AdminConsole`
has its process and none is the row that was there before, faults are among the known
ones. TLC evaluates those of a module in each of its runs. `PromiseSuffices` assumes besides
that no request is called `"error"`, the answer `IdempotentOrders` gives for all errors.

The arguments. None of the properties is inductive. `KeyInv` (`TradeInvariants`)
adds: `Progress`, what the program counter says about orders, trades and answers;
`UniqueIndex`, which extends one-trade-per-key to rows that are inserted and not
committed, because the insert waits for those; `CleanOrderIsRecorded`, an order
nothing went wrong for is in the table or on the way; and `LookupStillHolds`, a
request that found no trade under the lock and still owns the lock can rely on it,
because a clean request with its key would need the same token (`LiveTokenKept`).
Two clean orders of one key would then put one request past its lookup while the
other's trade is recorded, against `LookupStillHolds`, or both inside one lock.
`LimitInv` counts: trades plus requests past the count are at most
`MaxTrades - 1 + Slots`, since a request is let through at fewer than `MaxTrades`
and at most `Slots - 1` others are then ahead of it. `LossInv` counts the same way:
the loss so far plus the buys between the loss query and their commit. `BanInv`
says that, during a ban, the requests that have sent something since and those that
loaded the user before and may still order were all in flight when he was banned; each
of these at most `Slots` requests has sent at most `Attempts` times (`AttemptsOfFew`).
The refinement maps `Commit`
and `DatabaseFails` after a commit to `Record`, answers to `Tell` and `Refuse`, and
everything else to a stutter.

`CopyInv` (`CopyTrading_proofs`) says that whatever is in a queue or in a worker's
hands is *entitled*: the leader's own trade, committed, and a user other than the
leader who followed him at its commit or later. Entitlement is never lost, lists of
followers give only entitled pairs because current followers are known to have
followed since each trade (`FollowersKnown`), and every recorded copy is one of an
entitled pair (`TradesExplained`), so that no path is longer than two.
`NobodyForgotten` is inductive once one knows that a follower in a worker's loop or
in a queue stays pending from step to step.

`DeltaCircuit`. `CountsStreak`: Redis never counts more than the failures since the
last success that reached it, because a success deletes the counter in the step that
ends the streak, and a caller opens the circuit with the value its own `INCR`
returned. `SendsAccounted`: `Ahead` is the set of (caller, attempt) pairs that calls
under way can still send; while the circuit is open it only shrinks, by at least one
with every attempt sent, and when a caller opens the circuit it holds at most
`Attempts` for each of the others.

`BrokerOrders`. `Sending` and `Recorded` follow an order from its key to its trade.
The properties of accounts rest on three invariants about which requests had ended when
a request began (`after`). `OneAccount`: a connect that had ended before another
inserted an account has left none that is active. `Loading`: of the accounts whose
connects had ended when a connect began, none was begun after the end of the connect
of the account it updates, and whoever begins after it has ended begins after that one
had ended too.
`Connected`: an account holds the keys of a connect that wrote to it, none of them
replaced by one that had ended before, and the account of a connect that was answered is
active or was disconnected since (`DisconnectedSince`, which stays once it holds: lemma
`SinceStays`). Of an order that would use replaced keys they leave two accounts neither
of whose connects had ended before the other began: an overlap.
`LastUpdated` shows that the query for the account updated last finds one, by
well-founded induction on the time that has passed since.

`Sessions`. `Cap` bounds, for a session `s` that is inserted or about to be, what may
be live beside it and is not newer: the sessions its transaction left when it listed
them, at most the cap less one, and those that were open in other threads at that time
and so not in its list. The property is the case of the newest live session, which
well-founded induction finds; a new session joins nobody's set of older ones because
the clock tells sessions apart (`Distinct`). `Exchanges` counts the successors of a
session together with the requests that may still exchange it: the row lock makes
whoever comes after the first find it revoked, so the sum never grows past the
threads. `Revocations` says that a revocation which overlapped no other took its time
before every one still under way, so that `tokens_revoked_at` never falls behind it.

`OtpChallenges`. `Alone`: a challenge that no two requests had loaded together is held
by one request, whose loaded number of attempts is the row's, so that what it writes is
one more than what was counted, and it tells its client only after it has written.
`Uses` counts the requests that have used a challenge and those that hold it; nobody
loads it once it is used. `Proven`: `verified` and the loaded `verified` flags are of challenges whose code was shown, and a request reaches
its commit only with challenges that were shown. `Registration`: a success has made
the account, after which the unique index refuses every other one.

`AdminConsole`. `RouteStep` first reduces the fifteen routes to five kinds of step
(`Loading`, `Changing`, `GivingUp`, `Refreshing`, `Auditing`; lemma `Routes`), with
what a commit may write to which row in `Rewrites`. `Audits` follows a change from its
commit to its audit row. `Effected`: what a committed change has closed, deleted or
inserted stays so, since no route opens a trade again, writes to a row that is gone or
deletes the settings. So whoever begins after the answer finds it and is turned away
(`Later`). For the cache, `Cleared` relates each entry to each change that has scanned
the keys and did not fail to clear: the entry was stored after the scan (`late`), or it
is among the keys about to be deleted. A change that is answered has nothing left to
delete, so that an entry found after the answer came late. `Seen` follows a read: what
had been answered when it began is in the answer by every query on its table so far,
and a finished read has asked all its queries or was given such an entry.

Only model-checked: the temporal properties `EveryRequestEnds`,
`CommittedTradeIsHandedOn`, `WorkDrains` and `ReturnsToService`. They need fairness, and with it `ENABLED`, which is out of the prover's reach. The
three findings are counterexamples, and TLC's. Statements about recursive definitions
for every input would need induction over data, which the prover does not do either;
the modules have none.

## 5. Not modelled

- Delivery of one-time passwords: calls to mail and SMS providers. That a delivery may
  fail is in `OtpChallenges!Deliver`.
- The live feed. A send happens in whichever event loop the sender runs (`asyncio.run`
  in a worker thread, or the loop of the broadcaster), on sockets that belong to the
  loop of the server. What such a send does is decided by the library, and the
  properties worth stating would be about that.
- Password history, trusted devices and the profile: rows that one user's operations
  write for him, and nothing but the check of a new password reads. The audit row of a
  request for a password reset is added after that request's commit and lost with the
  session every time, without any race.
- Dashboard, notifications, settings, KYC and backtesting: reads, and writes of single
  rows that nothing else depends on.
- The mock broker, rate limiting, logging, metrics and configuration: I/O, counters
  and constants.
- Of the Delta adapter, signing and the normalisation of balances and positions.

`PROJECT.json` gives each component's status and, for hazards without a property, the
reason.

## 6. Plan

Modelled, in the order of their importance: `OrderLock`, `TradeExecution` and
`IdempotentOrders` (the money path); `CopyTrading` (what happens to a trade after its
commit); `DeltaCircuit` and `BrokerOrders` (the way to the exchange, and with which
keys); `Sessions` and `OtpChallenges` (who may call); `AdminConsole` (who else changes
things). Every safety property of the passing runs is proved, and so is the refinement
of `IdempotentOrders`. What could follow, in this order:

1. The coupling of `CopyTrading` to `TradeExecution`: that a copy's execution is what
   `TradeExecution` does for a request with a key, stated as a refinement instead of
   the guarantee `CopyTrading` relies on now.
2. More of the Delta adapter (`brokers/delta_exchange.py`): the order's validation as
   steps of its own.

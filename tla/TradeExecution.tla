---------------------------- MODULE TradeExecution ----------------------------
(***************************************************************************)
(* Executing an order of one user at one broker                            *)
(* (app/services/trade_service.py, risk_service.py, locks.py).  Requests    *)
(* run in the threads of several worker processes; they share Redis, the    *)
(* exchange and a PostgreSQL database at READ COMMITTED, in which           *)
(* (user_id, broker, idempotency_key) is unique.  A request runs as HTTP     *)
(* request or, when it copies a leader's trade, as Celery task.             *)
(*                                                                         *)
(* A trade is named by the request that inserted it.  All requests are of    *)
(* one UTC day, the span of the risk limits.                                *)
(***************************************************************************)
EXTENDS Integers, OrderLock

CONSTANTS
    Payloads,   \* what a request may ask for, see Payload
    Slots,      \* threads: requests that all processes run at one time
    Attempts,   \* delta_retry_attempts
    MaxTrades,  \* user.max_trades_per_day
    MaxLoss     \* user.max_daily_loss, in units of one trade's estimated pnl

(* copy: the request is execute_follower_copy_trade's, which always has a   *)
(* key.  proc: the worker process it runs in.                               *)
Payload ==
    {p \in [key: Keys \cup {None}, side: {"BUY", "SELL"}, copy: BOOLEAN, proc: Procs] :
        p.copy => p.key # None}

ASSUME RequestsAssumption == IsFiniteSet(Requests)
ASSUME PayloadsAssumption == Payloads \subseteq Payload
ASSUME SlotsAssumption == Slots \in Nat \ {0}
ASSUME AttemptsAssumption == Attempts \in Nat \ {0}
ASSUME LimitsAssumption == MaxTrades \in Nat \ {0} /\ MaxLoss \in Nat
ASSUME FaultsAssumption == Faults \subseteq FaultKinds

VARIABLES
    req,         \* the payload of each request
    pc,          \* where each request is
    snap,        \* user.is_active as the request's session loaded it
    answer,      \* what the request returns: a trade, or an error
    userActive,  \* users.is_active
    attempts,    \* how often each request's order has been sent to the exchange
    trades,      \* committed rows of the table trades
    queue,       \* history: trades handed to replicate_leader_trade
    late         \* history: attempts sent since the user was last banned

requestVars == <<req, pc, snap, answer>>
vars == <<lockVars, requestVars, userActive, attempts, trades, queue, late>>

Errors == {"Forbidden", "RiskLimit", "Conflict", "Unavailable", "BrokerError", "ServerError"}

ASSUME AnswersAssumption == (Requests \cup {None}) \cap Errors = {}

PCs == {"idle", "precheck", "lock", "busy", "recheck", "risk", "loss", "place",
        "insert", "commit", "enqueue", "unlock", "done", "crashed"}

Running(r) == pc[r] \notin {"idle", "done", "crashed"}
InFlight == {r \in Requests : Running(r)}

Keyed(r) == req[r].key # None

(* Between __enter__ and __exit__ of the order lock. *)
Locked(r) ==
    /\ Keyed(r)
    /\ pc[r] \in {"recheck", "risk", "loss", "place", "insert", "commit", "enqueue", "unlock"}
Working == {r \in Requests : Locked(r)}

(* Requests whose order the exchange has been sent, and may have accepted.  *)
Ordered == {r \in Requests : attempts[r] > 0}

(* Rows inserted by transactions that have not committed. *)
Pending == {r \in Requests : pc[r] = "commit"}

SameKey(r, s) == Keyed(r) /\ req[r].key = req[s].key
(* Faulty variant: rows of open transactions are visible too. *)
DirtyTradesLike(r) == {t \in trades \cup Pending : SameKey(r, t)}

TradesLike(r) == {t \in trades : SameKey(r, t)}

-----------------------------------------------------------------------------
Init ==
    /\ LockInit
    /\ req \in [Requests -> Payloads]
    /\ pc = [r \in Requests |-> "idle"]
    /\ snap = [r \in Requests |-> FALSE]
    /\ answer = [r \in Requests |-> None]
    /\ userActive = TRUE
    /\ attempts = [r \in Requests |-> 0]
    /\ trades = {}
    /\ queue = {}
    /\ late = {}

Goto(r, label) == pc' = [pc EXCEPT ![r] = label]
Reply(r, a) == answer' = [answer EXCEPT ![r] = a]

(* Leaving execute_trade's body: through the lock's __exit__ if it has one. *)
Leave(r) == Goto(r, IF Keyed(r) THEN "unlock" ELSE "done")

-----------------------------------------------------------------------------
(* A thread takes the request and loads the user.  get_current_user turns   *)
(* an inactive user away; a copy task only loads the row.                   *)
Arrive(r) ==
    /\ pc[r] = "idle"
    /\ Cardinality(InFlight) < Slots
    /\ snap' = [snap EXCEPT ![r] = userActive]
    /\ IF userActive \/ req[r].copy
         THEN /\ Goto(r, IF Keyed(r) THEN "precheck" ELSE "risk")
              /\ UNCHANGED answer
         ELSE Goto(r, "done") /\ Reply(r, "Forbidden")
    /\ UNCHANGED <<lockVars, req, userActive, attempts, trades, queue, late>>

(* The lookup by idempotency key: before the lock and under it. *)
LookUp(r, found, missing) ==
    /\ IF TradesLike(r) # {}
         THEN (\E t \in TradesLike(r) : Reply(r, t)) /\ Goto(r, found)
         ELSE Goto(r, missing) /\ UNCHANGED answer
    /\ UNCHANGED <<lockVars, req, snap, userActive, attempts, trades, queue, late>>

PreCheck(r) == pc[r] = "precheck" /\ LookUp(r, "done", "lock")
(* Faulty variant: no second lookup under the lock. *)
NoReCheck(r) ==
    /\ pc[r] = "recheck"
    /\ Goto(r, "risk")
    /\ UNCHANGED <<lockVars, req, snap, answer, userActive, attempts, trades, queue, late>>

ReCheck(r) == pc[r] = "recheck" /\ LookUp(r, "unlock", "risk")

EnterLock(r) ==
    /\ pc[r] = "lock"
    /\ LET k == req[r].key  p == req[r].proc
       IN \/ AcquireRedis(r, k) /\ Goto(r, "recheck") /\ UNCHANGED answer
          \/ AcquireLocal(r, k, p) /\ Goto(r, "recheck") /\ UNCHANGED answer
          \/ RefusedByRedis(k) /\ Goto(r, "busy") /\ UNCHANGED answer
          \/ RefusedLocally(r, k, p) /\ Goto(r, "busy") /\ UNCHANGED answer
          \/ Unavailable(r, k) /\ Goto(r, "done") /\ Reply(r, "Unavailable")
    /\ UNCHANGED <<req, snap, userActive, attempts, trades, queue, late>>

(* LockBusyError: the other request's trade if it is there by now, or 409.  *)
Busy(r) ==
    /\ pc[r] = "busy"
    /\ Goto(r, "done")
    /\ IF TradesLike(r) # {}
         THEN \E t \in TradesLike(r) : Reply(r, t)
         ELSE Reply(r, "Conflict")
    /\ UNCHANGED <<lockVars, req, snap, userActive, attempts, trades, queue, late>>

-----------------------------------------------------------------------------
(* RiskService.validate_trade.  Each trade's pnl is the estimate made when  *)
(* it was recorded: a loss of one unit for a BUY, a gain for a SELL.        *)
Bought(S) == {t \in S : req[t].side = "BUY"}
RealizedPnl == Cardinality(trades \ Bought(trades)) - Cardinality(Bought(trades))

(* Faulty variants: the limit compared the wrong way, the ban not looked at. *)
MayTradeOnceMore(r) == snap[r] /\ Cardinality(trades) <= MaxTrades
MayTradeIfBanned(r) == Cardinality(trades) < MaxTrades

MayTrade(r) == snap[r] /\ Cardinality(trades) < MaxTrades

(* The account, and the number of the day's trades: one query ... *)
CountTrades(r) ==
    /\ pc[r] = "risk"
    /\ IF MayTrade(r)
         THEN Goto(r, "loss") /\ UNCHANGED answer
         ELSE Leave(r) /\ Reply(r, IF snap[r] THEN "RiskLimit" ELSE "Forbidden")
    /\ UNCHANGED <<lockVars, req, snap, userActive, attempts, trades, queue, late>>

(* Faulty variant: a day exactly at its limit stays open. *)
MayLoseMore == RealizedPnl >= -MaxLoss

MayLose == RealizedPnl > -MaxLoss

(* ... and a second one for their pnl, at READ COMMITTED of a later state.  *)
SumPnl(r) ==
    /\ pc[r] = "loss"
    /\ IF MayLose
         THEN Goto(r, "place") /\ UNCHANGED answer
         ELSE Leave(r) /\ Reply(r, "RiskLimit")
    /\ UNCHANGED <<lockVars, req, snap, userActive, attempts, trades, queue, late>>

(* An attempt is sent.  From now on the exchange may accept it, also after   *)
(* the attempt has timed out, the next one is sent or the request has ended. *)
Send(r) ==
    /\ attempts[r] < Attempts
    /\ attempts' = [attempts EXCEPT ![r] = @ + 1]
    /\ late' = IF userActive THEN late ELSE late \cup {<<r, attempts[r] + 1>>}

(* The attempt is answered with an order, ... *)
PlaceOrder(r) ==
    /\ pc[r] = "place"
    /\ Send(r)
    /\ Goto(r, "insert")
    /\ UNCHANGED <<lockVars, req, snap, answer, userActive, trades, queue>>

(* ... or times out or has a retryable status, and another one follows, ...  *)
PlaceOrderAgain(r) ==
    /\ pc[r] = "place"
    /\ attempts[r] + 1 < Attempts
    /\ Send(r)
    /\ UNCHANGED <<lockVars, req, pc, snap, answer, userActive, trades, queue>>

(* ... or it is the last one, or its answer is an error or unreadable; or    *)
(* the call has failed before its first attempt.                            *)
PlaceOrderFails(r) ==
    /\ pc[r] = "place"
    /\ \/ Send(r)
       \/ attempts[r] = 0 /\ UNCHANGED <<attempts, late>>
    /\ Reply(r, "BrokerError")
    /\ Leave(r)
    /\ UNCHANGED <<lockVars, req, snap, userActive, trades, queue>>

(* Faulty variant: without the unique index. *)
InsertWithoutIndex(r) ==
    /\ pc[r] = "insert"
    /\ Goto(r, "commit")
    /\ UNCHANGED <<lockVars, req, snap, answer, userActive, attempts, trades, queue, late>>

(* Faulty variant: a refused INSERT is tried again. *)
InsertAgain(r) ==
    /\ pc[r] = "insert"
    /\ \A s \in Pending : ~SameKey(r, s)
    /\ TradesLike(r) = {}
    /\ Goto(r, "commit")
    /\ UNCHANGED <<lockVars, req, snap, answer, userActive, attempts, trades, queue, late>>

(* TradeRepository.create flushes the INSERT.  The unique index makes it    *)
(* wait for an uncommitted row with its key and fail on a committed one.    *)
Insert(r) ==
    /\ pc[r] = "insert"
    /\ \A s \in Pending : ~SameKey(r, s)
    /\ IF TradesLike(r) = {}
         THEN Goto(r, "commit") /\ UNCHANGED answer
         ELSE Leave(r) /\ Reply(r, "ServerError")
    /\ UNCHANGED <<lockVars, req, snap, userActive, attempts, trades, queue, late>>

(* Faulty variant: copies are handed on like a leader's trades. *)
CommitHandsOnCopies(r) ==
    /\ pc[r] = "commit"
    /\ trades' = trades \cup {r}
    /\ Goto(r, "enqueue")
    /\ UNCHANGED <<lockVars, req, snap, answer, userActive, attempts, queue, late>>

(* Faulty variant: the copy flag is read the wrong way round. *)
CommitInvertsCopy(r) ==
    /\ pc[r] = "commit"
    /\ trades' = trades \cup {r}
    /\ IF ~req[r].copy
         THEN Leave(r) /\ Reply(r, r)
         ELSE Goto(r, "enqueue") /\ UNCHANGED answer
    /\ UNCHANGED <<lockVars, req, snap, userActive, attempts, queue, late>>

(* The trade and its notification commit together. *)
Commit(r) ==
    /\ pc[r] = "commit"
    /\ trades' = trades \cup {r}
    /\ IF req[r].copy
         THEN Leave(r) /\ Reply(r, r)
         ELSE Goto(r, "enqueue") /\ UNCHANGED answer
    /\ UNCHANGED <<lockVars, req, snap, userActive, attempts, queue, late>>

(* Faulty variant: an error at COMMIT is swallowed. *)
CommitErrorSwallowed(r) ==
    /\ "db" \in Faults
    /\ pc[r] = "commit"
    /\ Reply(r, r)
    /\ Leave(r)
    /\ trades' \in {trades, trades \cup {r}}
    /\ UNCHANGED <<lockVars, req, snap, userActive, attempts, queue, late>>

(* The database connection breaks, in any transaction of the request: at    *)
(* COMMIT the row may or may not be in.                                     *)
DatabaseFails(r) ==
    /\ "db" \in Faults
    /\ \/ pc[r] \in {"precheck", "busy"} /\ Goto(r, "done") /\ UNCHANGED trades
       \/ pc[r] \in {"recheck", "risk", "loss", "insert"} /\ Leave(r) /\ UNCHANGED trades
       \/ pc[r] = "commit" /\ Leave(r) /\ trades' \in {trades, trades \cup {r}}
    /\ Reply(r, "ServerError")
    /\ UNCHANGED <<lockVars, req, snap, userActive, attempts, queue, late>>

Enqueue(r) ==
    /\ pc[r] = "enqueue"
    /\ queue' = queue \cup {r}
    /\ Reply(r, r)
    /\ Leave(r)
    /\ UNCHANGED <<lockVars, req, snap, userActive, attempts, trades, late>>

EnqueueFails(r) ==
    /\ "celery" \in Faults
    /\ pc[r] = "enqueue"
    /\ Reply(r, "ServerError")
    /\ Leave(r)
    /\ UNCHANGED <<lockVars, req, snap, userActive, attempts, trades, queue, late>>

ExitLock(r) ==
    /\ pc[r] = "unlock"
    /\ \/ ReleaseRedis(r, req[r].key)
       \/ ReleaseLocal(r, req[r].key, req[r].proc)
    /\ Goto(r, "done")
    /\ UNCHANGED <<req, snap, answer, userActive, attempts, trades, queue, late>>

-----------------------------------------------------------------------------
(* The environment.                                                        *)

Crash(p) ==
    /\ "crash" \in Faults
    /\ \E r \in InFlight : req[r].proc = p
    /\ pc' = [r \in Requests |-> IF Running(r) /\ req[r].proc = p THEN "crashed" ELSE pc[r]]
    /\ ForgetLocal(p)
    /\ UNCHANGED <<req, snap, answer, userActive, attempts, trades, queue, late>>

Expire(k) ==
    /\ ExpireRedis(k, Working)
    /\ UNCHANGED <<requestVars, userActive, attempts, trades, queue, late>>

ExpireInProcess(p, k) ==
    /\ ExpireLocal(p, k)
    /\ UNCHANGED <<requestVars, userActive, attempts, trades, queue, late>>

(* ban_or_unban_user *)
SetActive ==
    /\ "ban" \in Faults
    /\ userActive' = ~userActive
    /\ late' = {}
    /\ UNCHANGED <<lockVars, requestVars, attempts, trades, queue>>

(* What a thread does with its request, as long as nothing fails outside.   *)
Proceed(r) ==
    \/ PreCheck(r) \/ EnterLock(r) \/ Busy(r) \/ ReCheck(r)
    \/ CountTrades(r) \/ SumPnl(r) \/ PlaceOrder(r) \/ PlaceOrderAgain(r)
    \/ PlaceOrderFails(r) \/ Insert(r) \/ Commit(r) \/ Enqueue(r) \/ ExitLock(r)

Step(r) == Proceed(r) \/ DatabaseFails(r) \/ EnqueueFails(r)

Next ==
    \/ \E r \in Requests : Arrive(r) \/ Step(r)
    \/ \E p \in Procs : Crash(p)
    \/ \E k \in Keys : Expire(k)
    \/ \E p \in Procs, k \in Keys : ExpireInProcess(p, k)
    \/ SetActive

Spec == Init /\ [][Next]_vars

(* A thread that has a request runs it.  Nobody need send a request, fail,  *)
(* crash or ban, and no lock need ever expire.                              *)
Fairness == \A r \in Requests : WF_vars(Proceed(r))

FairSpec == Spec /\ Fairness

-----------------------------------------------------------------------------
TypeOK ==
    /\ LockTypeOK
    /\ req \in [Requests -> Payloads]
    /\ pc \in [Requests -> PCs]
    /\ snap \in [Requests -> BOOLEAN]
    /\ answer \in [Requests -> Requests \cup Errors \cup {None}]
    /\ userActive \in BOOLEAN
    /\ attempts \in [Requests -> 0..Attempts]
    /\ trades \subseteq Requests
    /\ queue \subseteq Requests
    /\ late \subseteq Requests \X (1..Attempts)

(* A request that got its lock from Redis, and whose token has not expired, *)
(* still owns the key: no other request's exit has deleted it, even one     *)
(* whose own lock expired while it worked (locks.py, the script's token     *)
(* comparison).                                                             *)
LiveTokenKept ==
    \A r \in Working : method[r] = "redis" /\ r \notin lost => redisLock[req[r].key] = r

(* Whatever happens to locks and processes, one idempotency key records one *)
(* trade (execute_trade with the unique index of migration 0005).           *)
OneTradePerKey ==
    \A r, s \in trades : SameKey(r, s) => r = s

(* A request that nothing went wrong for: it had the Redis lock for as long *)
(* as it worked, and it neither died nor ended in an error after the        *)
(* exchange was called.                                                     *)
Clean(r) ==
    /\ method[r] = "redis"
    /\ r \notin lost
    /\ pc[r] # "crashed"
    /\ answer[r] \notin {"BrokerError", "ServerError"}

(* Two requests with one key that nothing went wrong for never both send an *)
(* order: the second check, under the lock, sees the first's trade.         *)
NoCleanDoubleOrder ==
    \A r, s \in Ordered : SameKey(r, s) /\ Clean(r) /\ Clean(s) => r = s

(* A client that is told of a trade is told of a committed one, the same    *)
(* for every request with its key: replay, conflict path and first request. *)
AnswersAgree ==
    /\ \A r \in Requests : answer[r] \in Requests => answer[r] \in trades
    /\ \A r, s \in Requests :
         SameKey(r, s) /\ answer[r] \in Requests /\ answer[s] \in Requests => answer[r] = answer[s]

(* validate_trade counts, then the trade commits later: the day's limit can *)
(* be overshot, but by no more than the other threads' requests.            *)
TradeLimit == Cardinality(trades) <= MaxTrades - 1 + Slots

(* The same for the loss limit: each thread adds at most one loss to a day  *)
(* that was still open.                                                     *)
LossLimit == -RealizedPnl <= MaxLoss - 1 + Slots

(* After a ban only requests that had loaded the user before it still send  *)
(* to the exchange: at most one order per thread, each as often as a call    *)
(* is retried.  This counts what is sent: an attempt that had timed out      *)
(* before the ban may be accepted during it as well.                        *)
BanIsPrompt == ~userActive => Cardinality(late) <= Slots * Attempts

(* A task that replicates a trade finds it committed: it is published only  *)
(* after the commit, for a leader's own trade and not for a copy.           *)
QueueAfterCommit ==
    \A t \in queue : t \in trades /\ ~req[t].copy

(* The promise to clients, stated by IdempotentOrders: the rows of trades   *)
(* are the record, and answers are what clients are told.                   *)
Promise == INSTANCE IdempotentOrders WITH
    key <- [r \in Requests |-> req[r].key],
    recorded <- trades,
    told <- [r \in Requests |-> IF answer[r] \in Errors THEN "error" ELSE answer[r]]

KeepsPromise == Promise!OrdersSpec

(* Every request a thread has taken is answered, unless its process dies:   *)
(* waiting on the unique index and on the lock never lasts.                 *)
EveryRequestEnds ==
    \A r \in Requests : Running(r) ~> pc[r] \in {"done", "crashed"}

(* A leader's committed trade is handed to the copy tasks, unless the       *)
(* process died or the client was told of a server error.                   *)
CommittedTradeIsHandedOn ==
    \A r \in Requests :
        r \in trades /\ ~req[r].copy
            ~> r \in queue \/ pc[r] = "crashed" \/ answer[r] = "ServerError"

=============================================================================

------------------------------ MODULE OrderLock ------------------------------
(***************************************************************************)
(* The lock that keeps two requests with one idempotency key apart         *)
(* (app/core/locks.py).  It is a Redis key holding the token of the request *)
(* that set it, with a time to live; when a Redis call fails and the        *)
(* deployment tolerates that, the lock is an entry in a dictionary of the   *)
(* worker process instead.                                                  *)
(*                                                                         *)
(* The operators below are the lock's operations; TradeExecution conjoins   *)
(* them with the control of the request that performs them.                 *)
(***************************************************************************)
EXTENDS Naturals, FiniteSets

CONSTANTS
    Requests,      \* requests to execute an order; each makes one lock object
    Keys,          \* idempotency keys (one user, one broker)
    Procs,         \* worker processes: each has its own _LOCAL_LOCKS
    None,          \* no token, no key, no answer
    RequireRedis,  \* production with broker_require_redis_for_live_trading
    Faults         \* what the environment may do, see below

(* "redis":   a single Redis command may fail, applied or not               *)
(* "overrun": the TTL may pass while the holder is still working            *)
(* "crash":   a worker process may die                                      *)
(* "db":      a flush or commit may fail                                    *)
(* "celery":  publishing a task may fail                                    *)
(* "ban":     an administrator may ban and unban the user                   *)
FaultKinds == {"redis", "overrun", "crash", "db", "celery", "ban"}

ASSUME NoneAssumption == None \notin Requests /\ None \notin Keys
ASSUME RequireRedisAssumption == RequireRedis \in BOOLEAN

VARIABLES
    redisLock,  \* the Redis key lock:order:<key>: the token stored, or None
    localLock,  \* _LOCAL_LOCKS of each process: an expiry per key, no owner
    method,     \* how a request got its lock: _uses_redis, or locally
    lost        \* history: requests whose token Redis expired

lockVars == <<redisLock, localLock, method, lost>>

LocalEntries == {"absent", "live", "expired"}
Methods == {"none", "redis", "local"}

LockTypeOK ==
    /\ redisLock \in [Keys -> Requests \cup {None}]
    /\ localLock \in [Procs -> [Keys -> LocalEntries]]
    /\ method \in [Requests -> Methods]
    /\ lost \subseteq Requests

LockInit ==
    /\ redisLock = [k \in Keys |-> None]
    /\ localLock = [p \in Procs |-> [k \in Keys |-> "absent"]]
    /\ method = [r \in Requests |-> "none"]
    /\ lost = {}

-----------------------------------------------------------------------------
(* __enter__: SET key token NX EX ttl                                       *)

AcquireRedis(r, k) ==
    /\ redisLock[k] = None
    /\ redisLock' = [redisLock EXCEPT ![k] = r]
    /\ method' = [method EXCEPT ![r] = "redis"]
    /\ UNCHANGED <<localLock, lost>>

RefusedByRedis(k) ==
    /\ redisLock[k] # None
    /\ UNCHANGED lockVars

(* The SET raises RedisError.  The server may have applied it all the same: *)
(* then a token nobody will delete stays until its TTL.                     *)
SetFails(r, k) ==
    /\ "redis" \in Faults
    /\ \/ UNCHANGED redisLock
       \/ redisLock[k] = None /\ redisLock' = [redisLock EXCEPT ![k] = r]

(* Without Redis a process-local entry decides, unless Redis is required.   *)
AcquireLocal(r, k, p) ==
    /\ ~RequireRedis
    /\ SetFails(r, k)
    /\ localLock[p][k] # "live"
    /\ localLock' = [localLock EXCEPT ![p][k] = "live"]
    /\ method' = [method EXCEPT ![r] = "local"]
    /\ UNCHANGED lost

RefusedLocally(r, k, p) ==
    /\ ~RequireRedis
    /\ SetFails(r, k)
    /\ localLock[p][k] = "live"
    /\ UNCHANGED <<localLock, method, lost>>

(* LockUnavailableError *)
Unavailable(r, k) ==
    /\ RequireRedis
    /\ SetFails(r, k)
    /\ UNCHANGED <<localLock, method, lost>>

-----------------------------------------------------------------------------
(* __exit__: delete the Redis key if it still holds this token; an error is *)
(* logged and ignored.  The local entry is popped whoever made it.          *)

(* Faulty variant: the key is deleted whatever token it holds. *)
DeleteAnyToken(r, k) ==
    redisLock' = [redisLock EXCEPT ![k] = None]

(* Faulty variant: the token is overwritten instead of deleted. *)
OverwriteToken(r, k) ==
    redisLock' = [redisLock EXCEPT ![k] = IF @ = r THEN "" ELSE @]

DeleteIfToken(r, k) ==
    redisLock' = [redisLock EXCEPT ![k] = IF @ = r THEN None ELSE @]

ReleaseRedis(r, k) ==
    /\ method[r] = "redis"
    /\ \/ DeleteIfToken(r, k)
       \/ "redis" \in Faults /\ UNCHANGED redisLock
    /\ UNCHANGED <<localLock, method, lost>>

ReleaseLocal(r, k, p) ==
    /\ method[r] = "local"
    /\ localLock' = [localLock EXCEPT ![p][k] = "absent"]
    /\ UNCHANGED <<redisLock, method, lost>>

-----------------------------------------------------------------------------
(* Time passes.  "working" is the set of requests between __enter__ and     *)
(* __exit__: only an overrun outlives the TTL of a lock in use.             *)

ExpireRedis(k, working) ==
    /\ redisLock[k] # None
    /\ redisLock[k] \in working => "overrun" \in Faults
    /\ redisLock' = [redisLock EXCEPT ![k] = None]
    /\ lost' = lost \cup {redisLock[k]}
    /\ UNCHANGED <<localLock, method>>

ExpireLocal(p, k) ==
    /\ "overrun" \in Faults
    /\ localLock[p][k] = "live"
    /\ localLock' = [localLock EXCEPT ![p][k] = "expired"]
    /\ UNCHANGED <<redisLock, method, lost>>

(* A process that dies takes its dictionary with it, and no Redis key.      *)
ForgetLocal(p) ==
    /\ localLock' = [localLock EXCEPT ![p] = [k \in Keys |-> "absent"]]
    /\ UNCHANGED <<redisLock, method, lost>>

=============================================================================

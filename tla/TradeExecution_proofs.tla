------------------------ MODULE TradeExecution_proofs ------------------------
(* Theorems about TradeExecution, for any number of requests, keys, processes *)
(* and threads and for every set of faults.                                   *)
EXTENDS TradeInvariants, FiniteSetTheorems, TLAPS

USE DEF Goto, Reply, Leave

LEMMA TypeInit == Init => TypeOK
  BY AttemptsAssumption DEF Init, TypeOK, LockInit, LockTypeOK, PCs, LocalEntries, Methods

LEMMA LockStepType ==
  ASSUME LockTypeOK, NEW r \in Requests, NEW k, NEW p \in Procs,
         \/ AcquireRedis(r, k) \/ AcquireLocal(r, k, p)
         \/ RefusedByRedis(k) \/ RefusedLocally(r, k, p) \/ Unavailable(r, k)
         \/ ReleaseRedis(r, k) \/ ReleaseLocal(r, k, p)
  PROVE  LockTypeOK'
  <1> USE DEF LockTypeOK, LocalEntries, Methods
  <1>1. CASE AcquireRedis(r, k)
    BY <1>1 DEF AcquireRedis
  <1>2. CASE AcquireLocal(r, k, p)
    BY <1>2 DEF AcquireLocal, SetFails
  <1>3. CASE RefusedByRedis(k)
    BY <1>3 DEF RefusedByRedis, lockVars
  <1>4. CASE RefusedLocally(r, k, p)
    BY <1>4 DEF RefusedLocally, SetFails
  <1>5. CASE Unavailable(r, k)
    BY <1>5 DEF Unavailable, SetFails
  <1>6. CASE ReleaseRedis(r, k)
    BY <1>6 DEF ReleaseRedis, DeleteIfToken
  <1>7. CASE ReleaseLocal(r, k, p)
    BY <1>7 DEF ReleaseLocal
  <1> QED BY <1>1, <1>2, <1>3, <1>4, <1>5, <1>6, <1>7

(* An attempt stays within the retries of its call. *)
LEMMA SendType ==
  ASSUME TypeOK, NEW r \in Requests, Send(r)
  PROVE  attempts' \in [Requests -> 0..Attempts] /\ late' \subseteq Requests \X (1..Attempts)
  <1>1. attempts[r] + 1 \in 1..Attempts
    BY AttemptsAssumption DEF TypeOK, Send
  <1>2. attempts' \in [Requests -> 0..Attempts]
    BY <1>1 DEF TypeOK, Send
  <1>3. <<r, attempts[r] + 1>> \in Requests \X (1..Attempts)
    BY <1>1
  <1> QED BY <1>2, <1>3 DEF TypeOK, Send

LEMMA TypeStep == TypeOK /\ [Next]_vars => TypeOK'
  <1> SUFFICES ASSUME TypeOK, [Next]_vars PROVE TypeOK'
    OBVIOUS
  <1> USE DEF TypeOK, PCs, Errors
  <1>pl. ASSUME NEW r \in Requests
         PROVE  req[r].proc \in Procs
    BY PayloadsAssumption DEF Payload
  <1>1. ASSUME NEW r \in Requests, Arrive(r) PROVE TypeOK'
    BY <1>1 DEF Arrive, lockVars, LockTypeOK
  <1>2. ASSUME NEW r \in Requests, PreCheck(r) \/ ReCheck(r) PROVE TypeOK'
    BY <1>2 DEF PreCheck, ReCheck, LookUp, TradesLike, lockVars, LockTypeOK
  <1>4. ASSUME NEW r \in Requests, Busy(r) PROVE TypeOK'
    BY <1>4 DEF Busy, TradesLike, lockVars, LockTypeOK
  <1>5. ASSUME NEW r \in Requests, CountTrades(r) \/ SumPnl(r) PROVE TypeOK'
    BY <1>5 DEF CountTrades, SumPnl, lockVars, LockTypeOK
  <1>6. ASSUME NEW r \in Requests, PlaceOrder(r) \/ PlaceOrderAgain(r) \/ PlaceOrderFails(r) PROVE TypeOK'
    <2>1. attempts' \in [Requests -> 0..Attempts] /\ late' \subseteq Requests \X (1..Attempts)
      BY <1>6, SendType DEF PlaceOrder, PlaceOrderAgain, PlaceOrderFails
    <2> QED BY <1>6, <2>1 DEF PlaceOrder, PlaceOrderAgain, PlaceOrderFails, lockVars, LockTypeOK
  <1>7. ASSUME NEW r \in Requests, Insert(r) PROVE TypeOK'
    BY <1>7 DEF Insert, lockVars, LockTypeOK
  <1>8. ASSUME NEW r \in Requests, Commit(r) \/ DatabaseFails(r) PROVE TypeOK'
    BY <1>8 DEF Commit, DatabaseFails, lockVars, LockTypeOK
  <1>9. ASSUME NEW r \in Requests, Enqueue(r) \/ EnqueueFails(r) PROVE TypeOK'
    <2>1. CASE Enqueue(r)
      BY <2>1 DEF Enqueue, lockVars, LockTypeOK
    <2>2. CASE EnqueueFails(r)
      BY <2>2 DEF EnqueueFails, lockVars, LockTypeOK
    <2> QED BY <1>9, <2>1, <2>2
  <1>3. ASSUME NEW r \in Requests, EnterLock(r) PROVE TypeOK'
    <2>1. LockTypeOK'
      BY <1>pl, <1>3, LockStepType DEF EnterLock
    <2> QED BY <2>1, <1>3 DEF EnterLock
  <1>10. ASSUME NEW r \in Requests, ExitLock(r) PROVE TypeOK'
    <2>1. LockTypeOK'
      BY <1>pl, <1>10, LockStepType DEF ExitLock
    <2> QED BY <2>1, <1>10 DEF ExitLock
  <1>11. ASSUME NEW p \in Procs, Crash(p) PROVE TypeOK'
    BY <1>11 DEF Crash, ForgetLocal, LockTypeOK, LocalEntries
  <1>12. ASSUME NEW k \in Keys, Expire(k) PROVE TypeOK'
    BY <1>12 DEF Expire, ExpireRedis, requestVars, LockTypeOK
  <1>13. ASSUME NEW p \in Procs, NEW k \in Keys, ExpireInProcess(p, k) PROVE TypeOK'
    BY <1>13 DEF ExpireInProcess, ExpireLocal, requestVars, LockTypeOK, LocalEntries
  <1>14. CASE SetActive
    BY <1>14 DEF SetActive, lockVars, requestVars, LockTypeOK
  <1>15. CASE UNCHANGED vars
    BY <1>15 DEF vars, lockVars, requestVars, LockTypeOK
  <1> QED
    BY <1>1, <1>2, <1>3, <1>4, <1>5, <1>6, <1>7, <1>8, <1>9, <1>10, <1>11,
       <1>12, <1>13, <1>14, <1>15 DEF Next, Step, Proceed

(* Every variable keeps its type, whatever the environment does. *)
THEOREM TypeCorrect == Spec => []TypeOK
  BY TypeInit, TypeStep, PTL DEF Spec

-----------------------------------------------------------------------------
LEMMA ProgressStep == TypeOK /\ Progress /\ [Next]_vars => Progress'
  <1> SUFFICES ASSUME TypeOK, Progress, [Next]_vars PROVE Progress'
    OBVIOUS
  <1>t. TypeOK'
    BY TypeStep
  <1> USE NoneAssumption, AnswersAssumption
      DEF Progress, Early, Ordered, TypeOK, PCs, Errors, SameKey, Keyed
  <1>1. ASSUME NEW r \in Requests, Arrive(r) PROVE Progress'
    BY <1>1, <1>t DEF Arrive, lockVars
  <1>2. ASSUME NEW r \in Requests, PreCheck(r) \/ ReCheck(r) PROVE Progress'
    BY <1>2, <1>t DEF PreCheck, ReCheck, LookUp, TradesLike, lockVars
  <1>3. ASSUME NEW r \in Requests, EnterLock(r) PROVE Progress'
    BY <1>3, <1>t DEF EnterLock, AcquireRedis, AcquireLocal, RefusedByRedis, RefusedLocally,
        Unavailable, SetFails, lockVars
  <1>4. ASSUME NEW r \in Requests, Busy(r) PROVE Progress'
    BY <1>4, <1>t DEF Busy, TradesLike, lockVars
  <1>5. ASSUME NEW r \in Requests, CountTrades(r) \/ SumPnl(r) PROVE Progress'
    BY <1>5, <1>t DEF CountTrades, SumPnl, lockVars
  <1>6. ASSUME NEW r \in Requests, PlaceOrder(r) \/ PlaceOrderAgain(r) \/ PlaceOrderFails(r) PROVE Progress'
    BY <1>6, <1>t DEF PlaceOrder, PlaceOrderAgain, PlaceOrderFails, Send, lockVars
  <1>7. ASSUME NEW r \in Requests, Insert(r) PROVE Progress'
    BY <1>7, <1>t DEF Insert, TradesLike, lockVars
  <1>8. ASSUME NEW r \in Requests, Commit(r) \/ DatabaseFails(r) PROVE Progress'
    BY <1>8, <1>t DEF Commit, DatabaseFails, lockVars
  <1>9. ASSUME NEW r \in Requests, Enqueue(r) \/ EnqueueFails(r) PROVE Progress'
    BY <1>9, <1>t DEF Enqueue, EnqueueFails, lockVars
  <1>10. ASSUME NEW r \in Requests, ExitLock(r) PROVE Progress'
    BY <1>10, <1>t DEF ExitLock, ReleaseRedis, ReleaseLocal, DeleteIfToken, lockVars
  <1>11. ASSUME NEW p \in Procs, Crash(p) PROVE Progress'
    BY <1>11, <1>t DEF Crash, ForgetLocal, Running
  <1>12. ASSUME NEW k \in Keys, Expire(k) PROVE Progress'
    BY <1>12, <1>t DEF Expire, requestVars, ExpireRedis
  <1>13. ASSUME NEW p \in Procs, NEW k \in Keys, ExpireInProcess(p, k) PROVE Progress'
    BY <1>13, <1>t DEF ExpireInProcess, requestVars, ExpireLocal
  <1>14. CASE SetActive
    BY <1>14, <1>t DEF SetActive, lockVars, requestVars
  <1>15. CASE UNCHANGED vars
    BY <1>15, <1>t DEF vars, lockVars, requestVars
  <1> QED
    BY <1>1, <1>2, <1>3, <1>4, <1>5, <1>6, <1>7, <1>8, <1>9, <1>10, <1>11,
       <1>12, <1>13, <1>14, <1>15 DEF Next, Step, Proceed

LEMMA UniqueIndexStep ==
  TypeOK /\ Progress /\ UniqueIndex /\ [Next]_vars => UniqueIndex'
  <1> SUFFICES ASSUME TypeOK, Progress, UniqueIndex, [Next]_vars PROVE UniqueIndex'
    OBVIOUS
  <1>t. TypeOK'
    BY TypeStep
  <1> USE DEF UniqueIndex, Pending, TypeOK, PCs, SameKey, Keyed
  <1>1. ASSUME NEW r \in Requests, Arrive(r) PROVE UniqueIndex'
    BY <1>1, <1>t DEF Arrive, lockVars
  <1>2. ASSUME NEW r \in Requests, PreCheck(r) \/ ReCheck(r) PROVE UniqueIndex'
    BY <1>2, <1>t DEF PreCheck, ReCheck, LookUp, TradesLike, lockVars
  <1>3. ASSUME NEW r \in Requests, EnterLock(r) PROVE UniqueIndex'
    BY <1>3, <1>t DEF EnterLock, AcquireRedis, AcquireLocal, RefusedByRedis, RefusedLocally,
        Unavailable, SetFails, lockVars
  <1>4. ASSUME NEW r \in Requests, Busy(r) PROVE UniqueIndex'
    BY <1>4, <1>t DEF Busy, TradesLike, lockVars
  <1>5. ASSUME NEW r \in Requests, CountTrades(r) \/ SumPnl(r) PROVE UniqueIndex'
    BY <1>5, <1>t DEF CountTrades, SumPnl, lockVars
  <1>6. ASSUME NEW r \in Requests, PlaceOrder(r) \/ PlaceOrderAgain(r) \/ PlaceOrderFails(r) PROVE UniqueIndex'
    BY <1>6, <1>t DEF PlaceOrder, PlaceOrderAgain, PlaceOrderFails, Send, lockVars
  <1>7. ASSUME NEW r \in Requests, Insert(r) PROVE UniqueIndex'
    BY <1>7, <1>t DEF Insert, TradesLike, lockVars
  <1>8. ASSUME NEW r \in Requests, Commit(r) \/ DatabaseFails(r) PROVE UniqueIndex'
    BY <1>8, <1>t DEF Commit, DatabaseFails, lockVars
  <1>9. ASSUME NEW r \in Requests, Enqueue(r) \/ EnqueueFails(r) PROVE UniqueIndex'
    BY <1>9, <1>t DEF Enqueue, EnqueueFails, lockVars
  <1>10. ASSUME NEW r \in Requests, ExitLock(r) PROVE UniqueIndex'
    BY <1>10, <1>t DEF ExitLock, ReleaseRedis, ReleaseLocal, DeleteIfToken, lockVars
  <1>11. ASSUME NEW p \in Procs, Crash(p) PROVE UniqueIndex'
    BY <1>11, <1>t DEF Crash, ForgetLocal, Running
  <1>12. ASSUME NEW k \in Keys, Expire(k) PROVE UniqueIndex'
    BY <1>12, <1>t DEF Expire, requestVars, ExpireRedis
  <1>13. ASSUME NEW p \in Procs, NEW k \in Keys, ExpireInProcess(p, k) PROVE UniqueIndex'
    BY <1>13, <1>t DEF ExpireInProcess, requestVars, ExpireLocal
  <1>14. CASE SetActive
    BY <1>14, <1>t DEF SetActive, lockVars, requestVars
  <1>15. CASE UNCHANGED vars
    BY <1>15, <1>t DEF vars, lockVars, requestVars
  <1> QED
    BY <1>1, <1>2, <1>3, <1>4, <1>5, <1>6, <1>7, <1>8, <1>9, <1>10, <1>11,
       <1>12, <1>13, <1>14, <1>15 DEF Next, Step, Proceed

(* Entering the lock stores a token only where there is none. *)
LEMMA EnterLockToken ==
  ASSUME NEW r \in Requests, EnterLock(r)
  PROVE  \/ redisLock' = redisLock
         \/ /\ redisLock[req[r].key] = None
            /\ redisLock' = [redisLock EXCEPT ![req[r].key] = r]
  <1> DEFINE k == req[r].key
             p == req[r].proc
             Stored == redisLock[k] = None /\ redisLock' = [redisLock EXCEPT ![k] = r]
  <1>1. AcquireRedis(r, k) => Stored
    BY DEF AcquireRedis
  <1>2. SetFails(r, k) => redisLock' = redisLock \/ Stored
    BY DEF SetFails
  <1>3. AcquireLocal(r, k, p) \/ RefusedLocally(r, k, p) \/ Unavailable(r, k) => SetFails(r, k)
    BY DEF AcquireLocal, RefusedLocally, Unavailable
  <1>4. RefusedByRedis(k) => redisLock' = redisLock
    BY DEF RefusedByRedis, lockVars
  <1>5. \/ AcquireRedis(r, k) \/ AcquireLocal(r, k, p) \/ RefusedByRedis(k)
        \/ RefusedLocally(r, k, p) \/ Unavailable(r, k)
    BY DEF EnterLock
  <1> HIDE DEF k, p, Stored
  <1>6. redisLock' = redisLock \/ Stored
    BY <1>1, <1>2, <1>3, <1>4, <1>5
  <1> QED BY <1>6 DEF Stored, k

LEMMA LiveTokenStep == TypeOK /\ LiveTokenKept /\ [Next]_vars => LiveTokenKept'
  <1> SUFFICES ASSUME TypeOK, LiveTokenKept, [Next]_vars PROVE LiveTokenKept'
    OBVIOUS
  <1>t. TypeOK'
    BY TypeStep
  <1>k. \A s \in Requests : Keyed(s) => req[s].key \in Keys
    BY PayloadsAssumption DEF Keyed, Payload, TypeOK
  <1> USE NoneAssumption DEF LiveTokenKept, Working, Locked, Keyed, TypeOK, LockTypeOK, PCs
  <1>1. ASSUME NEW r \in Requests, Arrive(r) PROVE LiveTokenKept'
    BY <1>1, <1>t DEF Arrive, lockVars
  <1>2. ASSUME NEW r \in Requests, PreCheck(r) \/ ReCheck(r) PROVE LiveTokenKept'
    BY <1>2, <1>t DEF PreCheck, ReCheck, LookUp, TradesLike, lockVars
  <1>3. ASSUME NEW r \in Requests, EnterLock(r) PROVE LiveTokenKept'
    <2>1. SUFFICES ASSUME NEW s \in Working', method'[s] = "redis", s \notin lost'
                   PROVE  redisLock'[req'[s].key] = s
      BY DEF LiveTokenKept
    <2>2. req' = req /\ lost' = lost /\ req[s].key \in Keys
      BY <1>3, <1>k, <2>1 DEF EnterLock, AcquireRedis, AcquireLocal, RefusedByRedis,
           RefusedLocally, Unavailable, lockVars
    <2>3. CASE s = r
      BY <1>3, <2>1, <2>2, <2>3 DEF EnterLock, AcquireRedis, AcquireLocal, RefusedByRedis,
           RefusedLocally, Unavailable, lockVars
    <2>4. CASE s # r
      <3>1. redisLock[req[s].key] = s
        BY <1>3, <2>1, <2>2, <2>4 DEF EnterLock, AcquireRedis, AcquireLocal,
             RefusedByRedis, RefusedLocally, Unavailable, lockVars
      <3>2. \/ redisLock' = redisLock
            \/ /\ redisLock[req[r].key] = None
               /\ redisLock' = [redisLock EXCEPT ![req[r].key] = r]
        BY <1>3, EnterLockToken
      <3> QED BY <2>1, <2>2, <3>1, <3>2
    <2> QED BY <2>3, <2>4
  <1>4. ASSUME NEW r \in Requests, Busy(r) PROVE LiveTokenKept'
    BY <1>4, <1>t DEF Busy, TradesLike, lockVars
  <1>5. ASSUME NEW r \in Requests, CountTrades(r) \/ SumPnl(r) PROVE LiveTokenKept'
    BY <1>5, <1>t DEF CountTrades, SumPnl, lockVars
  <1>6. ASSUME NEW r \in Requests, PlaceOrder(r) \/ PlaceOrderAgain(r) \/ PlaceOrderFails(r) PROVE LiveTokenKept'
    BY <1>6, <1>t DEF PlaceOrder, PlaceOrderAgain, PlaceOrderFails, Send, lockVars
  <1>7. ASSUME NEW r \in Requests, Insert(r) PROVE LiveTokenKept'
    BY <1>7, <1>t DEF Insert, TradesLike, lockVars
  <1>8. ASSUME NEW r \in Requests, Commit(r) \/ DatabaseFails(r) PROVE LiveTokenKept'
    BY <1>8, <1>t DEF Commit, DatabaseFails, lockVars
  <1>9. ASSUME NEW r \in Requests, Enqueue(r) \/ EnqueueFails(r) PROVE LiveTokenKept'
    BY <1>9, <1>t DEF Enqueue, EnqueueFails, lockVars
  <1>10. ASSUME NEW r \in Requests, ExitLock(r) PROVE LiveTokenKept'
    <2>1. SUFFICES ASSUME NEW s \in Working', method'[s] = "redis", s \notin lost'
                   PROVE  redisLock'[req'[s].key] = s
      BY DEF LiveTokenKept
    <2>2. s # r /\ redisLock[req[s].key] = s /\ req' = req /\ req[s].key \in Keys
      BY <1>10, <1>k, <2>1 DEF ExitLock, ReleaseRedis, ReleaseLocal
    <2>3. redisLock' = redisLock \/ DeleteIfToken(r, req[r].key)
      BY <1>10 DEF ExitLock, ReleaseRedis, ReleaseLocal
    <2> QED BY <2>2, <2>3 DEF DeleteIfToken
  <1>11. ASSUME NEW p \in Procs, Crash(p) PROVE LiveTokenKept'
    BY <1>11, <1>t DEF Crash, ForgetLocal, Running
  <1>12. ASSUME NEW k \in Keys, Expire(k) PROVE LiveTokenKept'
    BY <1>12, <1>t DEF Expire, requestVars, ExpireRedis
  <1>13. ASSUME NEW p \in Procs, NEW k \in Keys, ExpireInProcess(p, k) PROVE LiveTokenKept'
    BY <1>13, <1>t DEF ExpireInProcess, requestVars, ExpireLocal
  <1>14. CASE SetActive
    BY <1>14, <1>t DEF SetActive, lockVars, requestVars
  <1>15. CASE UNCHANGED vars
    BY <1>15, <1>t DEF vars, lockVars, requestVars
  <1> QED
    BY <1>1, <1>2, <1>3, <1>4, <1>5, <1>6, <1>7, <1>8, <1>9, <1>10, <1>11,
       <1>12, <1>13, <1>14, <1>15 DEF Next, Step, Proceed

LEMMA CleanOrderStep ==
  TypeOK /\ Progress /\ CleanOrderIsRecorded /\ [Next]_vars => CleanOrderIsRecorded'
  <1> SUFFICES ASSUME TypeOK, Progress, CleanOrderIsRecorded, [Next]_vars
               PROVE  CleanOrderIsRecorded'
    OBVIOUS
  <1>t. TypeOK'
    BY TypeStep
  <1> USE DEF CleanOrderIsRecorded, Clean, Ordered, Progress, Early, TypeOK, LockTypeOK, PCs, Keyed
  <1>1. ASSUME NEW r \in Requests, Arrive(r) PROVE CleanOrderIsRecorded'
    BY <1>1, <1>t DEF Arrive, lockVars
  <1>2. ASSUME NEW r \in Requests, PreCheck(r) \/ ReCheck(r) PROVE CleanOrderIsRecorded'
    BY <1>2, <1>t DEF PreCheck, ReCheck, LookUp, TradesLike, lockVars
  <1>3. ASSUME NEW r \in Requests, EnterLock(r) PROVE CleanOrderIsRecorded'
    BY <1>3, <1>t DEF EnterLock, AcquireRedis, AcquireLocal, RefusedByRedis, RefusedLocally,
        Unavailable, SetFails, lockVars
  <1>4. ASSUME NEW r \in Requests, Busy(r) PROVE CleanOrderIsRecorded'
    BY <1>4, <1>t DEF Busy, TradesLike, lockVars
  <1>5. ASSUME NEW r \in Requests, CountTrades(r) \/ SumPnl(r) PROVE CleanOrderIsRecorded'
    BY <1>5, <1>t DEF CountTrades, SumPnl, lockVars
  <1>6. ASSUME NEW r \in Requests, PlaceOrder(r) \/ PlaceOrderAgain(r) \/ PlaceOrderFails(r) PROVE CleanOrderIsRecorded'
    BY <1>6, <1>t DEF PlaceOrder, PlaceOrderAgain, PlaceOrderFails, Send, lockVars
  <1>7. ASSUME NEW r \in Requests, Insert(r) PROVE CleanOrderIsRecorded'
    BY <1>7, <1>t DEF Insert, TradesLike, lockVars
  <1>8. ASSUME NEW r \in Requests, Commit(r) \/ DatabaseFails(r) PROVE CleanOrderIsRecorded'
    BY <1>8, <1>t DEF Commit, DatabaseFails, lockVars
  <1>9. ASSUME NEW r \in Requests, Enqueue(r) \/ EnqueueFails(r) PROVE CleanOrderIsRecorded'
    BY <1>9, <1>t DEF Enqueue, EnqueueFails, lockVars
  <1>10. ASSUME NEW r \in Requests, ExitLock(r) PROVE CleanOrderIsRecorded'
    BY <1>10, <1>t DEF ExitLock, ReleaseRedis, ReleaseLocal, DeleteIfToken, lockVars
  <1>11. ASSUME NEW p \in Procs, Crash(p) PROVE CleanOrderIsRecorded'
    BY <1>11, <1>t DEF Crash, ForgetLocal, Running
  <1>12. ASSUME NEW k \in Keys, Expire(k) PROVE CleanOrderIsRecorded'
    BY <1>12, <1>t DEF Expire, requestVars, ExpireRedis
  <1>13. ASSUME NEW p \in Procs, NEW k \in Keys, ExpireInProcess(p, k) PROVE CleanOrderIsRecorded'
    BY <1>13, <1>t DEF ExpireInProcess, requestVars, ExpireLocal
  <1>14. CASE SetActive
    BY <1>14, <1>t DEF SetActive, lockVars, requestVars
  <1>15. CASE UNCHANGED vars
    BY <1>15, <1>t DEF vars, lockVars, requestVars
  <1> QED
    BY <1>1, <1>2, <1>3, <1>4, <1>5, <1>6, <1>7, <1>8, <1>9, <1>10, <1>11,
       <1>12, <1>13, <1>14, <1>15 DEF Next, Step, Proceed

LEMMA LookupStep ==
  TypeOK /\ Progress /\ LiveTokenKept /\ LookupStillHolds /\ [Next]_vars => LookupStillHolds'
  <1> SUFFICES ASSUME TypeOK, Progress, LiveTokenKept, LookupStillHolds, [Next]_vars
               PROVE  LookupStillHolds'
    OBVIOUS
  <1>t. TypeOK'
    BY TypeStep
  <1> USE DEF LookupStillHolds, Clean, Progress, Early, TypeOK, LockTypeOK, PCs, Keyed, SameKey
  <1>1. ASSUME NEW r \in Requests, Arrive(r) PROVE LookupStillHolds'
    BY <1>1, <1>t DEF Arrive, lockVars
  <1>2. ASSUME NEW r \in Requests, PreCheck(r) \/ ReCheck(r) PROVE LookupStillHolds'
    BY <1>2, <1>t DEF PreCheck, ReCheck, LookUp, TradesLike, lockVars
  <1>3. ASSUME NEW r \in Requests, EnterLock(r) PROVE LookupStillHolds'
    BY <1>3, <1>t DEF EnterLock, AcquireRedis, AcquireLocal, RefusedByRedis, RefusedLocally,
        Unavailable, SetFails, lockVars
  <1>4. ASSUME NEW r \in Requests, Busy(r) PROVE LookupStillHolds'
    BY <1>4, <1>t DEF Busy, TradesLike, lockVars
  <1>5. ASSUME NEW r \in Requests, CountTrades(r) \/ SumPnl(r) PROVE LookupStillHolds'
    BY <1>5, <1>t DEF CountTrades, SumPnl, lockVars
  <1>6. ASSUME NEW r \in Requests, PlaceOrder(r) \/ PlaceOrderAgain(r) \/ PlaceOrderFails(r) PROVE LookupStillHolds'
    BY <1>6, <1>t DEF PlaceOrder, PlaceOrderAgain, PlaceOrderFails, Send, lockVars
  <1>7. ASSUME NEW r \in Requests, Insert(r) PROVE LookupStillHolds'
    <2>1. /\ UNCHANGED <<req, trades, method, lost>>
          /\ \A s \in Requests \ {r} : pc'[s] = pc[s] /\ answer'[s] = answer[s]
      BY <1>7 DEF Insert, lockVars
    <2>2. pc[r] = "insert" /\ r \notin trades
      BY <1>7 DEF Insert
    <2> QED BY <2>1, <2>2
  <1>8. ASSUME NEW r \in Requests, Commit(r) \/ DatabaseFails(r) PROVE LookupStillHolds'
    <2>1. SUFFICES ASSUME NEW q \in Requests, NEW s \in trades',
                          pc'[q] \in {"risk", "loss", "place", "insert", "commit"},
                          method'[q] = "redis", q \notin lost', SameKey(q, s)'
                   PROVE  ~Clean(s)'
      BY DEF LookupStillHolds
    <2>2. /\ UNCHANGED <<req, method, lost, redisLock>>
          /\ trades' \subseteq trades \cup {r}
          /\ \A x \in Requests \ {r} : pc'[x] = pc[x] /\ answer'[x] = answer[x]
          /\ pc'[r] \notin {"risk", "loss", "place", "insert", "commit"}
          /\ pc[r] # "commit" => trades' = trades /\ answer'[r] = "ServerError"
      BY <1>8 DEF Commit, DatabaseFails, lockVars
    <2>3. q # r /\ pc[q] = pc'[q]
      BY <2>1, <2>2
    <2>4. CASE s # r
      BY <2>1, <2>2, <2>3, <2>4
    <2>5. CASE s = r /\ pc[r] # "commit"
      BY <2>2, <2>5
    <2>6. CASE s = r /\ pc[r] = "commit"
      <3>1. r \in Working /\ q \in Working
        BY <2>1, <2>2, <2>3, <2>6 DEF Working, Locked
      <3>2. ASSUME Clean(r)' PROVE FALSE
        <4>1. redisLock[req[r].key] = r /\ redisLock[req[q].key] = q
          BY <2>1, <2>2, <3>1, <3>2 DEF LiveTokenKept
        <4> QED BY <4>1, <2>1, <2>2, <2>3, <2>6
      <3> QED BY <3>2, <2>6
    <2> QED BY <2>4, <2>5, <2>6
  <1>9. ASSUME NEW r \in Requests, Enqueue(r) \/ EnqueueFails(r) PROVE LookupStillHolds'
    <2>1. /\ UNCHANGED <<req, trades, method, lost>>
          /\ \A s \in Requests \ {r} : pc'[s] = pc[s] /\ answer'[s] = answer[s]
          /\ pc'[r] \in {"unlock", "done"}
      BY <1>9 DEF Enqueue, EnqueueFails, lockVars
    <2>2. pc[r] = "enqueue" /\ answer[r] = None
      BY <1>9 DEF Enqueue, EnqueueFails
    <2>3. Clean(r)' => Clean(r)
      BY <2>1, <2>2, AnswersAssumption DEF Errors
    <2> QED BY <2>1, <2>2, <2>3
  <1>10. ASSUME NEW r \in Requests, ExitLock(r) PROVE LookupStillHolds'
    BY <1>10, <1>t DEF ExitLock, ReleaseRedis, ReleaseLocal, DeleteIfToken, lockVars
  <1>11. ASSUME NEW p \in Procs, Crash(p) PROVE LookupStillHolds'
    BY <1>11, <1>t DEF Crash, ForgetLocal, Running
  <1>12. ASSUME NEW k \in Keys, Expire(k) PROVE LookupStillHolds'
    BY <1>12, <1>t DEF Expire, requestVars, ExpireRedis
  <1>13. ASSUME NEW p \in Procs, NEW k \in Keys, ExpireInProcess(p, k) PROVE LookupStillHolds'
    BY <1>13, <1>t DEF ExpireInProcess, requestVars, ExpireLocal
  <1>14. CASE SetActive
    BY <1>14, <1>t DEF SetActive, lockVars, requestVars
  <1>15. CASE UNCHANGED vars
    BY <1>15, <1>t DEF vars, lockVars, requestVars
  <1> QED
    BY <1>1, <1>2, <1>3, <1>4, <1>5, <1>6, <1>7, <1>8, <1>9, <1>10, <1>11,
       <1>12, <1>13, <1>14, <1>15 DEF Next, Step, Proceed

-----------------------------------------------------------------------------
LEMMA KeyInvariant == Spec => []KeyInv
  <1>1. Init => KeyInv
    <2> SUFFICES ASSUME Init PROVE KeyInv
      OBVIOUS
    <2>1. TypeOK
      BY TypeInit
    <2> QED
      BY <2>1, NoneAssumption
      DEF Init, KeyInv, Progress, Early, UniqueIndex, Pending, LiveTokenKept, Working, Locked,
          CleanOrderIsRecorded, LookupStillHolds, Ordered
  <1>2. KeyInv /\ [Next]_vars => KeyInv'
    BY TypeStep, ProgressStep, UniqueIndexStep, LiveTokenStep, CleanOrderStep, LookupStep
    DEF KeyInv
  <1> QED BY <1>1, <1>2, PTL DEF Spec

(* A request whose Redis token has not expired still owns the key: the         *)
(* release script spares it whoever else releases, expires or crashes.         *)
THEOREM LiveTokenIsKept == Spec => []LiveTokenKept
  <1>1. KeyInv => LiveTokenKept
    BY DEF KeyInv
  <1> QED BY <1>1, KeyInvariant, PTL

(* One idempotency key records one trade, for every number of requests and     *)
(* processes, with locks that expire, are lost or are taken twice.             *)
THEOREM OneTradePerKeyAlways == Spec => []OneTradePerKey
  <1>1. KeyInv => OneTradePerKey
    BY DEF KeyInv, UniqueIndex, OneTradePerKey
  <1> QED BY <1>1, KeyInvariant, PTL

(* Two requests with one key that kept their Redis lock and ended without an   *)
(* error never both sent an order.                                             *)
THEOREM NoCleanDoubleOrderEver == Spec => []NoCleanDoubleOrder
  <1>1. KeyInv => NoCleanDoubleOrder
    <2> SUFFICES ASSUME KeyInv, NEW r \in Ordered, NEW s \in Ordered,
                        SameKey(r, s), Clean(r), Clean(s), r # s
                 PROVE  FALSE
      BY DEF NoCleanDoubleOrder
    <2>1. r \in Requests /\ s \in Requests /\ SameKey(s, r)
      BY DEF Ordered, SameKey, Keyed
    <2>2. /\ pc[r] \in {"place", "insert", "commit"} \/ r \in trades
          /\ pc[s] \in {"place", "insert", "commit"} \/ s \in trades
      BY <2>1 DEF KeyInv, CleanOrderIsRecorded, SameKey
    <2>3. CASE pc[r] \in {"place", "insert", "commit"} /\ pc[s] \in {"place", "insert", "commit"}
      BY <2>1, <2>3 DEF KeyInv, LiveTokenKept, Working, Locked, Clean, SameKey, Keyed
    <2>4. CASE r \in trades /\ s \in trades
      BY <2>4 DEF KeyInv, UniqueIndex
    <2>5. CASE pc[r] \in {"place", "insert", "commit"} /\ s \in trades
      BY <2>1, <2>5 DEF KeyInv, LookupStillHolds, Clean
    <2>6. CASE pc[s] \in {"place", "insert", "commit"} /\ r \in trades
      BY <2>1, <2>6 DEF KeyInv, LookupStillHolds, Clean
    <2> QED BY <2>2, <2>3, <2>4, <2>5, <2>6
  <1> QED BY <1>1, KeyInvariant, PTL

(* Every client that is told of a trade is told of the one committed trade of  *)
(* its key.                                                                    *)
THEOREM AnswersAlwaysAgree == Spec => []AnswersAgree
  <1>1. KeyInv => AnswersAgree
    <2> SUFFICES ASSUME KeyInv PROVE AnswersAgree
      OBVIOUS
    <2> USE DEF KeyInv, Progress, SameKey, Keyed
    <2>1. ASSUME NEW r \in Requests, NEW s \in Requests, SameKey(r, s),
                 answer[r] \in Requests, answer[s] \in Requests
          PROVE  answer[r] = answer[s]
      <3>1. /\ answer[r] \in trades /\ answer[s] \in trades
            /\ SameKey(answer[r], answer[s])
        BY <2>1
      <3> QED BY <3>1 DEF UniqueIndex
    <2> QED BY <2>1 DEF AnswersAgree
  <1> QED BY <1>1, KeyInvariant, PTL

(* A replication task is published for committed trades of leaders only. *)
THEOREM QueueFollowsCommit == Spec => []QueueAfterCommit
  <1> DEFINE Inv == TypeOK /\ Progress /\ QueueAfterCommit
  <1>1. Init => QueueAfterCommit
    BY DEF Init, QueueAfterCommit
  <1>2. ASSUME KeyInv, QueueAfterCommit, [Next]_vars PROVE QueueAfterCommit'
    <2>1. ASSUME NEW r \in Requests, Enqueue(r) PROVE QueueAfterCommit'
      BY <1>2, <2>1 DEF Enqueue, QueueAfterCommit, KeyInv, Progress
    <2>2. ASSUME NEW r \in Requests, Arrive(r) \/ (Step(r) /\ ~Enqueue(r))
          PROVE  /\ queue' = queue /\ trades \subseteq trades' /\ req' = req
      BY <1>2, <2>2 DEF Arrive, Step, Proceed, PreCheck, EnterLock, Busy, ReCheck, LookUp, CountTrades, SumPnl,
           PlaceOrder, PlaceOrderAgain, PlaceOrderFails, Insert, Commit, DatabaseFails, EnqueueFails, ExitLock
    <2>3. ASSUME \/ \E p \in Procs : Crash(p)
                 \/ \E k \in Keys : Expire(k)
                 \/ \E p \in Procs, k \in Keys : ExpireInProcess(p, k)
                 \/ SetActive
                 \/ UNCHANGED vars
          PROVE  UNCHANGED <<queue, trades, req>>
      BY <2>3 DEF Crash, Expire, ExpireInProcess, SetActive, vars, requestVars
    <2> QED BY <1>2, <2>1, <2>2, <2>3 DEF Next, QueueAfterCommit
  <1>3. KeyInv /\ QueueAfterCommit /\ [Next]_vars => QueueAfterCommit'
    BY <1>2
  <1> QED BY <1>1, <1>3, KeyInvariant, PTL DEF Spec

-----------------------------------------------------------------------------
(* What a step does to the requests between the count and their commit: it     *)
(* lets one in while the limit is not reached, or one out, or adds none.       *)
LEMMA CountedStep ==
  ASSUME TypeOK, Progress, [Next]_vars
  PROVE  \/ trades' = trades /\ Counted' \subseteq Counted
         \/ \E r \in Counted : Counted' = Counted \ {r} /\ trades' \subseteq trades \cup {r}
         \/ trades' = trades /\ Cardinality(trades) < MaxTrades /\ Counted' \subseteq InFlight'
  <1> USE DEF Counted, TypeOK, PCs
  <1> DEFINE Same == trades' = trades /\ Counted' \subseteq Counted
             Out == \E r \in Counted : Counted' = Counted \ {r} /\ trades' \subseteq trades \cup {r}
             In == trades' = trades /\ Cardinality(trades) < MaxTrades /\ Counted' \subseteq InFlight'
  <1>1. ASSUME NEW r \in Requests, Arrive(r) PROVE Same
    BY <1>1 DEF Arrive
  <1>2. ASSUME NEW r \in Requests,
               PreCheck(r) \/ ReCheck(r) \/ Busy(r) \/ EnterLock(r) \/ ExitLock(r)
        PROVE  Same
    BY <1>2 DEF PreCheck, ReCheck, LookUp, Busy, EnterLock, ExitLock
  <1>3. ASSUME NEW r \in Requests, CountTrades(r) PROVE Same \/ In
    <2>1. CASE MayTrade(r)
      BY <1>3, <2>1 DEF CountTrades, MayTrade, InFlight, Running
    <2>2. CASE ~MayTrade(r)
      BY <1>3, <2>2 DEF CountTrades
    <2> QED BY <2>1, <2>2
  <1>4. ASSUME NEW r \in Requests,
               \/ SumPnl(r) \/ PlaceOrder(r) \/ PlaceOrderAgain(r) \/ PlaceOrderFails(r) \/ Insert(r)
               \/ Enqueue(r) \/ EnqueueFails(r)
        PROVE  Same
    BY <1>4 DEF SumPnl, PlaceOrder, PlaceOrderAgain, PlaceOrderFails, Insert, Enqueue, EnqueueFails
  <1>5. ASSUME NEW r \in Requests, Commit(r) \/ DatabaseFails(r) PROVE Same \/ Out
    <2>1. CASE pc[r] = "commit"
      <3>1. r \in Counted
        BY <2>1
      <3>2. trades' \subseteq trades \cup {r}
        BY <1>5 DEF Commit, DatabaseFails
      <3>3. Counted' = Counted \ {r}
        BY <1>5, <2>1 DEF Commit, DatabaseFails
      <3> QED BY <3>1, <3>2, <3>3
    <2>2. CASE pc[r] # "commit"
      BY <1>5, <2>2 DEF Commit, DatabaseFails
    <2> QED BY <2>1, <2>2
  <1>6. ASSUME NEW p \in Procs, Crash(p) PROVE Same
    BY <1>6 DEF Crash
  <1>7. ASSUME \/ \E k \in Keys : Expire(k)
               \/ \E p \in Procs, k \in Keys : ExpireInProcess(p, k)
               \/ SetActive
               \/ UNCHANGED vars
        PROVE  Same
    BY <1>7 DEF Expire, ExpireInProcess, SetActive, vars, requestVars
  <1> QED BY <1>1, <1>2, <1>3, <1>4, <1>5, <1>6, <1>7 DEF Next, Step, Proceed

(* No step leaves more requests in flight than there are threads. *)
LEMMA InFlightStep ==
  ASSUME TypeOK, Cardinality(InFlight) <= Slots, [Next]_vars
  PROVE  Cardinality(InFlight') <= Slots
  <1> USE DEF InFlight, Running, TypeOK, PCs
  <1>f. /\ IsFiniteSet(InFlight) /\ IsFiniteSet(InFlight')
        /\ Cardinality(InFlight) \in Nat
    BY RequestsAssumption, FS_Subset, FS_CardinalityType
  <1>1. ASSUME NEW r \in Requests, Arrive(r) PROVE Cardinality(InFlight') <= Slots
    <2>1. InFlight' \subseteq InFlight \cup {r}
      BY <1>1 DEF Arrive
    <2>2. Cardinality(InFlight \cup {r}) <= Slots
      <3> HIDE DEF InFlight
      <3>1. Cardinality(InFlight) < Slots
        BY <1>1 DEF Arrive
      <3>2. Cardinality(InFlight \cup {r})
              = IF r \in InFlight THEN Cardinality(InFlight) ELSE Cardinality(InFlight) + 1
        BY <1>f, FS_AddElement
      <3>3. Cardinality(InFlight \cup {r}) \in Nat
        BY <1>f, FS_AddElement, FS_CardinalityType
      <3> QED BY <1>f, <3>1, <3>2, <3>3, SlotsAssumption
    <2>3. /\ Cardinality(InFlight') <= Cardinality(InFlight \cup {r})
          /\ Cardinality(InFlight') \in Nat
          /\ Cardinality(InFlight \cup {r}) \in Nat
      BY <2>1, <1>f, FS_AddElement, FS_Subset, FS_CardinalityType
    <2> QED BY <2>2, <2>3, SlotsAssumption
  <1>2. ASSUME InFlight' \subseteq InFlight PROVE Cardinality(InFlight') <= Slots
    <2>1. Cardinality(InFlight') <= Cardinality(InFlight) /\ Cardinality(InFlight') \in Nat
      BY <1>2, <1>f, FS_Subset, FS_CardinalityType
    <2> QED BY <2>1, <1>f, SlotsAssumption
  <1>3. ASSUME NEW r \in Requests, Step(r) PROVE InFlight' \subseteq InFlight
    BY <1>3 DEF Step, Proceed, PreCheck, EnterLock, Busy, ReCheck, LookUp, CountTrades, SumPnl,
       PlaceOrder, PlaceOrderAgain, PlaceOrderFails, Insert, Commit, DatabaseFails, Enqueue, EnqueueFails, ExitLock
  <1>4. ASSUME NEW p \in Procs, Crash(p) PROVE InFlight' \subseteq InFlight
    BY <1>4 DEF Crash
  <1>5. ASSUME \/ \E k \in Keys : Expire(k)
               \/ \E p \in Procs, k \in Keys : ExpireInProcess(p, k)
               \/ SetActive
               \/ UNCHANGED vars
        PROVE  InFlight' \subseteq InFlight
    BY <1>5 DEF Expire, ExpireInProcess, SetActive, vars, requestVars
  <1> QED BY <1>1, <1>2, <1>3, <1>4, <1>5 DEF Next

LEMMA LimitStep == TypeOK /\ Progress /\ LimitInv /\ [Next]_vars => LimitInv'
  <1> SUFFICES ASSUME TypeOK, Progress, LimitInv, [Next]_vars PROVE LimitInv'
    OBVIOUS
  <1>1. TypeOK'
    BY TypeStep
  <1>2. Cardinality(InFlight') <= Slots
    BY InFlightStep DEF LimitInv
  <1>f. /\ IsFiniteSet(trades) /\ IsFiniteSet(trades') /\ IsFiniteSet(Counted)
        /\ IsFiniteSet(Counted') /\ IsFiniteSet(InFlight')
    BY <1>1, RequestsAssumption, FS_Subset DEF TypeOK, Counted, InFlight
  <1>n. /\ Cardinality(trades) \in Nat /\ Cardinality(trades') \in Nat
        /\ Cardinality(Counted) \in Nat /\ Cardinality(Counted') \in Nat
        /\ Cardinality(InFlight') \in Nat /\ Slots \in Nat /\ MaxTrades \in Nat
    BY <1>f, FS_CardinalityType, SlotsAssumption, LimitsAssumption
  <1> DEFINE Bound == Cardinality(trades) + Cardinality(Counted) <= MaxTrades - 1 + Slots
  <1>3. Bound
    BY DEF LimitInv
  <1>4. CASE trades' = trades /\ Counted' \subseteq Counted
    <2>1. Cardinality(Counted') <= Cardinality(Counted)
      BY <1>4, <1>f, FS_Subset
    <2>2. Bound'
      BY <1>3, <1>4, <1>n, <2>1
    <2> QED BY <1>1, <1>2, <2>2 DEF LimitInv
  <1>5. ASSUME NEW r \in Counted, Counted' = Counted \ {r}, trades' \subseteq trades \cup {r}
        PROVE  LimitInv'
    <2>1. Cardinality(Counted') = Cardinality(Counted) - 1
      BY <1>5, <1>f, FS_RemoveElement
    <2>2. /\ IsFiniteSet(trades \cup {r})
          /\ Cardinality(trades \cup {r}) \in Nat
          /\ Cardinality(trades \cup {r}) <= Cardinality(trades) + 1
      <3>1. IsFiniteSet(trades \cup {r})
        BY <1>f, FS_AddElement
      <3>2. Cardinality(trades \cup {r})
              = IF r \in trades THEN Cardinality(trades) ELSE Cardinality(trades) + 1
        BY <1>f, FS_AddElement
      <3> QED BY <1>n, <3>1, <3>2, FS_CardinalityType
    <2>3. Cardinality(trades') <= Cardinality(trades \cup {r})
      BY <1>5, <2>2, FS_Subset
    <2>4. Bound'
      BY <1>3, <1>n, <2>1, <2>2, <2>3
    <2> QED BY <1>1, <1>2, <2>4 DEF LimitInv
  <1>6. CASE trades' = trades /\ Cardinality(trades) < MaxTrades /\ Counted' \subseteq InFlight'
    <2>1. Cardinality(Counted') <= Cardinality(InFlight')
      BY <1>6, <1>f, FS_Subset
    <2>2. Bound'
      BY <1>2, <1>6, <1>n, <2>1
    <2> QED BY <1>1, <1>2, <2>2 DEF LimitInv
  <1> QED BY <1>4, <1>5, <1>6, CountedStep

(* The number of trades in a day exceeds the user's limit by less than the     *)
(* number of threads, however requests, crashes and errors interleave.         *)
THEOREM TradeLimitHolds == Spec => []TradeLimit
  <1>1. Init => LimitInv
    <2> SUFFICES ASSUME Init PROVE LimitInv
      OBVIOUS
    <2>1. InFlight = {} /\ Counted = {} /\ trades = {}
      BY DEF Init, InFlight, Running, Counted
    <2> QED BY <2>1, TypeInit, FS_EmptySet, SlotsAssumption, LimitsAssumption DEF LimitInv
  <1>2. KeyInv /\ LimitInv /\ [Next]_vars => LimitInv'
    BY LimitStep DEF KeyInv
  <1>3. LimitInv => TradeLimit
    <2> SUFFICES ASSUME LimitInv PROVE TradeLimit
      OBVIOUS
    <2>1. IsFiniteSet(trades) /\ IsFiniteSet(Counted)
      BY RequestsAssumption, FS_Subset DEF LimitInv, TypeOK, Counted
    <2>2. Cardinality(trades) \in Nat /\ Cardinality(Counted) \in Nat
      BY <2>1, FS_CardinalityType
    <2> QED BY <2>2, SlotsAssumption, LimitsAssumption DEF LimitInv, TradeLimit
  <1> QED BY <1>1, <1>2, <1>3, KeyInvariant, PTL DEF Spec

-----------------------------------------------------------------------------
(* How the answer of one request appears to IdempotentOrders. *)
LEMMA AnswerStep ==
  ASSUME TypeOK, Progress, NEW r \in Requests, NEW a \in Requests \cup Errors,
         answer[r] = None, Reply(r, a), req' = req
  PROVE  /\ a \in Errors /\ trades' = trades => Promise!Refuse(r)
         /\ a \in TradesLike(r) /\ trades' = trades => Promise!Tell(r)
         /\ /\ pc[r] = "commit" /\ UniqueIndex
            /\ a = r \/ a \in Errors
            /\ trades' = trades \cup {r}
            => Promise!Record(r)
  <1> DEFINE T(f) == [s \in Requests |-> IF f[s] \in Errors THEN "error" ELSE f[s]]
             what == IF a \in Errors THEN "error" ELSE a
             K == [s \in Requests |-> req[s].key]
  <1>1. T(answer') = [T(answer) EXCEPT ![r] = what]
    BY DEF TypeOK
  <1>2. T(answer)[r] = None
    BY AnswersAssumption DEF TypeOK
  <1>3. [s \in Requests |-> req[s].key]' = K
    OBVIOUS
  <1>4. ASSUME a \in Errors, trades' = trades PROVE Promise!Refuse(r)
    BY <1>1, <1>2, <1>3, <1>4 DEF Promise!Refuse
  <1>5. ASSUME a \in TradesLike(r), trades' = trades PROVE Promise!Tell(r)
    <2>1. a \in trades /\ a \in Requests /\ K[r] # None /\ K[r] = K[a] /\ what = a
      BY <1>5, AnswersAssumption DEF TradesLike, SameKey, Keyed, TypeOK
    <2> QED BY <1>1, <1>2, <1>3, <1>5, <2>1 DEF Promise!Tell, Promise!Alike
  <1>6. ASSUME pc[r] = "commit", UniqueIndex, a = r \/ a \in Errors, trades' = trades \cup {r}
        PROVE  Promise!Record(r)
    <2>1. ASSUME NEW s \in trades PROVE s # r /\ ~(K[r] # None /\ K[r] = K[s])
      BY <1>6, <2>1 DEF Progress, UniqueIndex, Pending, SameKey, Keyed, TypeOK
    <2>2. what \in {None, r, "error"}
      BY <1>6, AnswersAssumption
    <2>3. \A s \in trades : ~Promise!Alike(r, s)
      BY <2>1 DEF Promise!Alike, TypeOK
    <2> QED BY <1>1, <1>2, <1>3, <1>6, <2>2, <2>3 DEF Promise!Record
  <1> QED BY <1>4, <1>5, <1>6

(* A leader's trade is recorded by a step of its own: the answer follows the   *)
(* publication of the replication task.                                        *)
LEMMA SilentRecord ==
  ASSUME TypeOK, Progress, UniqueIndex, NEW r \in Requests, pc[r] = "commit",
         answer' = answer, req' = req, trades' = trades \cup {r}
  PROVE  Promise!Record(r)
  <1> DEFINE told == [s \in Requests |-> IF answer[s] \in Errors THEN "error" ELSE answer[s]]
             K == [s \in Requests |-> req[s].key]
  <1>1. told[r] = None
    BY AnswersAssumption DEF Progress
  <1>2. told' = [told EXCEPT ![r] = None] /\ K' = K
    BY <1>1
  <1>3. ASSUME NEW s \in trades PROVE s # r /\ ~(K[r] # None /\ K[r] = K[s])
    BY <1>3 DEF Progress, UniqueIndex, Pending, SameKey, Keyed, TypeOK
  <1>4. \A s \in trades : ~Promise!Alike(r, s)
    BY <1>3 DEF Promise!Alike, TypeOK
  <1> QED BY <1>1, <1>2, <1>4 DEF Promise!Record

(* Its client is told of its own trade. *)
LEMMA TellOwn ==
  ASSUME TypeOK, NEW r \in Requests, r \in trades, answer[r] = None, Reply(r, r),
         req' = req, trades' = trades
  PROVE  Promise!Tell(r)
  <1> DEFINE told == [s \in Requests |-> IF answer[s] \in Errors THEN "error" ELSE answer[s]]
  <1>1. told[r] = None /\ told' = [told EXCEPT ![r] = r]
    BY AnswersAssumption DEF TypeOK
  <1> QED BY <1>1 DEF Promise!Tell, Promise!Alike

(* TradeExecution implements IdempotentOrders: every step records one trade,   *)
(* tells one client, or is invisible.                                          *)
THEOREM PromiseKept == Spec => KeepsPromise
  <1>1. Init => Promise!OrdersInit
    BY PayloadsAssumption, AnswersAssumption DEF Init, Payload, Promise!OrdersInit
  <1>2. ASSUME KeyInv, [Next]_vars
        PROVE  Promise!OrdersNext \/ UNCHANGED Promise!ordersVars
    <2>t. TypeOK /\ Progress /\ UniqueIndex
      BY <1>2 DEF KeyInv
    <2> DEFINE Still == UNCHANGED <<req, answer, trades>>
               Move == Promise!OrdersNext \/ UNCHANGED Promise!ordersVars
    <2>s. Still => Move
      BY DEF Promise!ordersVars
    <2>n. \A r \in Requests : Promise!Record(r) \/ Promise!Tell(r) \/ Promise!Refuse(r) => Move
      BY DEF Promise!OrdersNext
    <2>a. ASSUME NEW r \in Requests, pc[r] \in Early \cup {"place", "insert", "commit", "enqueue"}
          PROVE  answer[r] = None
      BY <2>a, <2>t DEF Progress
    <2>1. ASSUME NEW r \in Requests, Arrive(r) PROVE Move
      <3>1. Still \/ (req' = req /\ trades' = trades /\ Reply(r, "Forbidden") /\ pc[r] = "idle")
        BY <2>1 DEF Arrive
      <3> QED BY <2>s, <2>n, <2>a, <3>1, <2>t, AnswerStep DEF Errors, Early
    <2>2. ASSUME NEW r \in Requests, PreCheck(r) \/ ReCheck(r) PROVE Move
      <3>1. \/ Still
            \/ /\ req' = req /\ trades' = trades /\ pc[r] \in Early
               /\ \E t \in TradesLike(r) : Reply(r, t)
        BY <2>2 DEF PreCheck, ReCheck, LookUp, Early
      <3> QED BY <2>s, <2>n, <2>a, <3>1, <2>t, AnswerStep DEF TradesLike, TypeOK
    <2>3. ASSUME NEW r \in Requests, EnterLock(r) PROVE Move
      <3>1. Still \/ (req' = req /\ trades' = trades /\ Reply(r, "Unavailable") /\ pc[r] = "lock")
        BY <2>3 DEF EnterLock
      <3> QED BY <2>s, <2>n, <2>a, <3>1, <2>t, AnswerStep DEF Errors, Early
    <2>4. ASSUME NEW r \in Requests, Busy(r) PROVE Move
      <3>1. /\ req' = req /\ trades' = trades /\ pc[r] \in Early
            /\ Reply(r, "Conflict") \/ \E t \in TradesLike(r) : Reply(r, t)
        BY <2>4 DEF Busy, Early
      <3> QED BY <2>s, <2>n, <2>a, <3>1, <2>t, AnswerStep DEF TradesLike, TypeOK, Errors
    <2>5. ASSUME NEW r \in Requests,
                 CountTrades(r) \/ SumPnl(r) \/ PlaceOrder(r) \/ PlaceOrderAgain(r) \/ PlaceOrderFails(r) \/ Insert(r)
          PROVE  Move
      <3>1. \/ Still
            \/ /\ req' = req /\ trades' = trades /\ pc[r] \in {"risk", "loss", "place", "insert"}
               /\ \E a \in Errors : Reply(r, a)
        BY <2>5 DEF CountTrades, SumPnl, PlaceOrder, PlaceOrderAgain, PlaceOrderFails, Insert, Errors
      <3> QED BY <2>s, <2>n, <2>a, <3>1, <2>t, AnswerStep DEF Early
    <2>6. ASSUME NEW r \in Requests, Commit(r) \/ DatabaseFails(r) PROVE Move
      <3>1. CASE pc[r] = "commit" /\ trades' = trades \cup {r}
        <4>1. answer[r] = None /\ req' = req
          BY <2>6, <2>a, <3>1 DEF Commit, DatabaseFails
        <4>2. answer' = answer \/ Reply(r, r) \/ Reply(r, "ServerError")
          BY <2>6 DEF Commit, DatabaseFails
        <4> QED BY <2>n, <3>1, <4>1, <4>2, <2>t, AnswerStep, SilentRecord DEF Errors
      <3>2. CASE ~(pc[r] = "commit" /\ trades' = trades \cup {r})
        <4>1. /\ req' = req /\ trades' = trades /\ Reply(r, "ServerError")
              /\ pc[r] \in Early \cup {"insert", "commit"}
          BY <2>6, <3>2 DEF Commit, DatabaseFails, Early
        <4> QED BY <2>n, <2>a, <4>1, <2>t, AnswerStep DEF Errors
      <3> QED BY <3>1, <3>2
    <2>7. ASSUME NEW r \in Requests, Enqueue(r) PROVE Move
      <3>1. /\ req' = req /\ trades' = trades /\ Reply(r, r) /\ r \in trades
            /\ answer[r] = None
        BY <2>7, <2>a, <2>t DEF Enqueue, Progress
      <3> QED BY <2>n, <2>t, <3>1, TellOwn
    <2>8. ASSUME NEW r \in Requests, EnqueueFails(r) PROVE Move
      <3>1. req' = req /\ trades' = trades /\ Reply(r, "ServerError") /\ answer[r] = None
        BY <2>8, <2>a DEF EnqueueFails
      <3> QED BY <2>n, <3>1, <2>t, AnswerStep DEF Errors
    <2>9. ASSUME NEW r \in Requests, ExitLock(r) PROVE Still
      BY <2>9 DEF ExitLock
    <2>10. ASSUME \/ \E p \in Procs : Crash(p)
                  \/ \E k \in Keys : Expire(k)
                  \/ \E p \in Procs, k \in Keys : ExpireInProcess(p, k)
                  \/ SetActive
                  \/ UNCHANGED vars
           PROVE  Still
      BY <2>10 DEF Crash, Expire, ExpireInProcess, SetActive, vars, requestVars
    <2> QED
      BY <1>2, <2>s, <2>1, <2>2, <2>3, <2>4, <2>5, <2>6, <2>7, <2>8, <2>9, <2>10 DEF Next, Step, Proceed
  <1>3. KeyInv /\ [Next]_vars => [Promise!OrdersNext]_(Promise!ordersVars)
    BY <1>2
  <1> QED BY <1>1, <1>3, KeyInvariant, PTL DEF Spec, KeepsPromise, Promise!OrdersSpec

(* What the promise is worth, whoever keeps it: from IdempotentOrders alone    *)
(* follows that a key records one trade and that answers agree on it.          *)
THEOREM PromiseSuffices ==
  ASSUME "error" \notin Requests
  PROVE  KeepsPromise => [](OneTradePerKey /\ AnswersAgree)
  <1> DEFINE told == [r \in Requests |-> IF answer[r] \in Errors THEN "error" ELSE answer[r]]
             K == [r \in Requests |-> req[r].key]
             Like(r, s) == Promise!Alike(r, s)
             One == trades \subseteq Requests /\ \A r, s \in trades : Like(r, s) => r = s
             Told == \A r \in Requests :
                       told[r] = None \/ told[r] = "error" \/ (told[r] \in trades /\ Like(r, told[r]))
  <1>a. \A r, s \in Requests : Like(r, r) /\ (Like(r, s) <=> r = s \/ SameKey(r, s))
    BY DEF Promise!Alike, SameKey, Keyed
  <1>b. \A r, s \in Requests : Like(r, s) => Like(s, r)
    BY DEF Promise!Alike
  <1>c. K' = K => \A r, s : Like(r, s)' <=> Like(r, s)
    BY DEF Promise!Alike
  <1>d. \A r \in Requests : \A what :
          told' = [told EXCEPT ![r] = what] =>
            told'[r] = what /\ \A s \in Requests \ {r} : told'[s] = told[s]
    OBVIOUS
  <1>e. \A r \in Requests : answer[r] \in Requests => told[r] = answer[r] /\ told[r] # None /\ told[r] # "error"
    BY AnswersAssumption, NoneAssumption
  <1>1. Promise!OrdersInit => One /\ Told
    BY DEF Promise!OrdersInit
  <1>2. One /\ Told /\ [Promise!OrdersNext]_(Promise!ordersVars) => One' /\ Told'
    <2> SUFFICES ASSUME One, Told, [Promise!OrdersNext]_(Promise!ordersVars) PROVE One' /\ Told'
      OBVIOUS
    <2>u. UNCHANGED Promise!ordersVars => K' = K /\ told' = told /\ trades' = trades
      BY DEF Promise!ordersVars
    <2>r. \A r \in Requests : Promise!Record(r) =>
            /\ K' = K /\ trades' = trades \cup {r} /\ \A s \in trades : ~Like(r, s)
            /\ \E what \in {None, r, "error"} : told' = [told EXCEPT ![r] = what]
      BY DEF Promise!Record
    <2>t. \A r \in Requests : Promise!Tell(r) \/ Promise!Refuse(r) =>
            /\ K' = K /\ trades' = trades
            /\ \E what : /\ what = "error" \/ (what \in trades /\ Like(r, what))
                         /\ told' = [told EXCEPT ![r] = what]
      BY DEF Promise!Tell, Promise!Refuse
    <2>1. One /\ Told
      OBVIOUS
    <2> HIDE DEF told, K, Like
    <2>2. CASE UNCHANGED Promise!ordersVars
      BY <1>c, <2>u, <2>1, <2>2
    <2>3. ASSUME NEW r \in Requests, Promise!Record(r) PROVE One' /\ Told'
      <3>1. PICK what \in {None, r, "error"} : told' = [told EXCEPT ![r] = what]
        BY <2>r, <2>3
      <3>2. trades' = trades \cup {r} /\ \A s \in trades : ~Like(r, s)
        BY <2>r, <2>3
      <3>3. \A s, t : Like(s, t)' <=> Like(s, t)
        BY <1>c, <2>r, <2>3
      <3>4. told'[r] = what /\ \A s \in Requests \ {r} : told'[s] = told[s]
        BY <1>d, <3>1
      <3>5. One'
        BY <1>b, <2>1, <3>2, <3>3
      <3>6. Told'
        BY <1>a, <2>1, <3>2, <3>3, <3>4
      <3> QED BY <3>5, <3>6
    <2>4. ASSUME NEW r \in Requests, Promise!Tell(r) \/ Promise!Refuse(r) PROVE One' /\ Told'
      BY <1>c, <1>d, <2>t, <2>1, <2>4
    <2> QED BY <2>2, <2>3, <2>4 DEF Promise!OrdersNext
  <1>3. One /\ Told => OneTradePerKey /\ AnswersAgree
    <2> SUFFICES ASSUME One, Told PROVE OneTradePerKey /\ AnswersAgree
      OBVIOUS
    <2>1. One /\ Told
      OBVIOUS
    <2> HIDE DEF told, Like
    <2>2. OneTradePerKey
      BY <1>a, <2>1 DEF OneTradePerKey
    <2>3. \A r \in Requests : answer[r] \in Requests => answer[r] \in trades /\ Like(r, answer[r])
      BY <1>e, <2>1
    <2>4. ASSUME NEW r \in Requests, NEW s \in Requests,
                 SameKey(r, s), answer[r] \in Requests, answer[s] \in Requests
          PROVE  answer[r] = answer[s]
      <3>1. \A x, y, z \in Requests : Like(x, y) /\ Like(y, z) => Like(x, z)
        BY <1>a DEF SameKey, Keyed
      <3>2. Like(r, s) /\ Like(r, answer[r]) /\ Like(s, answer[s])
        BY <1>a, <2>3, <2>4
      <3>3. Like(answer[r], answer[s])
        BY <1>b, <2>4, <3>1, <3>2
      <3> QED BY <2>1, <2>3, <2>4, <3>3
    <2> QED BY <2>2, <2>3, <2>4 DEF AnswersAgree
  <1> QED BY <1>1, <1>2, <1>3, PTL DEF KeepsPromise, Promise!OrdersSpec

=============================================================================

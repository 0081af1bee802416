-------------------------- MODULE BrokerOrders_proofs --------------------------
(* Theorems about BrokerOrders, for any requests, workloads and faults.       *)
EXTENDS BrokerOrders, WellFoundedInduction, TLAPS

StampsPast == \A a \in Requests : stamp[a] <= clock
Typed == TypeOK /\ StampsPast

(* What the exchange has seen of an order is no more than what was sent.      *)
Unsent == {"idle", "validate", "read", "write", "disconnect", "create", "store", "lookup", "refused"}
Sending ==
    \A q \in Requests :
        /\ accepted[q] + onWire[q] <= sent[q]
        /\ pc[q] = "send" => sent[q] < Attempts
        /\ pc[q] \in Unsent => sent[q] = 0

(* A trade is stored for an accepted order, and a signal before its order.    *)
Recorded ==
    \A q \in Requests :
        /\ Keyed(q) => accepted[q] <= 1
        /\ pc[q] = "record" \/ q \in trades => accepted[q] > 0
        /\ pc[q] = "done" /\ sent[q] > 0 => q \in trades
        /\ kind[q] = "signal" /\ (pc[q] \in {"lookup", "send", "await", "record"} \/ sent[q] > 0)
             => q \in signals

(* Where the operations of each kind can be, and what they have then.         *)
Stages ==
    \A q \in Requests :
        /\ pc[q] \in {"validate", "read", "write"} => kind[q] = "connect"
        /\ pc[q] = "disconnect" => kind[q] = "disconnect"
        /\ pc[q] \in {"create", "store", "lookup", "send", "await", "record"} => kind[q] \in {"order", "signal"}
        /\ pc[q] \in {"idle", "create", "store", "lookup"} => used[q] = Unused
        /\ kind[q] = "connect" /\ loaded[q] # None => pc[q] \in {"write", "done", "failed"}
        /\ \A m \in after[q] : pc[m] \in Over
        /\ q \notin after[q]

(* An account is there once its connect has ended, and no connect that ended  *)
(* before another inserted an account has left one.                          *)
OneAccount ==
    /\ \A a \in Requests :
         /\ active[a] => keys[a] # None
         /\ keys[a] # None => kind[a] = "connect" /\ pc[a] \in {"done", "failed"}
    /\ \A a, b \in Requests : a \in after[b] =>
         /\ pc[b] = "write" /\ loaded[b] = None => ~active[a]
         /\ keys[b] # None => ~active[a]

(* What a connect that loaded an account knows of it and of those before.     *)
Loading ==
    \A c \in Requests : kind[c] = "connect" /\ loaded[c] # None =>
        /\ keys[loaded[c]] # None
        /\ loaded[c] # c
        /\ \A a \in after[c] : keys[a] # None => loaded[c] \notin after[a]
        /\ \A d \in Requests : c \in after[d] => loaded[c] \in after[d]

(* What the answered connects have left in the accounts.                      *)
Connected ==
    /\ \A a \in Requests : keys[a] # None =>
         kind[keys[a]] = "connect" /\ pc[keys[a]] \in {"done", "failed"} /\ a = AccountOf(keys[a])
    /\ \A c \in Requests : kind[c] = "connect" /\ pc[c] = "done" =>
         /\ keys[AccountOf(c)] # None
         /\ keys[AccountOf(c)] \notin after[c]
    /\ \A c \in Requests : kind[c] = "connect" /\ (pc[c] = "done" \/ (pc[c] = "write" /\ loaded[c] # None)) =>
         active[AccountOf(c)] \/ DisconnectedSince(c)

USE DEF Go, Begin, Committed, Over

-----------------------------------------------------------------------------
(* Operators. *)

(* The query for the active account finds one if there is one. *)
LEMMA LastUpdated ==
  ASSUME Typed, Accounts # {}
  PROVE  ActiveForUser \in Accounts
  <1> DEFINE T == {clock - stamp[a] : a \in Accounts}
             R == OpToRel(<, Nat)
  <1>1. T \subseteq Nat /\ T # {}
    <2>1. ASSUME NEW a \in Accounts PROVE clock - stamp[a] \in Nat
      BY DEF Typed, TypeOK, StampsPast, Accounts
    <2> QED BY <2>1
  <1>2. IsWellFoundedOn(R, Nat)
    BY NatLessThanWellFounded
  <1>3. PICK x \in T : \A y \in T : ~(<<y, x>> \in R)
    <2> HIDE DEF T, R
    <2> QED BY <1>1, <1>2, WFMin
  <1>4. \A y \in T : ~(y < x)
    BY <1>1, <1>3 DEF OpToRel
  <1>5. PICK a \in Accounts : x = clock - stamp[a]
    OBVIOUS
  <1>6. ASSUME NEW b \in Accounts PROVE stamp[b] <= stamp[a]
    <2>1. clock - stamp[b] \in T
      OBVIOUS
    <2>2. ~(clock - stamp[b] < clock - stamp[a])
      BY <1>4, <1>5, <2>1
    <2>3. clock \in Nat /\ stamp[a] \in Nat /\ stamp[b] \in Nat
      BY DEF Typed, TypeOK, Accounts
    <2> QED BY <2>2, <2>3
  <1>7. \E c \in Accounts : \A b \in Accounts : stamp[b] <= stamp[c]
    BY <1>6
  <1> QED BY <1>7 DEF ActiveForUser

LEMMA ActiveAccount ==
  ASSUME Typed
  PROVE  /\ ActiveForUser \in Requests \cup {None}
         /\ ActiveForUser = None => Accounts = {}
         /\ ActiveForUser # None => ActiveForUser \in Accounts
  <1>1. Accounts \subseteq Requests
    BY DEF Accounts
  <1>2. CASE Accounts = {}
    BY <1>2 DEF ActiveForUser
  <1>3. CASE Accounts # {}
    BY <1>1, <1>3, LastUpdated, NoneAssumption
  <1> QED BY <1>2, <1>3

-----------------------------------------------------------------------------
(* Types. *)

LEMMA InitTyped == Init => Typed /\ Sending
  <1> SUFFICES ASSUME Init PROVE Typed /\ Sending
    OBVIOUS
  <1>1. active \in [Requests -> BOOLEAN] /\ tagged \in BOOLEAN
    BY Zenon DEF Init
  <1>2. Unused \in Credentials
    BY DEF Unused, Credentials, Urls
  <1>3. Sending
    BY AttemptsAssumption DEF Init, Sending, Unsent
  <1>4. TypeOK
    BY <1>1, <1>2, AttemptsAssumption, WorkloadsAssumption DEF Init, TypeOK, PCs
  <1>5. StampsPast
    BY DEF Init, StampsPast
  <1> QED BY <1>3, <1>4, <1>5 DEF Typed

LEMMA StepTyped == Typed /\ Sending /\ [Next]_vars => Typed' /\ Sending'
  <1> SUFFICES ASSUME Typed, Sending, [Next]_vars PROVE Typed' /\ Sending'
    OBVIOUS
  <1> USE AttemptsAssumption DEF Typed
  <1>a. Ended \subseteq Requests
    BY DEF Ended
  <1> HIDE DEF Ended
  <1>1. ASSUME NEW q \in Requests, StartConnect(q) \/ StartOrder(q) \/ StartSignal(q)
        PROVE  Typed' /\ Sending'
    <2>1. TypeOK'
      BY <1>1, <1>a DEF TypeOK, StartConnect, StartOrder, StartSignal, accountVars, connectVars, exchangeVars, recordVars, PCs
    <2>2. StampsPast' /\ Sending'
      BY <1>1 DEF TypeOK, StartConnect, StartOrder, StartSignal, accountVars, connectVars, exchangeVars, recordVars, StampsPast, Sending, Unsent
    <2> QED BY <2>1, <2>2
  <1>2. ASSUME NEW q \in Requests, Validate(q) PROVE Typed' /\ Sending'
    <2>1. TypeOK'
      BY <1>2 DEF TypeOK, Validate, accountVars, exchangeVars, recordVars, PCs
    <2>2. StampsPast' /\ Sending'
      BY <1>2 DEF TypeOK, Validate, accountVars, exchangeVars, recordVars, StampsPast, Sending, Unsent
    <2> QED BY <2>1, <2>2
  <1>3. ASSUME NEW q \in Requests, LoadAccount(q) PROVE Typed' /\ Sending'
    <2>1. ActiveForUser \in Requests \cup {None}
      BY ActiveAccount
    <2>2. (IF ActiveForUser = None THEN None ELSE url[ActiveForUser]) \in {None, "alternate"}
      BY <2>1 DEF TypeOK
    <2>3. loaded' \in [Requests -> Requests \cup {None}] /\ loadedUrl' \in [Requests -> {None, "alternate"}]
      BY <1>3, <2>1, <2>2 DEF TypeOK, LoadAccount
    <2>4. pc' = [pc EXCEPT ![q] = "write"] /\ pc[q] = "read"
      BY <1>3 DEF LoadAccount
    <2>5. UNCHANGED <<kind, accountVars, selected, exchangeVars, recordVars, after>>
      BY <1>3 DEF LoadAccount
    <2>6. TypeOK'
      BY <2>3, <2>4, <2>5 DEF TypeOK, accountVars, exchangeVars, recordVars, PCs
    <2>7. StampsPast' /\ Sending'
      BY <2>4, <2>5 DEF TypeOK, accountVars, exchangeVars, recordVars, StampsPast, Sending, Unsent
    <2> QED BY <2>6, <2>7
  <1>4. ASSUME NEW a, Touch(a)
        PROVE  stamp' \in [Requests -> Nat] /\ clock' \in Nat /\ StampsPast'
    <2>1. clock \in Nat /\ clock' = clock + 1 /\ stamp' = [stamp EXCEPT ![a] = clock + 1]
      BY <1>4 DEF Touch, TypeOK
    <2>2. \A b \in Requests : stamp[b] \in Nat /\ stamp[b] <= clock
      BY DEF TypeOK, StampsPast
    <2>3. DOMAIN stamp' = Requests
      BY <2>1 DEF TypeOK
    <2>4. \A b \in Requests : stamp'[b] = IF b = a THEN clock + 1 ELSE stamp[b]
      BY <2>1 DEF TypeOK
    <2>5. \A b \in Requests : stamp'[b] \in Nat /\ stamp'[b] <= clock'
      BY <2>1, <2>2, <2>4
    <2>6. stamp' \in [Requests -> Nat]
      <3>1. stamp' = [b \in Requests |-> stamp'[b]]
        BY <2>1, Zenon DEF TypeOK
      <3> QED BY <2>5, <3>1
    <2> QED BY <2>1, <2>5, <2>6 DEF StampsPast
  <1>5. ASSUME NEW q \in Requests, ConnectAccount(q) PROVE Typed' /\ Sending'
    <2>1. /\ keys' \in [Requests -> Requests \cup {None}] /\ url' \in [Requests -> {None, "alternate"}]
          /\ stamp' \in [Requests -> Nat] /\ clock' \in Nat /\ StampsPast'
      BY <1>5, <1>4 DEF TypeOK, ConnectAccount, InsertAccount, UpdateAccount
    <2>2. active' \in [Requests -> BOOLEAN]
      BY <1>5, Zenon DEF TypeOK, ConnectAccount, InsertAccount, UpdateAccount
    <2>3. TypeOK'
      BY <1>5, <2>1, <2>2 DEF TypeOK, ConnectAccount, connectVars, exchangeVars, recordVars, PCs
    <2>4. Sending'
      BY <1>5 DEF TypeOK, ConnectAccount, exchangeVars, Sending, Unsent
    <2> QED BY <2>1, <2>3, <2>4
  <1>6. ASSUME NEW q \in Requests, StartDisconnect(q) PROVE Typed' /\ Sending'
    <2>1. TypeOK'
      BY <1>6, <1>a DEF TypeOK, StartDisconnect, accountVars, exchangeVars, recordVars, PCs
    <2>2. StampsPast' /\ Sending'
      BY <1>6 DEF TypeOK, StartDisconnect, accountVars, exchangeVars, recordVars, StampsPast, Sending, Unsent
    <2> QED BY <2>1, <2>2
  <1>7. ASSUME NEW q \in Requests, DisconnectAccount(q) PROVE Typed' /\ Sending'
    <2>1. stamp' \in [Requests -> Nat] /\ clock' \in Nat /\ StampsPast'
      BY <1>7, <1>4 DEF DisconnectAccount
    <2>2. active' \in [Requests -> BOOLEAN]
      BY <1>7, Zenon DEF TypeOK, DisconnectAccount
    <2>3. TypeOK'
      BY <1>7, <2>1, <2>2 DEF TypeOK, DisconnectAccount, connectVars, exchangeVars, recordVars, PCs
    <2>4. Sending'
      BY <1>7 DEF TypeOK, DisconnectAccount, exchangeVars, Sending, Unsent
    <2> QED BY <2>1, <2>3, <2>4
  <1>8. ASSUME NEW q \in Requests, StoreSignal(q) PROVE Typed' /\ Sending'
    <2>1. tagged' \in BOOLEAN
      BY <1>8, Zenon DEF TypeOK, StoreSignal, recordVars
    <2>2. signals' \subseteq Requests /\ trades' \subseteq Requests /\ pc' \in [Requests -> PCs]
      BY <1>8 DEF TypeOK, StoreSignal, recordVars, PCs
    <2>3. TypeOK'
      BY <1>8, <2>1, <2>2 DEF TypeOK, StoreSignal, accountVars, connectVars, exchangeVars
    <2>4. StampsPast' /\ Sending'
      BY <1>8 DEF TypeOK, StoreSignal, accountVars, exchangeVars, StampsPast, Sending, Unsent
    <2> QED BY <2>3, <2>4
  <1>9. ASSUME NEW q \in Requests, GetActiveClient(q) PROVE Typed' /\ Sending'
    <2>1. ActiveForUser \in Requests \cup {None}
      BY ActiveAccount
    <2>2. \A u \in {None, "alternate"} : BaseUrl(u) \in Urls
      BY DEF BaseUrl, Urls
    <2>3. BaseUrl(None) \in Urls
      BY <2>2
    <2>4. (IF ActiveForUser = None THEN [keys |-> "platform", url |-> BaseUrl(None)]
                  ELSE [keys |-> keys[ActiveForUser], url |-> BaseUrl(url[ActiveForUser])]) \in Credentials
      BY <2>1, <2>2, <2>3 DEF Credentials, TypeOK
    <2>5. used' \in [Requests -> Credentials]
      BY <1>9, <2>4 DEF GetActiveClient, TypeOK
    <2>6. /\ pc[q] = "lookup" /\ pc' \in {[pc EXCEPT ![q] = "failed"], [pc EXCEPT ![q] = "send"]}
          /\ UNCHANGED <<kind, accountVars, connectVars, sent, onWire, accepted, recordVars, after>>
      BY <1>9 DEF GetActiveClient
    <2>7. TypeOK'
      BY <2>5, <2>6 DEF TypeOK, accountVars, connectVars, recordVars, PCs
    <2>8. StampsPast' /\ Sending'
      BY <2>6 DEF TypeOK, accountVars, StampsPast, Sending, Unsent
    <2> QED BY <2>7, <2>8
  <1>10. ASSUME NEW q \in Requests, UNCHANGED <<kind, accountVars, connectVars, used, tagged, signals, after>>,
                trades' \subseteq Requests, pc' \in [Requests -> PCs], Sending',
                sent' \in [Requests -> 0..Attempts], onWire' \in [Requests -> Nat], accepted' \in [Requests -> Nat]
         PROVE  Typed'
    <2>1. \A r \in Requests : accepted'[r] + onWire'[r] <= Attempts
      BY <1>10 DEF Sending
    <2>2. onWire' \in [Requests -> 0..Attempts] /\ accepted' \in [Requests -> 0..Attempts]
      BY <1>10, <2>1
    <2>3. TypeOK'
      BY <1>10, <2>2 DEF TypeOK, accountVars, connectVars
    <2> QED BY <1>10, <2>3 DEF StampsPast, accountVars
  <1>11. ASSUME NEW q \in Requests, Receive(q)
         PROVE  /\ onWire' \in [Requests -> Nat] /\ accepted' \in [Requests -> Nat]
                /\ \A r \in Requests : accepted'[r] + onWire'[r] <= sent[r]
    BY <1>11 DEF Receive, TypeOK, Sending
  <1>12. ASSUME NEW q \in Requests, SendOrder(q) PROVE Typed' /\ Sending'
    <2>1. Sending'
      BY <1>12 DEF SendOrder, TypeOK, Sending, Unsent
    <2>2. sent' \in [Requests -> 0..Attempts] /\ onWire' \in [Requests -> Nat]
      BY <1>12 DEF SendOrder, TypeOK, Sending
    <2> QED BY <1>12, <2>1, <2>2, <1>10 DEF SendOrder, TypeOK, PCs, recordVars
  <1>13. ASSUME NEW q \in Requests, OrderAnswered(q) \/ ArrivesLate(q) PROVE Typed' /\ Sending'
    <2>1. Receive(q) /\ UNCHANGED sent
      BY <1>13 DEF OrderAnswered, ArrivesLate
    <2>2. pc' \in [Requests -> PCs]
      BY <1>13 DEF OrderAnswered, ArrivesLate, TypeOK, PCs
    <2>3. \A r \in Requests : pc'[r] \in Unsent \cup {"send"} => pc[r] = pc'[r]
      BY <1>13 DEF OrderAnswered, ArrivesLate, TypeOK, Unsent
    <2>4. Sending'
      BY <2>1, <2>3, <1>11 DEF Sending
    <2> QED BY <1>13, <2>1, <2>2, <2>4, <1>10, <1>11 DEF OrderAnswered, ArrivesLate, TypeOK, recordVars
  <1>14. ASSUME NEW q \in Requests, OrderRefused(q) PROVE Typed' /\ Sending'
    <2>1. Sending'
      BY <1>14 DEF OrderRefused, TypeOK, Sending, Unsent
    <2>2. onWire' \in [Requests -> Nat]
      BY <1>14 DEF OrderRefused, TypeOK
    <2> QED BY <1>14, <2>1, <2>2, <1>10 DEF OrderRefused, TypeOK, PCs, recordVars
  <1>15. ASSUME NEW q \in Requests, RefusedUnsent(q) \/ OrderTimesOut(q) \/ DatabaseFails(q) PROVE Typed' /\ Sending'
    <2>1. Sending'
      BY <1>15 DEF RefusedUnsent, OrderTimesOut, DatabaseFails, exchangeVars, TypeOK, Sending, Unsent
    <2>2. pc' \in [Requests -> PCs]
      BY <1>15 DEF RefusedUnsent, OrderTimesOut, DatabaseFails, TypeOK, PCs
    <2> QED BY <1>15, <2>1, <2>2, <1>10 DEF RefusedUnsent, OrderTimesOut, DatabaseFails, TypeOK, recordVars, exchangeVars
  <1>16. ASSUME NEW q \in Requests, RecordTrade(q) PROVE Typed' /\ Sending'
    <2>1. Sending'
      BY <1>16 DEF RecordTrade, exchangeVars, TypeOK, Sending, Unsent
    <2> QED BY <1>16, <2>1, <1>10 DEF RecordTrade, TypeOK, PCs, exchangeVars
  <1>17. CASE UNCHANGED vars
    BY <1>17 DEF vars, accountVars, connectVars, exchangeVars, recordVars, TypeOK, StampsPast, Sending
  <1> QED
    BY <1>1, <1>2, <1>3, <1>5, <1>6, <1>7, <1>8, <1>9, <1>12, <1>13, <1>14, <1>15, <1>16, <1>17
    DEF Next, Connect, Disconnect, Signal, PlaceOrder

(* Every variable of accounts, orders and signals keeps its type, and no call *)
(* sends an order more often than it may.                                    *)
THEOREM BrokerTypeCorrect == Spec => []TypeOK
  <1>1. Typed => TypeOK
    BY DEF Typed
  <1> QED BY <1>1, InitTyped, StepTyped, PTL DEF Spec

-----------------------------------------------------------------------------
(* Orders, trades and signals. *)

LEMMA StepRecorded == Typed /\ Sending /\ Stages /\ Recorded /\ [Next]_vars => Recorded'
  <1> SUFFICES ASSUME Typed, Sending, Stages, Recorded, [Next]_vars PROVE Recorded'
    OBVIOUS
  <1> USE DEF Typed, TypeOK, Keyed
  <1>1. ASSUME NEW q \in Requests, StartConnect(q) \/ StartOrder(q) \/ StartSignal(q) \/ StartDisconnect(q)
        PROVE  Recorded'
    <2>1. /\ UNCHANGED <<kind, exchangeVars, recordVars>> /\ \A r \in Requests \ {q} : pc'[r] = pc[r]
          /\ pc'[q] \in {"validate", "lookup", "store", "create", "disconnect", "refused"}
          /\ kind[q] = "signal" => pc'[q] \in {"store", "create"}
      BY <1>1 DEF StartConnect, StartOrder, StartSignal, StartDisconnect
    <2> QED BY <2>1, <1>1 DEF Recorded, exchangeVars, recordVars, StartConnect, StartOrder, StartSignal,
                     StartDisconnect, Sending, Unsent
  <1>2. ASSUME NEW q \in Requests, Validate(q) \/ LoadAccount(q) \/ ConnectAccount(q) \/ DisconnectAccount(q)
        PROVE  Recorded'
    <2>1. /\ UNCHANGED <<kind, exchangeVars, recordVars>> /\ \A r \in Requests \ {q} : pc'[r] = pc[r]
          /\ pc'[q] \in {"read", "refused", "write", "done", "failed"} /\ pc[q] \in Unsent
      BY <1>2 DEF Validate, LoadAccount, ConnectAccount, DisconnectAccount, Unsent
    <2> QED BY <2>1 DEF Recorded, exchangeVars, recordVars, Sending
  <1>3. ASSUME NEW q \in Requests, StoreSignal(q) PROVE Recorded'
    <2>1. /\ UNCHANGED <<kind, exchangeVars, trades>> /\ \A r \in Requests \ {q} : pc'[r] = pc[r]
          /\ signals \subseteq signals' /\ pc[q] \in {"create", "store"}
          /\ pc'[q] = "failed" \/ (pc'[q] \in {"lookup", "done"} /\ q \in signals')
      BY <1>3 DEF StoreSignal, recordVars
    <2>2. sent[q] = 0
      BY <2>1 DEF Sending, Unsent
    <2> QED BY <2>1, <2>2 DEF Recorded, exchangeVars
  <1>4. ASSUME NEW q \in Requests, GetActiveClient(q) PROVE Recorded'
    <2>1. /\ UNCHANGED <<kind, sent, accepted, trades, signals>> /\ \A r \in Requests \ {q} : pc'[r] = pc[r]
          /\ pc[q] = "lookup" /\ pc'[q] \in {"failed", "send"}
      BY <1>4 DEF GetActiveClient, recordVars
    <2> QED BY <2>1 DEF Recorded
  <1>5. ASSUME NEW q \in Requests, RefusedUnsent(q) \/ OrderTimesOut(q) \/ OrderRefused(q) PROVE Recorded'
    <2>1. /\ UNCHANGED <<kind, sent, accepted, trades, signals>> /\ \A r \in Requests \ {q} : pc'[r] = pc[r]
          /\ pc[q] \in {"send", "await"} /\ pc'[q] \in {"failed", "send"}
      BY <1>5 DEF RefusedUnsent, OrderTimesOut, OrderRefused, exchangeVars, recordVars
    <2> QED BY <2>1 DEF Recorded
  <1>6. ASSUME NEW q \in Requests, SendOrder(q) PROVE Recorded'
    <2>1. /\ UNCHANGED <<kind, accepted, trades, signals>> /\ pc[q] = "send" /\ pc'[q] = "await"
          /\ \A r \in Requests \ {q} : pc'[r] = pc[r] /\ sent'[r] = sent[r]
      BY <1>6 DEF SendOrder, recordVars
    <2> QED BY <2>1 DEF Recorded
  <1>7. ASSUME NEW q \in Requests, OrderAnswered(q) \/ ArrivesLate(q) PROVE Recorded'
    <2>1. /\ UNCHANGED <<kind, sent, trades, signals>> /\ Receive(q)
          /\ \A r \in Requests \ {q} : pc'[r] = pc[r] /\ accepted'[r] = accepted[r]
          /\ pc'[q] = pc[q] \/ (pc[q] = "await" /\ pc'[q] \in {"record", "failed"})
      BY <1>7 DEF OrderAnswered, ArrivesLate, recordVars, Receive
    <2>2. accepted'[q] > 0 /\ (Keyed(q) => accepted'[q] = 1)
      BY <2>1 DEF Receive
    <2> QED BY <2>1, <2>2 DEF Recorded
  <1>8. ASSUME NEW q \in Requests, RecordTrade(q) PROVE Recorded'
    BY <1>8 DEF RecordTrade, exchangeVars, Recorded
  <1>9. ASSUME NEW q \in Requests, DatabaseFails(q) PROVE Recorded'
    <2>1. /\ UNCHANGED <<kind, exchangeVars, recordVars>> /\ pc'[q] = "failed"
          /\ \A r \in Requests \ {q} : pc'[r] = pc[r]
      BY <1>9 DEF DatabaseFails
    <2> QED BY <2>1 DEF Recorded, exchangeVars, recordVars
  <1>10. CASE UNCHANGED vars
    BY <1>10 DEF vars, exchangeVars, recordVars, Recorded
  <1> QED
    BY <1>1, <1>2, <1>3, <1>4, <1>5, <1>6, <1>7, <1>8, <1>9, <1>10
    DEF Next, Connect, Disconnect, Signal, PlaceOrder

-----------------------------------------------------------------------------
(* Accounts. *)

(* What no step changes, whichever it is. *)
Kept ==
    /\ kind' = kind
    /\ \A q \in Requests : pc[q] \in Over => pc'[q] = pc[q]
    /\ \A q \in Requests : IF pc[q] = "idle" THEN pc'[q] \notin {"done", "failed"} ELSE pc'[q] # "idle" /\ after'[q] = after[q]
    /\ \A q \in Requests : after'[q] = after[q] \/ after'[q] = Ended
    /\ \A q \in Requests : pc[q] \notin {"idle", "read"} => loaded'[q] = loaded[q]

LEMMA StepKept == Typed /\ [Next]_vars => Kept
  <1> SUFFICES ASSUME Typed, [Next]_vars PROVE Kept
    OBVIOUS
  <1> USE DEF Typed, TypeOK
  <1>1. ASSUME NEW q \in Requests, StartConnect(q) \/ StartOrder(q) \/ StartSignal(q) \/ StartDisconnect(q)
        PROVE  Kept
    <2>1. /\ kind' = kind /\ pc[q] = "idle" /\ pc'[q] \notin {"idle", "done", "failed"}
          /\ \A r \in Requests \ {q} : pc'[r] = pc[r] /\ after'[r] = after[r] /\ loaded'[r] = loaded[r]
          /\ after'[q] = Ended
      BY <1>1 DEF StartConnect, StartOrder, StartSignal, StartDisconnect, connectVars
    <2> QED BY <2>1 DEF Kept
  <1>2. ASSUME NEW q \in Requests, pc[q] \notin Over \cup {"idle"}, UNCHANGED <<kind, after>>,
               \E step \in PCs \ {"idle"} : pc' = [pc EXCEPT ![q] = step],
               UNCHANGED loaded \/ LoadAccount(q)
        PROVE  Kept
    BY <1>2 DEF Kept, PCs, LoadAccount
  <1>3. ASSUME NEW q \in Requests, Validate(q) \/ LoadAccount(q) \/ ConnectAccount(q) \/ DisconnectAccount(q)
        PROVE  Kept
    BY <1>3, <1>2 DEF Validate, LoadAccount, ConnectAccount, DisconnectAccount, PCs, connectVars
  <1>4. ASSUME NEW q \in Requests, StoreSignal(q) \/ GetActiveClient(q) PROVE Kept
    BY <1>4, <1>2 DEF StoreSignal, GetActiveClient, PCs, connectVars
  <1>5. ASSUME NEW q \in Requests, RefusedUnsent(q) \/ SendOrder(q) \/ OrderAnswered(q) \/ OrderRefused(q)
        PROVE  Kept
    BY <1>5, <1>2 DEF RefusedUnsent, SendOrder, OrderAnswered, OrderRefused, PCs, connectVars
  <1>6. ASSUME NEW q \in Requests, OrderTimesOut(q) \/ RecordTrade(q) \/ DatabaseFails(q) PROVE Kept
    BY <1>6, <1>2 DEF OrderTimesOut, RecordTrade, DatabaseFails, PCs, connectVars
  <1>7. ASSUME NEW q \in Requests, ArrivesLate(q) PROVE Kept
    BY <1>7 DEF ArrivesLate, connectVars, Kept
  <1>8. CASE UNCHANGED vars
    BY <1>8 DEF vars, connectVars, Kept
  <1> QED
    BY <1>1, <1>3, <1>4, <1>5, <1>6, <1>7, <1>8 DEF Next, Connect, Disconnect, Signal, PlaceOrder

(* A step that is none of those below changes no account, and brings no       *)
(* connect or disconnect to where it would.                                  *)
Calm ==
    /\ UNCHANGED <<keys, active, loaded>>
    /\ \A q \in Requests : pc'[q] \in {"write", "disconnect"} => pc'[q] = pc[q]
    /\ \A q \in Requests : pc'[q] = "done" /\ kind[q] = "connect" => pc[q] = "done"
    /\ \A q \in Requests : pc[q] \in {"write", "done"} => pc'[q] \in {pc[q], "failed"}

AccountStep(q) == LoadAccount(q) \/ ConnectAccount(q) \/ StartDisconnect(q) \/ DisconnectAccount(q)

LEMMA StepCalm ==
  Typed /\ Stages /\ [Next]_vars => Calm \/ \E q \in Requests : AccountStep(q)
  <1> SUFFICES ASSUME Typed, Stages, [Next]_vars, \A q \in Requests : ~AccountStep(q) PROVE Calm
    OBVIOUS
  <1> USE DEF Typed, TypeOK
  <1>1. ASSUME NEW q \in Requests, UNCHANGED <<keys, active, loaded>>, pc[q] # "done",
               \E step \in PCs \ {"write", "disconnect"} :
                   pc' = [pc EXCEPT ![q] = step] /\ (step = "done" => kind[q] # "connect"),
               pc[q] = "write" => pc'[q] = "failed"
        PROVE  Calm
    BY <1>1 DEF Calm, PCs
  <1>2. ASSUME NEW q \in Requests, StartConnect(q) \/ StartOrder(q) \/ StartSignal(q) PROVE Calm
    BY <1>2, <1>1 DEF StartConnect, StartOrder, StartSignal, accountVars, connectVars, PCs
  <1>3. ASSUME NEW q \in Requests, Validate(q) PROVE Calm
    BY <1>3, <1>1 DEF Validate, accountVars, PCs
  <1>4. ASSUME NEW q \in Requests, StoreSignal(q) PROVE Calm
    BY <1>4, <1>1 DEF StoreSignal, accountVars, connectVars, PCs, Stages
  <1>5. ASSUME NEW q \in Requests, GetActiveClient(q) PROVE Calm
    BY <1>5, <1>1 DEF GetActiveClient, accountVars, connectVars, PCs
  <1>6. ASSUME NEW q \in Requests, RefusedUnsent(q) \/ SendOrder(q) \/ OrderAnswered(q) \/ OrderRefused(q)
        PROVE  Calm
    BY <1>6, <1>1 DEF RefusedUnsent, SendOrder, OrderAnswered, OrderRefused, accountVars, connectVars, PCs
  <1>7. ASSUME NEW q \in Requests, OrderTimesOut(q) \/ RecordTrade(q) \/ DatabaseFails(q) PROVE Calm
    BY <1>7, <1>1 DEF OrderTimesOut, RecordTrade, DatabaseFails, accountVars, connectVars, PCs, Stages
  <1>8. ASSUME NEW q \in Requests, ArrivesLate(q) PROVE Calm
    BY <1>8 DEF ArrivesLate, accountVars, connectVars, Calm
  <1>9. CASE UNCHANGED vars
    BY <1>9 DEF vars, accountVars, connectVars, Calm
  <1> QED
    BY <1>2, <1>3, <1>4, <1>5, <1>6, <1>7, <1>8, <1>9
    DEF Next, Connect, Disconnect, Signal, PlaceOrder, AccountStep

LEMMA StepStages == Typed /\ Stages /\ [Next]_vars => Stages'
  <1> SUFFICES ASSUME Typed, Stages, [Next]_vars PROVE Stages'
    OBVIOUS
  <1> USE DEF Typed, TypeOK
  <1>k. Kept
    BY StepKept
  <1>a. /\ \A q \in Requests : \A m \in after'[q] : m \in Requests /\ pc'[m] \in Over
        /\ \A q \in Requests : q \notin after'[q]
    <2>1. \A m \in Ended : m \in Requests /\ pc[m] \in Over
      BY DEF Ended
    <2>2. ASSUME NEW q \in Requests, NEW m \in after'[q] PROVE m \in Requests /\ pc'[m] \in Over /\ m # q
      <3>1. CASE after'[q] = after[q]
        BY <1>k, <2>2, <3>1 DEF Kept, Stages
      <3>2. CASE after'[q] # after[q]
        <4>1. pc[q] = "idle" /\ after'[q] = Ended
          BY <1>k, <3>2 DEF Kept
        <4> QED BY <1>k, <2>1, <2>2, <4>1 DEF Kept
      <3> QED BY <3>1, <3>2
    <2> QED BY <2>2
  <1>1. ASSUME NEW q \in Requests, StartConnect(q) \/ StartOrder(q) \/ StartSignal(q) PROVE Stages'
    <2>1. /\ UNCHANGED <<kind, loaded, used>> /\ \A r \in Requests \ {q} : pc'[r] = pc[r]
          /\ pc[q] = "idle"
          /\ \/ kind[q] = "connect" /\ pc'[q] = "validate"
             \/ kind[q] = "order" /\ pc'[q] = "lookup"
             \/ kind[q] = "signal" /\ pc'[q] \in {"store", "create"}
      BY <1>1 DEF StartConnect, StartOrder, StartSignal, connectVars, exchangeVars
    <2> QED BY <1>a, <2>1 DEF Stages
  <1>2. ASSUME NEW q \in Requests, UNCHANGED <<kind, loaded, used>>,
               \A r \in Requests \ {q} : pc'[r] = pc[r],
               pc'[q] \notin {"idle", "lookup", "disconnect"},
               pc'[q] \in {"read", "write"} => pc[q] \in {"validate", "read"} /\ loaded[q] = None,
               pc'[q] \in {"send", "await", "record"} => pc[q] \in {"send", "await", "record", "lookup"},
               kind[q] = "connect" /\ loaded[q] # None => pc'[q] \in {"done", "failed"},
               pc'[q] \notin {"validate", "create", "store"}
        PROVE  Stages'
    BY <1>a, <1>2 DEF Stages
  <1>3. ASSUME NEW q \in Requests, Validate(q) PROVE Stages'
    BY <1>3, <1>2 DEF Validate, exchangeVars, Stages
  <1>4. ASSUME NEW q \in Requests, LoadAccount(q) PROVE Stages'
    <2>1. /\ UNCHANGED <<kind, used>> /\ pc[q] = "read" /\ pc'[q] = "write"
          /\ \A r \in Requests \ {q} : pc'[r] = pc[r] /\ loaded'[r] = loaded[r]
      BY <1>4 DEF LoadAccount, exchangeVars
    <2> QED BY <1>a, <2>1 DEF Stages
  <1>5. ASSUME NEW q \in Requests, ConnectAccount(q) \/ DisconnectAccount(q) PROVE Stages'
    <2>1. UNCHANGED <<kind, loaded, used>> /\ pc'[q] \in {"done", "failed"} /\ \A r \in Requests \ {q} : pc'[r] = pc[r]
      BY <1>5 DEF ConnectAccount, DisconnectAccount, connectVars, exchangeVars
    <2> QED BY <1>2, <2>1
  <1>6. ASSUME NEW q \in Requests, StartDisconnect(q) PROVE Stages'
    <2>1. /\ UNCHANGED <<kind, used>> /\ pc[q] = "idle" /\ pc'[q] \in {"disconnect", "refused"}
          /\ kind[q] = "disconnect"
          /\ \A r \in Requests \ {q} : pc'[r] = pc[r] /\ loaded'[r] = loaded[r]
      BY <1>6 DEF StartDisconnect, exchangeVars
    <2> QED BY <1>a, <2>1 DEF Stages
  <1>7. ASSUME NEW q \in Requests, StoreSignal(q) PROVE Stages'
    <2>1. /\ UNCHANGED <<kind, loaded, used>> /\ pc[q] \in {"create", "store"}
          /\ pc'[q] \in {"lookup", "done", "failed"}
          /\ \A r \in Requests \ {q} : pc'[r] = pc[r]
      BY <1>7 DEF StoreSignal, connectVars, exchangeVars
    <2> QED BY <1>a, <2>1 DEF Stages
  <1>8. ASSUME NEW q \in Requests, GetActiveClient(q) PROVE Stages'
    <2>1. /\ UNCHANGED <<kind, loaded>> /\ pc[q] = "lookup" /\ pc'[q] \in {"failed", "send"}
          /\ \A r \in Requests \ {q} : pc'[r] = pc[r] /\ used'[r] = used[r]
      BY <1>8 DEF GetActiveClient, connectVars
    <2> QED BY <1>a, <2>1 DEF Stages
  <1>9. ASSUME NEW q \in Requests, RefusedUnsent(q) \/ SendOrder(q) \/ OrderAnswered(q) \/ OrderRefused(q)
        PROVE  Stages'
    <2>1. /\ UNCHANGED <<kind, loaded, used>> /\ pc[q] \in {"send", "await"}
          /\ pc'[q] \in {"failed", "await", "record"}
          /\ \A r \in Requests \ {q} : pc'[r] = pc[r]
      BY <1>9 DEF RefusedUnsent, SendOrder, OrderAnswered, OrderRefused, connectVars, exchangeVars
    <2> QED BY <1>a, <2>1 DEF Stages
  <1>10. ASSUME NEW q \in Requests, OrderTimesOut(q) \/ RecordTrade(q) \/ DatabaseFails(q) PROVE Stages'
    <2>1. /\ UNCHANGED <<kind, loaded, used>>
          /\ pc'[q] \in {"failed", "done"} \/ (pc[q] = "await" /\ pc'[q] = "send")
          /\ \A r \in Requests \ {q} : pc'[r] = pc[r]
      BY <1>10 DEF OrderTimesOut, RecordTrade, DatabaseFails, connectVars, exchangeVars
    <2> QED BY <1>a, <2>1 DEF Stages
  <1>11. ASSUME NEW q \in Requests, ArrivesLate(q) PROVE Stages'
    BY <1>a, <1>11 DEF ArrivesLate, connectVars, Stages
  <1>12. CASE UNCHANGED vars
    BY <1>12 DEF vars, connectVars, exchangeVars, Stages
  <1> QED
    BY <1>1, <1>3, <1>4, <1>5, <1>6, <1>7, <1>8, <1>9, <1>10, <1>11, <1>12
    DEF Next, Connect, Disconnect, Signal, PlaceOrder

(* What the exchange, the trades and the signals tell of one request fits.     *)
THEOREM OrdersAreAccountedFor == Spec => []OrdersAccountedFor
  <1> DEFINE Inv == Typed /\ Sending /\ Stages /\ Recorded
  <1>1. Init => Inv
    <2> SUFFICES ASSUME Init PROVE Stages /\ Recorded
      BY InitTyped
    <2>1. Stages
      BY DEF Init, Stages
    <2>2. Recorded
      BY DEF Init, Recorded
    <2> QED BY <2>1, <2>2
  <1>2. Inv /\ [Next]_vars => Inv'
    BY StepTyped, StepStages, StepRecorded
  <1>3. Inv => OrdersAccountedFor
    <2> SUFFICES ASSUME Inv, NEW q \in Requests
                 PROVE  /\ Keyed(q) => accepted[q] <= 1
                        /\ accepted[q] + onWire[q] <= sent[q]
                        /\ q \in trades => accepted[q] > 0
                        /\ pc[q] = "done" /\ accepted[q] > 0 => q \in trades
                        /\ kind[q] = "signal" /\ sent[q] > 0 => q \in signals
      BY DEF OrdersAccountedFor
    <2>1. accepted[q] > 0 => sent[q] > 0
      BY DEF Typed, TypeOK, Sending
    <2> QED BY <2>1 DEF Recorded, Sending
  <1> QED BY <1>1, <1>2, <1>3, PTL DEF Spec

(* What the steps that touch an account do, in terms of the invariants.        *)
LEMMA AccountStepDoes ==
  ASSUME Typed, Stages, OneAccount, NEW q \in Requests, AccountStep(q)
  PROVE  /\ pc[q] \in {"idle", "read", "write", "disconnect"}
         /\ \A r \in Requests \ {q} : pc'[r] = pc[r] /\ loaded'[r] = loaded[r]
         /\ \/ /\ LoadAccount(q) /\ UNCHANGED <<keys, active, after>>
               /\ pc[q] = "read" /\ pc'[q] = "write" /\ kind[q] = "connect"
               /\ loaded'[q] = None => \A a \in Requests : ~active[a]
               /\ loaded'[q] # None => loaded'[q] \in Requests /\ active[loaded'[q]]
            \/ /\ UNCHANGED <<loaded, after>> /\ pc[q] = "write" /\ pc'[q] \in {"done", "failed"} /\ kind[q] = "connect"
               /\ keys' = [keys EXCEPT ![AccountOf(q)] = q]
               /\ active' = IF loaded[q] = None THEN [active EXCEPT ![q] = TRUE] ELSE active
            \/ /\ UNCHANGED <<keys, active>> /\ pc[q] = "idle" /\ pc'[q] \in {"disconnect", "refused"}
               /\ kind[q] = "disconnect"
            \/ /\ UNCHANGED <<keys, loaded, after>> /\ pc[q] = "disconnect" /\ pc'[q] \in {"done", "failed"}
               /\ kind[q] = "disconnect"
               /\ active' = [active EXCEPT ![loaded[q]] = FALSE]
  <1> USE DEF Typed, TypeOK
  <1>1. CASE LoadAccount(q)
    <2>1. loaded'[q] = ActiveForUser
      BY <1>1 DEF LoadAccount
    <2> QED BY <1>1, <2>1, ActiveAccount DEF LoadAccount, accountVars, Stages, Accounts
  <1>2. CASE ConnectAccount(q)
    BY <1>2 DEF ConnectAccount, InsertAccount, UpdateAccount, connectVars, Stages, AccountOf
  <1>3. CASE StartDisconnect(q)
    BY <1>3 DEF StartDisconnect, accountVars
  <1>4. CASE DisconnectAccount(q)
    BY <1>4 DEF DisconnectAccount, connectVars, Stages
  <1> QED BY <1>1, <1>2, <1>3, <1>4 DEF AccountStep

LEMMA StepOneAccount ==
  Typed /\ Stages /\ OneAccount /\ Loading /\ [Next]_vars => OneAccount'
  <1> SUFFICES ASSUME Typed, Stages, OneAccount, Loading, [Next]_vars PROVE OneAccount'
    OBVIOUS
  <1> USE DEF Typed, TypeOK
  <1>k. Kept
    BY StepKept
  <1>1. CASE Calm
    BY <1>1, <1>k DEF Calm, Kept, OneAccount
  <1>2. ASSUME NEW q \in Requests, AccountStep(q) PROVE OneAccount'
    <2> USE <1>2, AccountStepDoes
    <2>1. CASE pc[q] \in {"idle", "read"}
      <3>1. /\ UNCHANGED <<keys, active>> /\ \A r \in Requests \ {q} : pc'[r] = pc[r] /\ loaded'[r] = loaded[r]
            /\ pc'[q] = "write" => pc[q] = "read" /\ after'[q] = after[q]
            /\ pc'[q] = "write" /\ loaded'[q] = None => \A a \in Requests : ~active[a]
        BY <2>1
      <3>2. \A b \in Requests : keys[b] # None => after'[b] = after[b]
        BY <1>k DEF Kept, OneAccount
      <3>3. \A b \in Requests : pc[b] = "write" => after'[b] = after[b]
        BY <1>k DEF Kept
      <3>4. \A a \in Requests : keys[a] # None => pc'[a] \in {"done", "failed"}
        BY <1>k DEF Kept, OneAccount
      <3> QED BY <2>1, <3>1, <3>2, <3>3, <3>4, <1>k DEF Kept, OneAccount
    <2>2. CASE pc[q] = "disconnect"
      <3>1. \A a \in Requests : active'[a] => active[a]
        BY <2>2
      <3> QED BY <2>2, <3>1, <1>k DEF Kept, OneAccount, Stages
    <2>3. CASE pc[q] = "write" /\ loaded[q] # None
      <3>1. keys[loaded[q]] # None /\ loaded[q] \in Requests
        BY <2>3 DEF Loading, Stages
      <3>2. /\ active' = active /\ \A a \in Requests : keys'[a] # None => keys[a] # None
            /\ \A a \in Requests : keys[a] # None => keys'[a] # None
        BY <2>3, <3>1, NoneAssumption DEF AccountOf
      <3>3. /\ UNCHANGED <<loaded, after>> /\ pc'[q] \in {"done", "failed"}
            /\ \A a \in Requests \ {q} : pc'[a] = pc[a]
        BY <2>3
      <3>4. kind' = kind
        BY <1>k DEF Kept
      <3>5. (\A a \in Requests :
              /\ active[a] => keys[a] # None
              /\ keys[a] # None => kind[a] = "connect" /\ pc[a] \in {"done", "failed"})'
        BY <3>2, <3>3, <3>4 DEF OneAccount
      <3> QED BY <3>2, <3>3, <3>5 DEF OneAccount
    <2>4. CASE pc[q] = "write" /\ loaded[q] = None
      <3>1. /\ keys'[q] = q /\ UNCHANGED <<loaded, after>> /\ pc'[q] \in {"done", "failed"} /\ kind[q] = "connect"
            /\ \A a \in Requests \ {q} : keys'[a] = keys[a] /\ pc'[a] = pc[a]
            /\ \A a \in Requests \ {q} : active'[a] => active[a]
        BY <2>4 DEF AccountOf
      <3>2. \A b \in Requests : q \notin after[b]
        BY <2>4 DEF Stages
      <3>3. \A a \in Requests :
              /\ active'[a] => keys'[a] # None
              /\ keys'[a] # None => kind'[a] = "connect" /\ pc'[a] \in {"done", "failed"}
        BY <3>1, <1>k, NoneAssumption DEF Kept, OneAccount
      <3>4. ASSUME NEW a \in Requests, NEW b \in Requests, a \in after'[b]
            PROVE  /\ pc'[b] = "write" /\ loaded'[b] = None => ~active'[a]
                   /\ keys'[b] # None => ~active'[a]
        <4>1. a # q /\ a \in after[b] /\ (active'[a] => active[a])
          BY <3>1, <3>2, <3>4
        <4>2. CASE b = q
          BY <2>4, <3>1, <4>1, <4>2 DEF OneAccount
        <4>3. CASE b # q
          BY <3>1, <4>1, <4>3 DEF OneAccount
        <4> QED BY <4>2, <4>3
      <3> QED BY <3>3, <3>4 DEF OneAccount
    <2> QED BY <2>1, <2>2, <2>3, <2>4
  <1> QED BY <1>1, <1>2, StepCalm

(* No row goes away; of a request that has ended none is inserted, and its     *)
(* account is not activated again.                                           *)
LEMMA RowsStay ==
  ASSUME Typed, Stages, OneAccount, Loading, [Next]_vars, NEW a \in Requests
  PROVE  /\ keys[a] # None => keys'[a] # None
         /\ pc[a] \in Over /\ keys'[a] # None => keys[a] # None
         /\ pc[a] \in Over /\ active'[a] => active[a]
  <1> USE DEF Typed, TypeOK
  <1>1. CASE Calm
    BY <1>1 DEF Calm
  <1>2. ASSUME NEW q \in Requests, AccountStep(q)
        PROVE  /\ keys[a] # None => keys'[a] # None
               /\ pc[a] \in Over /\ keys'[a] # None => keys[a] # None
               /\ pc[a] \in Over /\ active'[a] => active[a]
    <2>1. CASE pc[q] \in {"idle", "read", "disconnect"}
      BY <1>2, <2>1, AccountStepDoes
    <2>2. CASE pc[q] = "write"
      <3>1. /\ keys' = [keys EXCEPT ![AccountOf(q)] = q] /\ kind[q] = "connect"
            /\ active' = IF loaded[q] = None THEN [active EXCEPT ![q] = TRUE] ELSE active
        BY <1>2, <2>2, AccountStepDoes
      <3>2. loaded[q] # None => keys[loaded[q]] # None
        BY <3>1 DEF Loading
      <3> QED BY <2>2, <3>1, <3>2, NoneAssumption DEF AccountOf
    <2> QED BY <1>2, <2>1, <2>2, AccountStepDoes
  <1> QED BY <1>1, <1>2, StepCalm

LEMMA StepLoading ==
  Typed /\ Stages /\ OneAccount /\ Loading /\ [Next]_vars => Loading'
  <1> SUFFICES ASSUME Typed, Stages, OneAccount, Loading, [Next]_vars,
                      NEW c \in Requests, kind'[c] = "connect", loaded'[c] # None
               PROVE  /\ keys'[loaded'[c]] # None
                      /\ loaded'[c] # c
                      /\ \A a \in after'[c] : keys'[a] # None => loaded'[c] \notin after'[a]
                      /\ \A d \in Requests : c \in after'[d] => loaded'[c] \in after'[d]
    BY DEF Loading
  <1> USE DEF Typed, TypeOK
  <1>k. Kept /\ kind[c] = "connect"
    BY StepKept DEF Kept
  <1>1. CASE loaded'[c] = loaded[c]
    <2>1. pc[c] \in {"write", "done", "failed"} /\ after'[c] = after[c]
      BY <1>1, <1>k DEF Kept, Stages
    <2>2. loaded[c] \in Requests /\ keys[loaded[c]] # None /\ pc[loaded[c]] \in Over
      BY <1>1, <1>k DEF Loading, OneAccount
    <2>3. keys'[loaded[c]] # None
      BY <2>2, RowsStay
    <2>4. ASSUME NEW a \in after[c], keys'[a] # None PROVE loaded[c] \notin after'[a]
      <3>1. a \in Requests /\ pc[a] \in Over
        BY DEF Stages
      <3>2. keys[a] # None /\ after'[a] = after[a]
        BY <2>4, <3>1, <1>k, RowsStay DEF Kept
      <3> QED BY <1>1, <1>k, <3>2 DEF Loading
    <2>5. ASSUME NEW d \in Requests, c \in after'[d] PROVE loaded[c] \in after'[d]
      <3>1. CASE after'[d] = after[d]
        BY <1>1, <1>k, <2>5, <3>1 DEF Loading
      <3>2. CASE after'[d] = Ended
        BY <2>2, <3>2 DEF Ended
      <3> QED BY <3>1, <3>2, <1>k DEF Kept
    <2> QED BY <1>1, <1>k, <2>1, <2>2, <2>3, <2>4, <2>5 DEF Loading
  <1>2. CASE loaded'[c] # loaded[c]
    <2>1. pc[c] = "read" /\ UNCHANGED <<keys, active, after>> /\ loaded'[c] \in Requests /\ active[loaded'[c]]
      <3>1. ~Calm
        BY <1>2 DEF Calm
      <3>2. PICK q \in Requests : AccountStep(q)
        BY <3>1, StepCalm
      <3>3. q = c
        BY <1>2, <3>2, AccountStepDoes
      <3> QED BY <1>2, <1>k, <3>2, <3>3, AccountStepDoes
    <2>2. keys[loaded'[c]] # None /\ loaded'[c] # c
      BY <2>1 DEF OneAccount
    <2>3. \A d \in Requests : c \notin after[d]
      BY <2>1 DEF Stages
    <2>4. after[c] \subseteq Requests
      OBVIOUS
    <2> QED BY <2>1, <2>2, <2>3, <2>4 DEF OneAccount
  <1> QED BY <1>1, <1>2

(* A disconnect once carried out after a connect began remains so. *)
LEMMA SinceStays ==
  ASSUME Typed, [Next]_vars, NEW c \in Requests, pc[c] \notin {"idle", "read"}, DisconnectedSince(c)
  PROVE  DisconnectedSince(c)' /\ AccountOf(c)' = AccountOf(c)
  <1>k. Kept
    BY StepKept
  <1>1. AccountOf(c)' = AccountOf(c) /\ after'[c] = after[c]
    BY <1>k DEF Kept, AccountOf
  <1>2. PICK d \in Requests : kind[d] = "disconnect" /\ pc[d] \in {"done", "failed"}
                               /\ loaded[d] = AccountOf(c) /\ d \notin after[c]
    BY DEF DisconnectedSince
  <1>3. pc'[d] = pc[d] /\ loaded'[d] = loaded[d] /\ kind' = kind
    BY <1>2, <1>k DEF Kept, Over
  <1> QED BY <1>1, <1>2, <1>3 DEF DisconnectedSince

LEMMA StepConnected ==
  Typed /\ Stages /\ OneAccount /\ Loading /\ Connected /\ [Next]_vars => Connected'
  <1> SUFFICES ASSUME Typed, Stages, OneAccount, Loading, Connected, [Next]_vars PROVE Connected'
    OBVIOUS
  <1> USE DEF Typed, TypeOK
  <1>k. Kept
    BY StepKept
  <1>1. CASE Calm
    BY <1>1, <1>k DEF Calm, Kept, OneAccount, Stages, Loading, Connected, AccountOf, DisconnectedSince
  <1>2. ASSUME NEW q \in Requests, AccountStep(q) PROVE Connected'
    <2>k. \A c \in Requests : pc[c] \notin {"idle", "read"} /\ DisconnectedSince(c) => DisconnectedSince(c)'
      BY SinceStays
    <2>1. CASE pc[q] = "idle"
      <3>1. /\ UNCHANGED <<keys, active>> /\ kind[q] = "disconnect" /\ pc'[q] \in {"disconnect", "refused"}
            /\ \A r \in Requests \ {q} : pc'[r] = pc[r] /\ loaded'[r] = loaded[r]
        BY <1>2, <2>1, AccountStepDoes
      <3>2. \A c \in Requests : kind[c] = "connect" => AccountOf(c)' = AccountOf(c)
        BY <3>1 DEF AccountOf
      <3> QED BY <2>k, <3>1, <3>2, <1>k DEF Kept, Connected
    <2>2. CASE pc[q] = "read"
      <3>1. /\ UNCHANGED <<keys, active, after>> /\ pc'[q] = "write"
            /\ loaded'[q] # None => loaded'[q] \in Requests /\ active[loaded'[q]]
            /\ \A r \in Requests \ {q} : pc'[r] = pc[r] /\ loaded'[r] = loaded[r]
        BY <1>2, <2>2, AccountStepDoes
      <3>2. \A c \in Requests \ {q} : AccountOf(c)' = AccountOf(c)
        BY <3>1 DEF AccountOf
      <3>3. loaded'[q] # None => active'[AccountOf(q)']
        BY <3>1 DEF AccountOf
      <3> QED BY <2>2, <2>k, <3>1, <3>2, <3>3, <1>k DEF Kept, Connected
    <2>3. CASE pc[q] = "disconnect"
      <3>1. /\ UNCHANGED <<keys, loaded, after>> /\ pc'[q] \in {"done", "failed"} /\ kind[q] = "disconnect"
            /\ \A r \in Requests \ {q} : pc'[r] = pc[r]
            /\ active' = [active EXCEPT ![loaded[q]] = FALSE]
        BY <1>2, <2>3, AccountStepDoes
      <3>2. \A c \in Requests : AccountOf(c)' = AccountOf(c)
        BY <3>1 DEF AccountOf
      <3>3. ASSUME NEW c \in Requests, AccountOf(c) = loaded[q] PROVE DisconnectedSince(c)'
        <4>1. q \notin after'[c] /\ kind'[q] = "disconnect" /\ loaded'[q] = AccountOf(c)'
          BY <2>3, <3>1, <3>2, <3>3, <1>k DEF Kept, Stages
        <4> QED BY <3>1, <4>1 DEF DisconnectedSince
      <3>4. \A c \in Requests : AccountOf(c) \in Requests
        BY DEF AccountOf
      <3>5. \A c \in Requests : AccountOf(c) # loaded[q] => active'[AccountOf(c)] = active[AccountOf(c)]
        BY <3>1, <3>4
      <3>6. (\A a \in Requests : keys[a] # None =>
              kind[keys[a]] = "connect" /\ pc[keys[a]] \in {"done", "failed"} /\ a = AccountOf(keys[a]))'
        <4>1. ASSUME NEW a \in Requests, keys[a] # None
              PROVE  /\ keys[a] \in Requests /\ kind[keys[a]] = "connect"
                     /\ pc[keys[a]] \in {"done", "failed"} /\ a = AccountOf(keys[a])
          BY <4>1 DEF Connected
        <4> QED BY <2>3, <3>1, <3>2, <4>1, <1>k DEF Kept
      <3>7. (\A c \in Requests : kind[c] = "connect" /\ pc[c] = "done" =>
              keys[AccountOf(c)] # None /\ keys[AccountOf(c)] \notin after[c])'
        BY <2>3, <3>1, <3>2, <1>k DEF Kept, Connected
      <3>8. (\A c \in Requests : kind[c] = "connect" /\ (pc[c] = "done" \/ (pc[c] = "write" /\ loaded[c] # None)) =>
              active[AccountOf(c)] \/ DisconnectedSince(c))'
        BY <2>3, <2>k, <3>1, <3>2, <3>3, <3>5, <1>k DEF Kept, Connected
      <3> QED BY <3>6, <3>7, <3>8 DEF Connected
    <2>4. CASE pc[q] = "write"
      <3>1. /\ UNCHANGED <<loaded, after>> /\ pc'[q] \in {"done", "failed"} /\ kind[q] = "connect"
            /\ \A r \in Requests \ {q} : pc'[r] = pc[r]
            /\ keys' = [keys EXCEPT ![AccountOf(q)] = q]
            /\ active' = IF loaded[q] = None THEN [active EXCEPT ![q] = TRUE] ELSE active
        BY <1>2, <2>4, AccountStepDoes
      <3>2. \A c \in Requests : AccountOf(c)' = AccountOf(c) /\ AccountOf(c) \in Requests
        BY <3>1 DEF AccountOf
      <3>3. \A b \in Requests : q \notin after[b]
        BY <2>4 DEF Stages
      <3>4. \A a \in Requests : active[a] => active'[a]
        BY <3>1
      <3>5. active'[AccountOf(q)] \/ DisconnectedSince(q)
        BY <2>4, <3>1 DEF Connected, AccountOf
      <3>6. \A a \in Requests : keys'[a] = IF a = AccountOf(q) THEN q ELSE keys[a]
        BY <3>1
      <3>7. (\A a \in Requests : keys[a] # None =>
              kind[keys[a]] = "connect" /\ pc[keys[a]] \in {"done", "failed"} /\ a = AccountOf(keys[a]))'
        <4>1. \A a \in Requests : keys[a] # None => keys[a] \in Requests /\ kind[keys[a]] = "connect"
                /\ pc[keys[a]] \in {"done", "failed"} /\ a = AccountOf(keys[a])
          BY DEF Connected
        <4>2. \A a \in Requests \ {AccountOf(q)} : keys'[a] = keys[a]
          BY <3>6
        <4>3. keys'[AccountOf(q)] = q
          BY <3>2, <3>6
        <4>4. kind' = kind /\ \A c \in Requests : pc[c] \in Over => pc'[c] = pc[c]
          BY <1>k DEF Kept
        <4> QED BY <3>1, <4>1, <4>2, <4>3, <4>4 DEF AccountOf
      <3>8. (\A c \in Requests : kind[c] = "connect" /\ pc[c] = "done" =>
              keys[AccountOf(c)] # None /\ keys[AccountOf(c)] \notin after[c])'
        BY <2>4, <3>1, <3>2, <3>3, <3>6, <1>k, NoneAssumption DEF Kept, Connected
      <3>9. (\A c \in Requests : kind[c] = "connect" /\ (pc[c] = "done" \/ (pc[c] = "write" /\ loaded[c] # None)) =>
              active[AccountOf(c)] \/ DisconnectedSince(c))'
        BY <2>4, <2>k, <3>1, <3>2, <3>4, <3>5, <1>k DEF Kept, Connected
      <3> QED BY <3>7, <3>8, <3>9 DEF Connected
    <2> QED BY <1>2, <2>1, <2>2, <2>3, <2>4, AccountStepDoes
  <1> QED BY <1>1, <1>2, StepCalm

(* The invariant of the accounts, and its induction. *)
AccountsInv == Typed /\ Sending /\ Stages /\ OneAccount /\ Loading /\ Connected

LEMMA InitAccounts == Init => AccountsInv
  <1> SUFFICES ASSUME Init PROVE AccountsInv
    OBVIOUS
  <1>1. Stages /\ Loading /\ OneAccount /\ Connected
    BY Zenon DEF Init, Stages, Loading, OneAccount, Connected
  <1> QED BY <1>1, InitTyped DEF AccountsInv

LEMMA StepAccounts == AccountsInv /\ [Next]_vars => AccountsInv'
  BY StepTyped, StepStages, StepOneAccount, StepLoading, StepConnected DEF AccountsInv

(* A user has two active accounts only when the two connects overlapped.      *)
THEOREM OneAccountOrOverlap == Spec => []OneAccountUnlessOverlap
  <1>1. AccountsInv => OneAccountUnlessOverlap
    BY DEF AccountsInv, OneAccount, OneAccountUnlessOverlap, Accounts
  <1> QED BY <1>1, InitAccounts, StepAccounts, PTL DEF Spec

(* What is said of a request's keys, once they are looked up.                 *)
LEMMA LookedUp ==
  ASSUME AccountsInv, NEW q \in Requests, GetActiveClient(q), NEW c \in after[q],
         kind[c] = "connect", pc[c] = "done"
  PROVE  /\ used'[q].keys = "platform" => DisconnectedSince(c) /\ ~active[AccountOf(c)]
         /\ used'[q].keys \in after[c] => Overlapped
  <1> USE DEF AccountsInv, Typed, TypeOK
  <1> DEFINE a == ActiveForUser
             b == AccountOf(c)
  <1>1. c \in Requests /\ pc[c] = "done"
    OBVIOUS
  <1>2. b \in Requests /\ keys[b] # None /\ keys[b] \notin after[c] /\ (active[b] \/ DisconnectedSince(c))
    BY <1>1 DEF Connected, AccountOf
  <1>3. a \in Requests \cup {None} /\ (a = None => Accounts = {}) /\ (a # None => active[a])
    BY ActiveAccount DEF Accounts
  <1> HIDE DEF a, b
  <1>4. after[c] \subseteq Requests
    BY <1>1
  <1>5. pc[q] = "lookup" /\ used[q] = Unused
    BY DEF GetActiveClient, Stages
  <1>6. CASE used'[q] = used[q]
    <2>1. used'[q].keys = None
      BY <1>5, <1>6 DEF Unused
    <2> QED BY <2>1, <1>4, NoneAssumption
  <1>7. CASE a = None /\ used'[q] # used[q]
    <2>1. used'[q].keys = "platform"
      BY <1>7 DEF GetActiveClient, a
    <2>2. ~active[b]
      BY <1>2, <1>3, <1>7 DEF Accounts
    <2>3. ~active[AccountOf(c)]
      BY <2>2 DEF b
    <2> QED BY <1>2, <1>4, <2>1, <2>2, <2>3, RequestsAssumption
  <1>8. CASE a # None /\ used'[q] # used[q]
    <2>1. used'[q].keys = keys[a]
      BY <1>8 DEF GetActiveClient, a
    <2>2. a \in Requests /\ active[a] /\ keys[a] # None /\ keys[a] \in Requests
      BY <1>3, <1>8 DEF OneAccount
    <2>3. keys[a] # "platform"
      BY <2>2, RequestsAssumption
    <2>4. ASSUME keys[a] \in after[c] PROVE Overlapped
      <3>1. a # b
        BY <1>2, <2>4
      <3>2. a \notin after[b]
        BY <1>2, <2>2 DEF OneAccount
      <3>3. kind[keys[a]] = "connect" /\ a = AccountOf(keys[a])
        BY <2>2 DEF Connected
      <3>4. a \in after[c]
        BY <1>1, <2>2, <2>4, <3>3 DEF Loading, AccountOf
      <3>5. b \notin after[a]
        <4>1. CASE loaded[c] = None
          BY <4>1, <1>2, <1>1, <2>2, <3>4 DEF OneAccount, AccountOf, b
        <4>2. CASE loaded[c] # None
          BY <4>2, <1>1, <2>2, <3>4 DEF Loading, AccountOf, b
        <4> QED BY <4>1, <4>2
      <3> QED BY <1>2, <2>2, <3>1, <3>2, <3>5 DEF Overlapped
    <2> QED BY <2>1, <2>3, <2>4
  <1> QED BY <1>6, <1>7, <1>8

(* Only the lookup of the client gives an order keys. *)
LEMMA UsedKept ==
  ASSUME Typed, [Next]_vars, NEW q \in Requests
  PROVE  used'[q] = used[q] \/ GetActiveClient(q)
  BY DEF Next, Connect, Disconnect, Signal, PlaceOrder, vars, exchangeVars, Typed, TypeOK,
         StartConnect, Validate, LoadAccount, ConnectAccount, StartDisconnect, DisconnectAccount,
         StartSignal, StoreSignal, StartOrder, GetActiveClient, RefusedUnsent, SendOrder, OrderAnswered,
         OrderRefused, OrderTimesOut, RecordTrade, ArrivesLate, DatabaseFails

(* An account is never deleted, and what had ended when it was connected does *)
(* not change: an overlap once seen remains.                                 *)
LEMMA OverlapStays == AccountsInv /\ [Next]_vars /\ Overlapped => Overlapped'
  <1> SUFFICES ASSUME AccountsInv, [Next]_vars, Overlapped PROVE Overlapped'
    OBVIOUS
  <1> USE DEF AccountsInv, Typed, TypeOK
  <1>k. Kept
    BY StepKept
  <1>1. ASSUME NEW a \in Requests, keys[a] # None PROVE keys'[a] # None /\ after'[a] = after[a]
    BY <1>1, <1>k, RowsStay DEF Kept, OneAccount
  <1> QED BY <1>1 DEF Overlapped

LEMMA StepCurrent == AccountsInv /\ KeysAreCurrent /\ [Next]_vars => KeysAreCurrent'
  <1> SUFFICES ASSUME AccountsInv, KeysAreCurrent, [Next]_vars,
                      NEW q \in Requests, NEW c \in after'[q], kind'[c] = "connect", pc'[c] = "done"
               PROVE  /\ used'[q].keys = "platform" => DisconnectedSince(c)' /\ ~active'[AccountOf(c)']
                      /\ used'[q].keys \in after'[c] => Overlapped'
    BY DEF KeysAreCurrent
  <1> USE DEF AccountsInv, Typed, TypeOK
  <1>k. Kept
    BY StepKept
  <1>0. after' \in [Requests -> SUBSET Requests]
    BY StepTyped
  <1>1. CASE after'[q] = after[q]
    <2>1. c \in Requests /\ pc[c] = "done" /\ kind[c] = "connect"
      BY <1>1, <1>k DEF Kept, Stages
    <2>2. after'[c] = after[c] /\ AccountOf(c)' = AccountOf(c)
      BY <2>1, <1>k DEF Kept, AccountOf
    <2>3. DisconnectedSince(c) => DisconnectedSince(c)'
      BY <2>1, SinceStays
    <2>6. active'[AccountOf(c)] => active[AccountOf(c)]
      <3>1. AccountOf(c) \in Requests /\ pc[AccountOf(c)] \in Over
        BY <2>1 DEF Connected, OneAccount, AccountOf
      <3> QED BY <3>1, RowsStay
    <2>4. Overlapped => Overlapped'
      BY OverlapStays
    <2>5. /\ used'[q].keys = "platform" => DisconnectedSince(c) /\ ~active[AccountOf(c)]
          /\ used'[q].keys \in after[c] => Overlapped
      <3>1. CASE used'[q] = used[q]
        BY <1>1, <2>1, <3>1 DEF KeysAreCurrent
      <3>2. CASE GetActiveClient(q)
        BY <1>1, <2>1, <3>2, LookedUp
      <3> QED BY <3>1, <3>2, UsedKept
    <2> QED BY <2>2, <2>3, <2>4, <2>5, <2>6
  <1>2. CASE after'[q] # after[q]
    <2>1. pc[q] = "idle" /\ used[q] = Unused
      BY <1>2, <1>k DEF Kept, Stages
    <2>2. ~GetActiveClient(q)
      BY <2>1 DEF GetActiveClient
    <2>3. used'[q].keys = None
      BY <2>1, <2>2, UsedKept DEF Unused
    <2>4. after'[c] \subseteq Requests
      BY <1>0
    <2> QED BY <2>3, <2>4, NoneAssumption
  <1> QED BY <1>1, <1>2

(* An order that begins after a connect was answered goes out neither with    *)
(* the platform's keys, unless a disconnect took that connect's account away, *)
(* nor with keys that connect replaced, unless two connects overlapped.       *)
THEOREM KeysOfOrdersAreCurrent == Spec => []KeysAreCurrent
  <1>1. Init => KeysAreCurrent
    BY DEF Init, KeysAreCurrent
  <1> QED BY <1>1, InitAccounts, StepAccounts, StepCurrent, PTL DEF Spec
=============================================================================

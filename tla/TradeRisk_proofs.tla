-------------------------- MODULE TradeRisk_proofs --------------------------
(* Theorems about what RiskService lets through: orders after a ban, and the  *)
(* loss of a day.  Both count requests in flight, as TradeLimitHolds does.    *)
EXTENDS TradeExecution_proofs

USE DEF Goto, Reply, Leave

LEMMA BoundsAreNaturals == Slots \in Nat /\ MaxLoss \in Nat /\ Slots >= 1
  BY SlotsAssumption, LimitsAssumption

LEMMA SetsAreFinite ==
  ASSUME NEW S, S \subseteq Requests
  PROVE  IsFiniteSet(S) /\ Cardinality(S) \in Nat
  BY RequestsAssumption, FS_Subset, FS_CardinalityType

-----------------------------------------------------------------------------
(* Only requests that loaded an active user get past the count of trades. *)
LEMMA ActiveWhenCounted ==
  ASSUME TypeOK, BanInv, [Next]_vars
  PROVE  \A r \in Requests : pc'[r] \in {"loss", "place"} => snap'[r]
  <1> USE DEF BanInv, TypeOK, PCs
  <1>1. ASSUME NEW r \in Requests, Arrive(r)
        PROVE  \A s \in Requests : pc'[s] \in {"loss", "place"} => snap'[s]
    BY <1>1 DEF Arrive
  <1>2. ASSUME NEW r \in Requests, CountTrades(r)
        PROVE  \A s \in Requests : pc'[s] \in {"loss", "place"} => snap'[s]
    BY <1>2 DEF CountTrades, MayTrade
  <1>3. ASSUME NEW r \in Requests, Step(r), ~CountTrades(r)
        PROVE  \A s \in Requests : pc'[s] \in {"loss", "place"} => snap'[s]
    BY <1>3 DEF Step, Proceed, PreCheck, EnterLock, Busy, ReCheck, LookUp, SumPnl,
       PlaceOrder, PlaceOrderAgain, PlaceOrderFails, Insert, Commit, DatabaseFails, Enqueue, EnqueueFails, ExitLock
  <1>4. ASSUME NEW p \in Procs, Crash(p)
        PROVE  \A s \in Requests : pc'[s] \in {"loss", "place"} => snap'[s]
    BY <1>4 DEF Crash
  <1>5. ASSUME \/ \E k \in Keys : Expire(k)
               \/ \E p \in Procs, k \in Keys : ExpireInProcess(p, k)
               \/ SetActive
               \/ UNCHANGED vars
        PROVE  UNCHANGED <<pc, snap>>
    BY <1>5 DEF Expire, ExpireInProcess, SetActive, vars, requestVars
  <1> QED BY <1>1, <1>2, <1>3, <1>4, <1>5 DEF Next

(* While the user stays banned, an order sent late was on its way before. *)
LEMMA NoneJoinsWhileBanned ==
  ASSUME TypeOK, BanInv, [Next]_vars, ~userActive, ~userActive'
  PROVE  Ordering' \cup Onward' \subseteq Ordering \cup Onward
  <1> USE DEF BanInv, TypeOK, PCs, Onward
  <1> DEFINE Goal == Ordering' \cup Onward' \subseteq Ordering \cup Onward
  <1>s. late' = late => Ordering' = Ordering
    BY DEF Ordering
  <1>1. ASSUME NEW r \in Requests, Arrive(r) PROVE Goal
    BY <1>s, <1>1 DEF Arrive
  <1>2. ASSUME NEW r \in Requests, PlaceOrder(r) \/ PlaceOrderAgain(r) \/ PlaceOrderFails(r) PROVE Goal
    <2>1. r \in Onward
      BY <1>2 DEF PlaceOrder, PlaceOrderAgain, PlaceOrderFails
    <2>2. Onward' \subseteq Onward
      BY <1>2 DEF PlaceOrder, PlaceOrderAgain, PlaceOrderFails
    <2>3. late' = late \/ late' = late \cup {<<r, attempts[r] + 1>>}
      BY <1>2 DEF PlaceOrder, PlaceOrderAgain, PlaceOrderFails, Send
    <2>4. Ordering' \subseteq Ordering \cup {r}
      BY <2>3 DEF Ordering
    <2> QED BY <2>1, <2>2, <2>4
  <1>3. ASSUME NEW r \in Requests,
               \/ PreCheck(r) \/ EnterLock(r) \/ Busy(r) \/ ReCheck(r) \/ CountTrades(r)
               \/ SumPnl(r) \/ Insert(r) \/ Commit(r) \/ DatabaseFails(r)
               \/ Enqueue(r) \/ EnqueueFails(r) \/ ExitLock(r)
        PROVE  Goal
    BY <1>s, <1>3 DEF PreCheck, EnterLock, Busy, ReCheck, LookUp, CountTrades, SumPnl,
       Insert, Commit, DatabaseFails, Enqueue, EnqueueFails, ExitLock
  <1>4. ASSUME NEW p \in Procs, Crash(p) PROVE Goal
    BY <1>s, <1>4 DEF Crash
  <1>5. ASSUME \/ \E k \in Keys : Expire(k)
               \/ \E p \in Procs, k \in Keys : ExpireInProcess(p, k)
               \/ UNCHANGED vars
        PROVE  UNCHANGED <<pc, snap, late>>
    BY <1>5 DEF Expire, ExpireInProcess, vars, requestVars
  <1>6. ~SetActive
    BY DEF SetActive
  <1> QED BY <1>s, <1>1, <1>2, <1>3, <1>4, <1>5, <1>6 DEF Next, Step, Proceed

LEMMA BanStep == TypeOK /\ BanInv /\ [Next]_vars => BanInv'
  <1> SUFFICES ASSUME TypeOK, BanInv, [Next]_vars PROVE BanInv'
    OBVIOUS
  <1>1. TypeOK'
    BY TypeStep
  <1>2. Cardinality(InFlight') <= Slots
    BY InFlightStep DEF BanInv
  <1>3. ASSUME ~userActive' PROVE Cardinality((Ordering \cup Onward)') <= Slots
    <2>f. /\ IsFiniteSet(InFlight') /\ Cardinality(InFlight') \in Nat
          /\ IsFiniteSet(Ordering \cup Onward) /\ Cardinality(Ordering \cup Onward) \in Nat
          /\ IsFiniteSet((Ordering \cup Onward)') /\ Cardinality((Ordering \cup Onward)') \in Nat
      BY SetsAreFinite DEF InFlight, Onward, Ordering
    <2>1. CASE ~userActive
      <3>1. Cardinality((Ordering \cup Onward)') <= Cardinality(Ordering \cup Onward)
        BY <1>3, <2>1, <2>f, NoneJoinsWhileBanned, FS_Subset
      <3>2. Cardinality(Ordering \cup Onward) <= Slots
        BY <2>1 DEF BanInv
      <3> QED BY <3>1, <3>2, <2>f, BoundsAreNaturals
    <2>2. CASE userActive
      <3>1. SetActive
        BY <1>3, <2>2 DEF Next, vars, Arrive, Step, Proceed, PreCheck, EnterLock, Busy, ReCheck,
           LookUp, CountTrades, SumPnl, PlaceOrder, PlaceOrderAgain, PlaceOrderFails, Insert, Commit,
           DatabaseFails, Enqueue, EnqueueFails, ExitLock, Crash, Expire, ExpireInProcess
      <3>2. (Ordering \cup Onward)' \subseteq InFlight'
        BY <3>1 DEF SetActive, requestVars, Ordering, Onward, InFlight, Running
      <3>3. Cardinality((Ordering \cup Onward)') <= Cardinality(InFlight')
        BY <3>2, <2>f, FS_Subset
      <3> QED BY <3>3, <1>2, <2>f, BoundsAreNaturals
    <2> QED BY <2>1, <2>2
  <1> QED BY <1>2, <1>3, ActiveWhenCounted DEF BanInv

(* What Slots requests can send is at most all attempts of each. *)
LEMMA AttemptsOfFew ==
  ASSUME late \subseteq Requests \X (1..Attempts), Cardinality(Ordering) <= Slots
  PROVE  Cardinality(late) <= Slots * Attempts
  <1>n. Attempts \in Nat /\ Slots \in Nat
    BY AttemptsAssumption, BoundsAreNaturals
  <1>f. IsFiniteSet(Ordering) /\ Cardinality(Ordering) \in Nat
    BY SetsAreFinite DEF Ordering
  <1>i. IsFiniteSet(1..Attempts) /\ Cardinality(1..Attempts) = Attempts
    BY <1>n, FS_Interval
  <1> DEFINE All == Ordering \X (1..Attempts)
  <1>1. late \subseteq All
    BY DEF Ordering
  <1>2. IsFiniteSet(All) /\ Cardinality(All) = Cardinality(Ordering) * Attempts
    <2>1. IsFiniteSet(All) /\ Cardinality(All) = Cardinality(Ordering) * Cardinality(1..Attempts)
      BY <1>f, <1>i, FS_Product
    <2> QED BY <2>1, <1>i
  <1>3. Cardinality(late) <= Cardinality(All)
    BY <1>1, <1>2, FS_Subset
  <1>4. Cardinality(late) \in Nat
    BY <1>1, <1>2, FS_Subset, FS_CardinalityType
  <1>5. ASSUME NEW a \in Nat, NEW b \in Nat, NEW c \in Nat, a <= b PROVE a * c <= b * c
    BY <1>5
  <1>6. Cardinality(Ordering) * Attempts <= Slots * Attempts
    BY <1>5, <1>f, <1>n
  <1>7. Cardinality(Ordering) * Attempts \in Nat /\ Slots * Attempts \in Nat
    BY <1>f, <1>n
  <1> HIDE DEF All
  <1> QED BY <1>2, <1>3, <1>4, <1>6, <1>7

(* While a user is banned, no more orders are sent to the exchange than there  *)
(* are threads, each in the attempts of one call: those of requests that had   *)
(* loaded him before.                                                         *)
THEOREM BanIsAlwaysPrompt == Spec => []BanIsPrompt
  <1>1. Init => BanInv
    <2> SUFFICES ASSUME Init PROVE BanInv
      OBVIOUS
    <2>1. InFlight = {} /\ userActive
      BY DEF Init, InFlight, Running
    <2> QED BY <2>1, FS_EmptySet, BoundsAreNaturals DEF Init, BanInv
  <1>2. TypeOK /\ BanInv => BanIsPrompt
    <2> SUFFICES ASSUME TypeOK, BanInv, ~userActive PROVE Cardinality(late) <= Slots * Attempts
      BY DEF BanIsPrompt
    <2>1. /\ IsFiniteSet(Ordering \cup Onward) /\ Cardinality(Ordering \cup Onward) \in Nat
          /\ Cardinality(Ordering) \in Nat
      BY SetsAreFinite DEF Ordering, Onward
    <2>2. Cardinality(Ordering) <= Cardinality(Ordering \cup Onward)
      BY <2>1, FS_Subset
    <2>3. Cardinality(Ordering) <= Slots
      BY <2>1, <2>2, BoundsAreNaturals DEF BanInv
    <2> QED BY <2>3, AttemptsOfFew DEF TypeOK
  <1> QED BY <1>1, <1>2, BanStep, TypeCorrect, PTL DEF Spec

-----------------------------------------------------------------------------
(* The day's estimate falls by one with each bought trade that is committed    *)
(* and rises with each sold one.                                              *)
LEMMA PnlOfOneMore ==
  ASSUME NEW S, S \subseteq Requests, NEW r \in Requests, r \notin S
  PROVE  /\ Cardinality(Bought(S \cup {r}))
              = IF req[r].side = "BUY" THEN Cardinality(Bought(S)) + 1 ELSE Cardinality(Bought(S))
         /\ Cardinality((S \cup {r}) \ Bought(S \cup {r}))
              = IF req[r].side = "BUY" THEN Cardinality(S \ Bought(S))
                ELSE Cardinality(S \ Bought(S)) + 1
  <1>1. IsFiniteSet(Bought(S)) /\ IsFiniteSet(S \ Bought(S))
    BY SetsAreFinite DEF Bought
  <1>2. CASE req[r].side = "BUY"
    <2>1. /\ Bought(S \cup {r}) = Bought(S) \cup {r}
          /\ (S \cup {r}) \ Bought(S \cup {r}) = S \ Bought(S)
          /\ r \notin Bought(S)
      BY <1>2 DEF Bought
    <2> QED BY <1>1, <1>2, <2>1, FS_AddElement
  <1>3. CASE req[r].side # "BUY"
    <2>1. /\ Bought(S \cup {r}) = Bought(S)
          /\ (S \cup {r}) \ Bought(S \cup {r}) = (S \ Bought(S)) \cup {r}
          /\ r \notin S \ Bought(S)
      BY <1>3 DEF Bought
    <2> QED BY <1>1, <1>3, <2>1, FS_AddElement
  <1> QED BY <1>2, <1>3

(* What a step does to the buys on their way: it lets one in while the day is  *)
(* open, or commits one trade, or adds none.                                  *)
LEMMA BuyingStep ==
  ASSUME TypeOK, Progress, [Next]_vars
  PROVE  /\ req' = req
         /\ \/ trades' = trades /\ Buying' \subseteq Buying
            \/ trades' = trades /\ MayLose /\ Buying' \subseteq InFlight'
            \/ \E r \in Requests \ trades :
                 /\ trades' = trades \cup {r}
                 /\ Buying' = Buying \ {r}
                 /\ req[r].side = "BUY" => r \in Buying
  <1> USE DEF Buying, Bought, TypeOK, PCs
  <1> DEFINE Same == req' = req /\ trades' = trades /\ Buying' \subseteq Buying
             In == req' = req /\ trades' = trades /\ MayLose /\ Buying' \subseteq InFlight'
             Recorded == \E r \in Requests \ trades :
                 /\ req' = req
                 /\ trades' = trades \cup {r}
                 /\ Buying' = Buying \ {r}
                 /\ req[r].side = "BUY" => r \in Buying
  <1>1. ASSUME NEW r \in Requests,
               \/ Arrive(r) \/ PreCheck(r) \/ ReCheck(r) \/ Busy(r) \/ EnterLock(r) \/ ExitLock(r)
        PROVE  Same
    BY <1>1 DEF Arrive, PreCheck, ReCheck, LookUp, Busy, EnterLock, ExitLock
  <1>2. ASSUME NEW r \in Requests,
               \/ CountTrades(r) \/ PlaceOrder(r) \/ PlaceOrderAgain(r) \/ PlaceOrderFails(r) \/ Insert(r)
               \/ Enqueue(r) \/ EnqueueFails(r)
        PROVE  Same
    BY <1>2 DEF CountTrades, PlaceOrder, PlaceOrderAgain, PlaceOrderFails, Insert, Enqueue, EnqueueFails
  <1>3. ASSUME NEW r \in Requests, SumPnl(r) PROVE Same \/ In
    <2>1. CASE MayLose
      BY <1>3, <2>1 DEF SumPnl, InFlight, Running
    <2>2. CASE ~MayLose
      BY <1>3, <2>2 DEF SumPnl
    <2> QED BY <2>1, <2>2
  <1>4. ASSUME NEW r \in Requests, Commit(r) \/ DatabaseFails(r) PROVE Same \/ Recorded
    <2>1. CASE pc[r] = "commit" /\ trades' # trades
      <3>1. r \notin trades
        BY <2>1 DEF Progress
      <3>2. req' = req /\ trades' = trades \cup {r}
        BY <1>4, <2>1 DEF Commit, DatabaseFails
      <3>3. Buying' = Buying \ {r}
        BY <1>4, <2>1, <3>2 DEF Commit, DatabaseFails
      <3>4. req[r].side = "BUY" => r \in Buying
        BY <2>1
      <3> QED BY <3>1, <3>2, <3>3, <3>4
    <2>2. CASE ~(pc[r] = "commit" /\ trades' # trades)
      BY <1>4, <2>2 DEF Commit, DatabaseFails
    <2> QED BY <2>1, <2>2
  <1>5. ASSUME NEW p \in Procs, Crash(p) PROVE Same
    BY <1>5 DEF Crash
  <1>6. ASSUME \/ \E k \in Keys : Expire(k)
               \/ \E p \in Procs, k \in Keys : ExpireInProcess(p, k)
               \/ SetActive
               \/ UNCHANGED vars
        PROVE  Same
    BY <1>6 DEF Expire, ExpireInProcess, SetActive, vars, requestVars
  <1> HIDE DEF Buying
  <1> QED BY <1>1, <1>2, <1>3, <1>4, <1>5, <1>6 DEF Next, Step, Proceed

LEMMA LossStep == TypeOK /\ Progress /\ LossInv /\ [Next]_vars => LossInv'
  <1> SUFFICES ASSUME TypeOK, Progress, LossInv, [Next]_vars PROVE LossInv'
    OBVIOUS
  <1>1. TypeOK'
    BY TypeStep
  <1>2. Cardinality(InFlight') <= Slots
    BY InFlightStep DEF LossInv
  <1> DEFINE Sold == trades \ Bought(trades)
  <1>f. /\ IsFiniteSet(Buying) /\ IsFiniteSet(Buying') /\ IsFiniteSet(InFlight')
    BY SetsAreFinite DEF Buying, Bought, InFlight
  <1>n. /\ Cardinality(Buying) \in Nat /\ Cardinality(Buying') \in Nat
        /\ Cardinality(InFlight') \in Nat
        /\ Cardinality(Bought(trades)) \in Nat /\ Cardinality(Sold) \in Nat
        /\ Cardinality(Bought(trades)') \in Nat /\ Cardinality(Sold') \in Nat
    BY <1>1, SetsAreFinite DEF TypeOK, Buying, Bought, InFlight
  <1>3. Cardinality(Buying) + Cardinality(Bought(trades)) - Cardinality(Sold) <= MaxLoss - 1 + Slots
    BY <1>n, BoundsAreNaturals DEF LossInv, RealizedPnl
  <1>g. ASSUME Cardinality(Buying') + Cardinality(Bought(trades)') - Cardinality(Sold')
                 <= MaxLoss - 1 + Slots
        PROVE  LossInv'
    BY <1>g, <1>2, <1>n, BoundsAreNaturals DEF LossInv, RealizedPnl
  <1>4. CASE trades' = trades
    <2>1. Bought(trades)' = Bought(trades) /\ Sold' = Sold
      BY <1>4, BuyingStep DEF Bought
    <2>2. CASE Buying' \subseteq Buying
      <3>1. Cardinality(Buying') <= Cardinality(Buying)
        BY <2>2, <1>f, FS_Subset
      <3> QED BY <1>3, <1>g, <1>n, <2>1, <3>1, BoundsAreNaturals
    <2>3. CASE MayLose /\ Buying' \subseteq InFlight'
      <3>1. Cardinality(Buying') <= Cardinality(InFlight')
        BY <2>3, <1>f, FS_Subset
      <3>2. Cardinality(Bought(trades)) - Cardinality(Sold) <= MaxLoss - 1
        BY <2>3, <1>n, BoundsAreNaturals DEF MayLose, RealizedPnl
      <3>3. Cardinality(Buying') + Cardinality(Bought(trades)') - Cardinality(Sold') <= MaxLoss - 1 + Slots
        <4> HIDE DEF Sold
        <4>1. Cardinality(Buying') <= Slots
          BY <1>2, <1>n, <3>1, BoundsAreNaturals
        <4> QED BY <1>n, <2>1, <3>2, <4>1, BoundsAreNaturals
      <3> QED BY <1>g, <3>3
    <2>4. CASE \E r \in Requests \ trades : trades' = trades \cup {r}
      <3> PICK r \in Requests \ trades : trades' = trades \cup {r}
        BY <2>4
      <3>1. r \in trades'
        OBVIOUS
      <3> QED BY <1>4, <3>1
    <2> QED BY <2>2, <2>3, <2>4, BuyingStep
  <1>5. ASSUME NEW r \in Requests \ trades,
               trades' = trades \cup {r}, Buying' = Buying \ {r},
               req[r].side = "BUY" => r \in Buying
        PROVE  LossInv'
    <2>1. req' = req
      BY BuyingStep
    <2>2. Bought(trades)' = Bought(trades \cup {r}) /\ Sold' = (trades \cup {r}) \ Bought(trades \cup {r})
      BY <1>5, <2>1 DEF Bought
    <2>3. CASE req[r].side = "BUY"
      <3>1. Cardinality(Bought(trades)') = Cardinality(Bought(trades)) + 1 /\ Cardinality(Sold') = Cardinality(Sold)
        BY <2>2, <2>3, PnlOfOneMore DEF TypeOK
      <3>2. Cardinality(Buying') = Cardinality(Buying) - 1
        BY <1>5, <2>3, <1>f, FS_RemoveElement
      <3> QED BY <1>3, <1>g, <1>n, <3>1, <3>2, BoundsAreNaturals
    <2>4. CASE req[r].side # "BUY"
      <3>1. Cardinality(Bought(trades)') = Cardinality(Bought(trades)) /\ Cardinality(Sold') = Cardinality(Sold) + 1
        BY <2>2, <2>4, PnlOfOneMore DEF TypeOK
      <3>2. Cardinality(Buying') <= Cardinality(Buying)
        BY <1>5, <1>f, FS_Subset
      <3> QED BY <1>3, <1>g, <1>n, <3>1, <3>2, BoundsAreNaturals
    <2> QED BY <2>3, <2>4
  <1> QED BY <1>4, <1>5, BuyingStep

(* The day's estimated loss exceeds the user's limit by less than the number   *)
(* of threads, however requests, crashes and errors interleave.               *)
THEOREM LossLimitHolds == Spec => []LossLimit
  <1>1. Init => LossInv
    <2> SUFFICES ASSUME Init PROVE LossInv
      OBVIOUS
    <2>1. InFlight = {} /\ Buying = {} /\ Bought(trades) = {} /\ trades = {}
      BY DEF Init, InFlight, Running, Buying, Bought
    <2>2. RealizedPnl = 0
      BY <2>1, FS_EmptySet DEF RealizedPnl
    <2> QED BY <2>1, <2>2, FS_EmptySet, BoundsAreNaturals DEF LossInv
  <1>2. KeyInv /\ LossInv /\ [Next]_vars => LossInv'
    BY LossStep DEF KeyInv
  <1>3. KeyInv /\ LossInv => LossLimit
    <2> SUFFICES ASSUME TypeOK, LossInv PROVE LossLimit
      BY DEF KeyInv
    <2>1. /\ Cardinality(Buying) \in Nat /\ Cardinality(Bought(trades)) \in Nat
          /\ Cardinality(trades \ Bought(trades)) \in Nat
      BY SetsAreFinite DEF TypeOK, Buying, Bought
    <2> QED BY <2>1, BoundsAreNaturals DEF LossInv, LossLimit, RealizedPnl
  <1> QED BY <1>1, <1>2, <1>3, KeyInvariant, PTL DEF Spec

=============================================================================

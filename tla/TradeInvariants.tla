--------------------------- MODULE TradeInvariants ---------------------------
(* What is true between any two steps of TradeExecution: the inductive        *)
(* invariants behind its safety properties.                                   *)
EXTENDS TradeExecution

(* Before the exchange is called there is neither order nor trade; between    *)
(* the call and the commit there is an order and no trade.                    *)
Early == {"idle", "precheck", "lock", "busy", "recheck", "risk", "loss"}

Progress ==
    /\ \A r \in Requests :
         /\ pc[r] \in Early => r \notin Ordered /\ r \notin trades
         /\ pc[r] = "place" => r \notin trades
         /\ pc[r] \in {"insert", "commit"} => r \in Ordered /\ r \notin trades
         /\ pc[r] = "enqueue" => r \in trades /\ ~req[r].copy
         /\ pc[r] \in Early \cup {"place", "insert", "commit", "enqueue"} => answer[r] = None
         /\ answer[r] \in Requests => answer[r] \in trades /\ (answer[r] = r \/ SameKey(r, answer[r]))
    /\ trades \subseteq Ordered

(* The unique index also counts rows that are not committed. *)
UniqueIndex ==
    \A r, s \in trades \cup Pending : SameKey(r, s) => r = s

(* An order nothing went wrong for is on its way to the table, or in it.      *)
CleanOrderIsRecorded ==
    \A r \in Ordered : Keyed(r) /\ Clean(r) =>
        pc[r] \in {"place", "insert", "commit"} \/ r \in trades

(* A request past the second lookup that still owns its lock knows that no    *)
(* clean trade has its key.                                                   *)
LookupStillHolds ==
    \A r \in Requests, s \in trades :
        /\ pc[r] \in {"risk", "loss", "place", "insert", "commit"}
        /\ method[r] = "redis"
        /\ r \notin lost
        /\ SameKey(r, s)
        => ~Clean(s)

KeyInv ==
    /\ TypeOK
    /\ Progress
    /\ UniqueIndex
    /\ LiveTokenKept
    /\ CleanOrderIsRecorded
    /\ LookupStillHolds

(* Requests between the count of the day's trades and their own commit. *)
Counted == {r \in Requests : pc[r] \in {"loss", "place", "insert", "commit"}}

(* The limit is overshot by what is in flight: a request is let through when  *)
(* fewer than MaxTrades are recorded and at most Slots - 1 others are ahead.  *)
LimitInv ==
    /\ TypeOK
    /\ Cardinality(InFlight) <= Slots
    /\ Cardinality(trades) + Cardinality(Counted) <= MaxTrades - 1 + Slots

(* Requests that loaded the user before a ban and may still order.            *)
Onward ==
    {r \in Requests : snap[r] /\ pc[r] \in {"precheck", "lock", "busy", "recheck", "risk", "loss", "place"}}

(* Requests that have sent an attempt since the ban. *)
Ordering == {r \in Requests : \E n \in 1..Attempts : <<r, n>> \in late}

(* While the user is banned, requests that have ordered since the ban and     *)
(* requests that may still order were together in flight when he was banned.  *)
BanInv ==
    /\ Cardinality(InFlight) <= Slots
    /\ \A r \in Requests : pc[r] \in {"loss", "place"} => snap[r]
    /\ ~userActive => Cardinality(Ordering \cup Onward) <= Slots

(* Buys that were found to leave the day open and are not committed yet.      *)
Buying == Bought({r \in Requests : pc[r] \in {"place", "insert", "commit"}})

(* The loss limit is overshot by what is in flight, as the number of trades is. *)
LossInv ==
    /\ Cardinality(InFlight) <= Slots
    /\ Cardinality(Buying) - RealizedPnl <= MaxLoss - 1 + Slots

=============================================================================

--------------------------- MODULE IdempotentOrders ---------------------------
(***************************************************************************)
(* What order execution promises its clients, whatever happens to locks,    *)
(* processes and connections: requests that carry one idempotency key       *)
(* record one trade between them, and each is told of that trade, told of   *)
(* an error, or told nothing.  TradeExecution implements this.              *)
(***************************************************************************)
CONSTANTS Requests, Keys, None

VARIABLES
    key,       \* the idempotency key of each request, or None
    recorded,  \* the requests whose trade is recorded
    told       \* what each request has been told: a trade, "error" or nothing

ordersVars == <<key, recorded, told>>

Alike(r, s) == r = s \/ (key[r] # None /\ key[r] = key[s])

OrdersInit ==
    /\ key \in [Requests -> Keys \cup {None}]
    /\ recorded = {}
    /\ told = [r \in Requests |-> None]

(* The trade is recorded; the client learns of it, or of an error, with the *)
(* same step or later.                                                      *)
Record(r) ==
    /\ told[r] = None
    /\ \A s \in recorded : ~Alike(r, s)
    /\ recorded' = recorded \cup {r}
    /\ \E what \in {None, r, "error"} : told' = [told EXCEPT ![r] = what]
    /\ UNCHANGED key

Tell(r) ==
    /\ told[r] = None
    /\ \E t \in recorded : Alike(r, t) /\ told' = [told EXCEPT ![r] = t]
    /\ UNCHANGED <<key, recorded>>

Refuse(r) ==
    /\ told[r] = None
    /\ told' = [told EXCEPT ![r] = "error"]
    /\ UNCHANGED <<key, recorded>>

OrdersNext == \E r \in Requests : Record(r) \/ Tell(r) \/ Refuse(r)

OrdersSpec == OrdersInit /\ [][OrdersNext]_ordersVars

=============================================================================

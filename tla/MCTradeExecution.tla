--------------------------- MODULE MCTradeExecution ---------------------------
(* Small instances of TradeExecution. *)
EXTENDS TradeInvariants, TLC

CONSTANTS r1, r2, r3, r4,  \* requests
          k1, c1,          \* a client's key, the key of a copy
          p1, p2           \* worker processes

Keyed1 == [key: {k1}, side: {"BUY"}, copy: {FALSE}, proc: {p1, p2}]
Copy1 == [key: {c1}, side: {"BUY"}, copy: {TRUE}, proc: {p2}]
Unkeyed(sides) == [key: {None}, side: sides, copy: {FALSE}, proc: {p1}]

(* Retries of one keyed order, in either process. *)
KeyedRetries == Keyed1

(* Orders without a key, a copy that is delivered more than once. *)
DayOrders == Unkeyed({"BUY", "SELL"}) \cup Copy1

(* A keyed order, a copy that is delivered more than once, others. *)
MixedOrders == Keyed1 \cup Copy1 \cup Unkeyed({"BUY"})

RequestSymmetry == Permutations(Requests)

=============================================================================

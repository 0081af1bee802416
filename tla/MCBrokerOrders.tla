---------------------------- MODULE MCBrokerOrders ----------------------------
(* Small instances of BrokerOrders: four requests of one user, of which the *)
(* first three may bring keys: valid at the alternate URL, at the primary   *)
(* one, and at both.                                                       *)
EXTENDS BrokerOrders, TLC

CONSTANTS r1, r2, r3, r4

MCValidAt == r1 :> {"alternate"} @@ r2 :> {"primary"} @@ r3 :> {"primary", "alternate"} @@ r4 :> {}

Together == {
    <<"connect", "connect", "connect", "order">>,
    <<"connect", "connect", "disconnect", "order">>,
    <<"connect", "disconnect", "connect", "order">>,
    <<"connect", "signal", "signal", "disconnect">> }

MCWorkloads == {r1 :> w[1] @@ r2 :> w[2] @@ r3 :> w[3] @@ r4 :> w[4] : w \in Together}

=============================================================================

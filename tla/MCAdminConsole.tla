---------------------------- MODULE MCAdminConsole ----------------------------
(* Small instances of AdminConsole: three requests, two of them in one      *)
(* process, with the workloads in which they meet.                         *)
EXTENDS AdminConsole, TLC

CONSTANTS r1, r2, r3

MCProcessOf == r1 :> "p1" @@ r2 :> "p2" @@ r3 :> "p1"

(* Two changes of one table and a read that counts it, or a change and two *)
(* reads: one that fills the cache, and one that finds it filled.          *)
Together == {
    <<"close", "close", "growth">>,
    <<"ban", "summary", "summary">>,
    <<"create_strategy", "create_strategy", "metrics">>,
    <<"update_strategy", "delete_strategy", "activities">>,
    <<"create_strategy", "update_strategy", "close">>,
    <<"create_strategy", "own_strategy", "summary">>,
    <<"own_strategy", "bulk_delete", "summary">>,
    <<"bulk_delete", "delete_strategy", "bulk_flag">>,
    <<"bulk_duplicate", "update_strategy", "activities">>,
    <<"create_article", "update_article", "delete_article">>,
    <<"delete_article", "delete_article", "create_article">>,
    <<"settings", "get_settings", "seed">>,
    <<"settings", "settings", "metrics">>,
    <<"close", "growth", "growth">>,
    <<"broadcast", "sync", "ban">>,
    <<"sync", "activities", "activities">> }

MCWorkloads == {r1 :> w[1] @@ r2 :> w[2] @@ r3 :> w[3] : w \in Together}

=============================================================================

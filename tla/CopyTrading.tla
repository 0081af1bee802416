----------------------------- MODULE CopyTrading -----------------------------
(***************************************************************************)
(* Copying a leader's trades (app/services/copy_service.py,                *)
(* app/tasks/trading.py).  Users follow leaders; committing a leader's      *)
(* trade publishes replicate_leader_trade, which fans out to one            *)
(* execute_follower_copy_trade per follower.  The tasks run in Celery       *)
(* workers that acknowledge a message when they start on it: a worker that  *)
(* dies loses its task, and the broker may deliver a message again.         *)
(*                                                                         *)
(* A copy is executed as IdempotentOrders promises, under a key made of the *)
(* leader's trade and the follower: TradeExecution shows how.               *)
(***************************************************************************)
EXTENDS Naturals, Sequences, FiniteSets

CONSTANTS
    Users,      \* accounts, all of them possible leaders and followers
    Requested,  \* <<leader, follower>> pairs that are ever subscribed
    Orders,     \* orders that leaders place themselves
    Workers,    \* Celery worker threads
    Faults      \* see FaultKinds

(* "balance":   fetching a balance from the exchange fails                  *)
(* "reject":    executing a copy fails: limits, exchange, scaled to nothing *)
(* "redeliver": a message stays in the queue when it is delivered           *)
(* "crash":     a worker dies and loses its task                            *)
(* "publish":   the process dies between commit and publication             *)
FaultKinds == {"balance", "reject", "redeliver", "crash", "publish"}

ASSUME RequestedAssumption == Requested \subseteq Users \X Users
ASSUME FaultsAssumption == Faults \subseteq FaultKinds

(* A trade: the order at its origin and the users it went through, the last *)
(* one its owner.                                                           *)
Trade == [order: Orders, path: Seq(Users)]
Owner(t) == t.path[Len(t.path)]

(* Faulty variant: the order's id where the follower's belongs.             *)
CopyForOrder(t, f) == [t EXCEPT !.path = Append(@, t.order)]

CopyFor(t, f) == [t EXCEPT !.path = Append(@, f)]

VARIABLES
    follows,     \* rows of copy_relationships: <<leader, follower>>
    trades,      \* committed trades
    toReplicate, \* messages of replicate_leader_trade: trades
    toCopy,      \* messages of execute_follower_copy_trade: <<trade, follower>>
    task,        \* what each worker is doing
    since,       \* history: <<trade, user>>, the user followed the trade's
                 \*   owner at its commit or later
    listed,      \* history: <<trade, follower>> read by the replication
    failed,      \* history: <<trade, follower>> whose own copy failed, or
                 \*   whose replication or copy died with its worker
    cut          \* history: <<trade, follower>> still to come when the
                 \*   replication failed for another follower

vars == <<follows, trades, toReplicate, toCopy, task, since, listed, failed, cut>>

Idle == [kind |-> "idle"]
Replication == [kind: {"replicate"}, trade: Trade, step: {"leader", "list"}]
FanOut == [kind: {"fanout"}, trade: Trade, left: SUBSET Users]
Copying == [kind: {"copy"}, trade: Trade, follower: Users, step: {"lookup", "record"}]

Followers(u) == {f \in Users : <<u, f>> \in follows}

Init ==
    /\ follows = {}
    /\ trades = {}
    /\ toReplicate = {}
    /\ toCopy = {}
    /\ task = [w \in Workers |-> Idle]
    /\ since = {}
    /\ listed = {}
    /\ failed = {}
    /\ cut = {}

Become(w, job) == task' = [task EXCEPT ![w] = job]
End(w) == Become(w, Idle)
Does(w, kind) == task[w].kind = kind

(* Faulty variant: a message that is never acknowledged. *)
DeliverForEver(queue, m) == {queue}

(* A delivered message leaves its queue, or is delivered again later. *)
Deliver(queue, m) == {queue \ {m}} \cup (IF "redeliver" \in Faults THEN {queue} ELSE {})

-----------------------------------------------------------------------------
(* CopyService.subscribe: nobody follows himself, and a pair is one row.    *)
Subscribe(leader, follower) ==
    /\ leader # follower
    /\ <<leader, follower>> \in Requested \ follows
    /\ follows' = follows \cup {<<leader, follower>>}
    /\ since' = since \cup {<<t, follower>> : t \in {t \in trades : Owner(t) = leader}}
    /\ UNCHANGED <<trades, toReplicate, toCopy, task, listed, failed, cut>>

Unsubscribe(leader, follower) ==
    /\ <<leader, follower>> \in follows
    /\ follows' = follows \ {<<leader, follower>>}
    /\ UNCHANGED <<trades, toReplicate, toCopy, task, since, listed, failed, cut>>

(* execute_trade of an order of one's own: commit, then publish.            *)
PlaceOwnTrade(o, u) ==
    LET t == [order |-> o, path |-> <<u>>]
    IN /\ \A s \in trades : s.order # o
       /\ trades' = trades \cup {t}
       /\ \/ toReplicate' = toReplicate \cup {t}
          \/ "publish" \in Faults /\ UNCHANGED toReplicate
       /\ since' = since \cup {<<t, f>> : f \in Followers(u)}
       /\ UNCHANGED <<follows, toCopy, task, listed, failed, cut>>

-----------------------------------------------------------------------------
(* replicate_leader_trade: load the trade, which may be missing, fetch the  *)
(* leader's balance, list the followers, then one follower after another.   *)

StartReplication(w, t) ==
    /\ Does(w, "idle")
    /\ t \in toReplicate
    /\ toReplicate' \in Deliver(toReplicate, t)
    /\ IF t \in trades
         THEN Become(w, [kind |-> "replicate", trade |-> t, step |-> "leader"])
         ELSE End(w)
    /\ UNCHANGED <<follows, trades, toCopy, since, listed, failed, cut>>

LeaderBalance(w) ==
    /\ Does(w, "replicate")
    /\ task[w].step = "leader"
    /\ \/ Become(w, [task[w] EXCEPT !.step = "list"]) /\ UNCHANGED failed
       \/ /\ "balance" \in Faults
          /\ failed' = failed \cup {<<task[w].trade, f>> : f \in Users}
          /\ End(w)
    /\ UNCHANGED <<follows, trades, toReplicate, toCopy, since, listed, cut>>

(* Faulty variant: the users the leader follows instead of his followers.   *)
ListLeaders(w) ==
    /\ Does(w, "replicate")
    /\ task[w].step = "list"
    /\ LET t == task[w].trade
           left == {f \in Users : <<f, Owner(t)>> \in follows}
       IN /\ Become(w, [kind |-> "fanout", trade |-> t, left |-> left])
          /\ listed' = listed \cup {<<t, f>> : f \in left}
    /\ UNCHANGED <<follows, trades, toReplicate, toCopy, since, failed, cut>>

ListFollowers(w) ==
    /\ Does(w, "replicate")
    /\ task[w].step = "list"
    /\ LET t == task[w].trade
           left == Followers(Owner(t))
       IN /\ Become(w, [kind |-> "fanout", trade |-> t, left |-> left])
          /\ listed' = listed \cup {<<t, f>> : f \in left}
    /\ UNCHANGED <<follows, trades, toReplicate, toCopy, since, failed, cut>>

(* Faulty variant: the task returns inside its loop.                        *)
NextFollowerOnly(w) ==
    /\ Does(w, "fanout")
    /\ \E f \in task[w].left : toCopy' = toCopy \cup {<<task[w].trade, f>>}
    /\ End(w)
    /\ UNCHANGED <<follows, trades, toReplicate, since, listed, failed, cut>>

(* One turn of the loop: fetch the follower's balance, publish his copy.    *)
NextFollower(w) ==
    /\ Does(w, "fanout")
    /\ \E f \in task[w].left :
         /\ toCopy' = toCopy \cup {<<task[w].trade, f>>}
         /\ Become(w, [task[w] EXCEPT !.left = @ \ {f}])
    /\ UNCHANGED <<follows, trades, toReplicate, since, listed, failed, cut>>

(* The fetch raises, and nothing in the loop catches it: the task fails.    *)
FollowerBalanceFails(w) ==
    /\ "balance" \in Faults
    /\ Does(w, "fanout")
    /\ LET t == task[w].trade
       IN \E f \in task[w].left :
            /\ failed' = failed \cup {<<t, f>>}
            /\ cut' = cut \cup {<<t, g>> : g \in task[w].left \ {f}}
    /\ End(w)
    /\ UNCHANGED <<follows, trades, toReplicate, toCopy, since, listed>>

EndReplication(w) ==
    /\ Does(w, "fanout")
    /\ task[w].left = {}
    /\ End(w)
    /\ UNCHANGED <<follows, trades, toReplicate, toCopy, since, listed, failed, cut>>

-----------------------------------------------------------------------------
(* execute_follower_copy_trade and execute_copy_trade.                      *)

StartCopy(w, t, f) ==
    /\ Does(w, "idle")
    /\ <<t, f>> \in toCopy
    /\ toCopy' \in Deliver(toCopy, <<t, f>>)
    /\ IF t \in trades
         THEN Become(w, [kind |-> "copy", trade |-> t, follower |-> f, step |-> "lookup"])
         ELSE End(w)
    /\ UNCHANGED <<follows, trades, toReplicate, since, listed, failed, cut>>

(* execute_trade looks the key up first: a copy that exists is returned.    *)
LookUpCopy(w) ==
    /\ Does(w, "copy")
    /\ task[w].step = "lookup"
    /\ IF CopyFor(task[w].trade, task[w].follower) \in trades
         THEN End(w)
         ELSE Become(w, [task[w] EXCEPT !.step = "record"])
    /\ UNCHANGED <<follows, trades, toReplicate, toCopy, since, listed, failed, cut>>

(* Faulty variant: without is_copy_trade the copy is replicated in turn.    *)
RecordAndReplicate(w) ==
    /\ Does(w, "copy")
    /\ task[w].step = "record"
    /\ LET c == CopyFor(task[w].trade, task[w].follower)
       IN /\ c \notin trades
          /\ trades' = trades \cup {c}
          /\ toReplicate' = toReplicate \cup {c}
          /\ since' = since \cup {<<c, f>> : f \in Followers(task[w].follower)}
    /\ End(w)
    /\ UNCHANGED <<follows, toCopy, listed, failed, cut>>

(* Recorded once for its key; a copy is not replicated.  Copies of the      *)
(* follower's own followers start from his own trades only.                 *)
RecordCopy(w) ==
    /\ Does(w, "copy")
    /\ task[w].step = "record"
    /\ LET c == CopyFor(task[w].trade, task[w].follower)
       IN /\ c \notin trades
          /\ trades' = trades \cup {c}
          /\ since' = since \cup {<<c, f>> : f \in Followers(task[w].follower)}
    /\ End(w)
    /\ UNCHANGED <<follows, toReplicate, toCopy, listed, failed, cut>>

(* An exception ends this follower's task and no other.  When another task  *)
(* recorded the copy meanwhile, its key is refused.                         *)
CopyFails(w) ==
    /\ Does(w, "copy")
    /\ task[w].step = "record"
    /\ "reject" \in Faults \/ CopyFor(task[w].trade, task[w].follower) \in trades
    /\ failed' = failed \cup {<<task[w].trade, task[w].follower>>}
    /\ End(w)
    /\ UNCHANGED <<follows, trades, toReplicate, toCopy, since, listed, cut>>

WorkerDies(w) ==
    /\ "crash" \in Faults
    /\ ~Does(w, "idle")
    /\ failed' = failed \cup
         {<<task[w].trade, f>> : f \in IF Does(w, "copy") THEN {task[w].follower} ELSE Users}
    /\ End(w)
    /\ UNCHANGED <<follows, trades, toReplicate, toCopy, since, listed, cut>>

-----------------------------------------------------------------------------
Work(w) ==
    \/ \E t \in toReplicate : StartReplication(w, t)
    \/ LeaderBalance(w) \/ ListFollowers(w)
    \/ NextFollower(w) \/ FollowerBalanceFails(w) \/ EndReplication(w)
    \/ \E m \in toCopy : StartCopy(w, m[1], m[2])
    \/ LookUpCopy(w) \/ RecordCopy(w) \/ CopyFails(w)

Next ==
    \/ \E u, f \in Users : Subscribe(u, f) \/ Unsubscribe(u, f)
    \/ \E o \in Orders, u \in Users : PlaceOwnTrade(o, u)
    \/ \E w \in Workers : Work(w) \/ WorkerDies(w)

Spec == Init /\ [][Next]_vars

(* Deliveries after which the message is out of its queue. *)
ReplicationAcknowledged ==
    \E w \in Workers, t \in toReplicate : StartReplication(w, t) /\ t \notin toReplicate'
CopyAcknowledged ==
    \E w \in Workers, m \in toCopy : StartCopy(w, m[1], m[2]) /\ m \notin toCopy'

(* As long as there is work some worker goes on with it, and messages are    *)
(* not delivered again and again for ever.                                  *)
FairSpec ==
    /\ Spec
    /\ WF_vars(\E w \in Workers : Work(w))
    /\ SF_vars(ReplicationAcknowledged)
    /\ SF_vars(CopyAcknowledged)

-----------------------------------------------------------------------------
TypeOK ==
    /\ follows \subseteq Requested
    /\ trades \subseteq Trade
    /\ toReplicate \subseteq Trade
    /\ toCopy \subseteq Trade \X Users
    /\ task \in [Workers -> {Idle} \cup Replication \cup FanOut \cup Copying]
    /\ since \subseteq Trade \X Users
    /\ listed \subseteq Trade \X Users
    /\ failed \subseteq Trade \X Users
    /\ cut \subseteq Trade \X Users

(* Users who follow each other in a circle do not copy each other's copies: *)
(* a trade is a leader's own or the copy of one (is_copy_trade).            *)
NoCascade == \A t \in trades : Len(t.path) <= 2

(* A copy is owned by a user, never the leader himself, who followed the    *)
(* leader at or after the trade: whoever unsubscribed before is left alone. *)
OnlyFollowersCopy ==
    \A t \in trades, u, f \in Users :
        t.path = <<u, f>> => f # u /\ <<[t EXCEPT !.path = <<u>>], f>> \in since

(* The copy is made, on its way, or known to have failed. *)
Pending(t, f) ==
    \/ <<t, f>> \in toCopy
    \/ \E w \in Workers :
         \/ Does(w, "fanout") /\ task[w].trade = t /\ f \in task[w].left
         \/ Does(w, "copy") /\ task[w].trade = t /\ task[w].follower = f
Settled(t, f) == CopyFor(t, f) \in trades \/ <<t, f>> \in failed

(* No follower the replication found is forgotten: his copy is made or under *)
(* way, unless it failed, died with a worker, or was still to come when the  *)
(* fan-out broke off.  With WorkDrains he is served.                        *)
NobodyForgotten ==
    \A m \in listed : Settled(m[1], m[2]) \/ Pending(m[1], m[2]) \/ m \in cut

(* The same whatever happens to the other followers (tasks/trading.py:       *)
(* "failure isolation per follower").                                       *)
IsolatedPerFollower ==
    \A m \in listed : Settled(m[1], m[2]) \/ Pending(m[1], m[2])

(* The tasks of a trade come to an end: the fan-out does not feed itself.   *)
WorkDrains ==
    []<>(toReplicate = {} /\ toCopy = {} /\ \A w \in Workers : Does(w, "idle"))

=============================================================================

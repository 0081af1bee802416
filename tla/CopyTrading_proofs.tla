-------------------------- MODULE CopyTrading_proofs --------------------------
(* Theorems about CopyTrading, for any users, orders, workers and faults.     *)
EXTENDS CopyTrading, SequenceTheorems, TLAPS

(* Trades that a leader placed himself. *)
Own == {[order |-> o, path |-> <<u>>] : o \in Orders, u \in Users}

(* Who may copy what: a follower, not the leader himself, who followed the    *)
(* owner of a leader's own trade when it was committed or later.              *)
Entitled == {m \in Own \X Users : m \in since /\ m[1] \in trades /\ m[2] # Owner(m[1])}

(* History: followers of now have followed since each trade. *)
FollowersKnown ==
    /\ \A m \in follows : m[1] # m[2]
    /\ \A t \in trades, f \in Users : <<Owner(t), f>> \in follows => <<t, f>> \in since

TradesExplained ==
    \A t \in trades : t \in Own \/ \E m \in Entitled : t = CopyFor(m[1], m[2])

(* What is in the queues and in the hands of workers is entitled. *)
TasksEntitled ==
    /\ toReplicate \subseteq Own \cap trades
    /\ toCopy \subseteq Entitled
    /\ \A w \in Workers :
         /\ Does(w, "replicate") => task[w].trade \in Own \cap trades
         /\ Does(w, "fanout") => \A f \in task[w].left : <<task[w].trade, f>> \in Entitled
         /\ Does(w, "copy") => <<task[w].trade, task[w].follower>> \in Entitled

CopyInv == TypeOK /\ FollowersKnown /\ TradesExplained /\ TasksEntitled

USE DEF Become, End, Does

-----------------------------------------------------------------------------
(* Operators on trades. *)
LEMMA OwnIsTrade ==
  ASSUME NEW t \in Own
  PROVE  /\ t \in Trade /\ Len(t.path) = 1 /\ Owner(t) \in Users
         /\ t = [order |-> t.order, path |-> <<Owner(t)>>]
  BY DEF Own, Trade, Owner

LEMMA TradeOwner ==
  ASSUME NEW t \in Trade, NEW f \in Users
  PROVE  /\ CopyFor(t, f) \in Trade
         /\ Owner(CopyFor(t, f)) = f
  <1>1. Append(t.path, f) \in Seq(Users) /\ Len(Append(t.path, f)) = Len(t.path) + 1
    BY DEF Trade
  <1>2. Append(t.path, f)[Len(t.path) + 1] = f
    BY DEF Trade
  <1>3. CopyFor(t, f).path = Append(t.path, f) /\ CopyFor(t, f).order = t.order
    BY DEF CopyFor, Trade
  <1>4. CopyFor(t, f) \in Trade
    BY <1>1 DEF CopyFor, Trade
  <1> QED BY <1>1, <1>2, <1>3, <1>4 DEF Owner

LEMMA FollowersAreUsers == \A u \in Users : Followers(u) \subseteq Users
  BY DEF Followers

LEMMA PathReplaced ==
  ASSUME NEW t \in Trade, NEW p \in Seq(Users)
  PROVE  [t EXCEPT !.path = p] = [order |-> t.order, path |-> p]
  BY DEF Trade

LEMMA CopyOfOwn ==
  ASSUME NEW t \in Own, NEW f \in Users
  PROVE  /\ CopyFor(t, f).path = <<Owner(t), f>>
         /\ [CopyFor(t, f) EXCEPT !.path = <<Owner(t)>>] = t
  <1>1. t \in Trade /\ Owner(t) \in Users /\ t = [order |-> t.order, path |-> <<Owner(t)>>]
    BY OwnIsTrade
  <1>2. t.path = <<Owner(t)>>
    BY <1>1
  <1>3. Append(t.path, f) = <<Owner(t), f>> /\ Append(t.path, f) \in Seq(Users)
    <2>1. ASSUME NEW u \in Users PROVE Append(<<u>>, f) = <<u, f>> /\ <<u, f>> \in Seq(Users)
      <3>1. <<u>> \in Seq(Users) /\ <<u, f>> \in Seq(Users) /\ Len(<<u>>) = 1 /\ Len(<<u, f>>) = 2
        OBVIOUS
      <3>2. /\ Append(<<u>>, f) \in Seq(Users) /\ Len(Append(<<u>>, f)) = 2
            /\ Append(<<u>>, f)[1] = u /\ Append(<<u>>, f)[2] = f
        BY <3>1, AppendProperties
      <3>3. \A i \in 1..2 : Append(<<u>>, f)[i] = <<u, f>>[i]
        BY <3>2
      <3> QED BY <3>1, <3>2, <3>3, SeqEqual
    <2> QED BY <1>1, <1>2, <2>1
  <1>4. CopyFor(t, f) = [order |-> t.order, path |-> <<Owner(t), f>>]
    BY <1>1, <1>3, PathReplaced DEF CopyFor
  <1>5. CopyFor(t, f) \in Trade
    BY <1>1, TradeOwner
  <1>6. [CopyFor(t, f) EXCEPT !.path = <<Owner(t)>>] = [order |-> t.order, path |-> <<Owner(t)>>]
    BY <1>1, <1>4, <1>5, PathReplaced
  <1> QED BY <1>1, <1>4, <1>6

-----------------------------------------------------------------------------
LEMMA CopyInit == Init => CopyInv
  <1> SUFFICES ASSUME Init PROVE CopyInv
    OBVIOUS
  <1>1. TypeOK
    BY DEF Init, TypeOK
  <1>2. \A w \in Workers : task[w].kind = "idle"
    BY DEF Init, Idle
  <1>3. FollowersKnown /\ TradesExplained
    BY DEF Init, FollowersKnown, TradesExplained
  <1>4. TasksEntitled
    BY <1>2 DEF Init, TasksEntitled
  <1> QED BY <1>1, <1>3, <1>4 DEF CopyInv

(* A job of its type is all a worker takes on. *)
Jobs == {Idle} \cup Replication \cup FanOut \cup Copying

LEMMA JobType ==
  ASSUME TypeOK, NEW w \in Workers, NEW job \in Jobs, Become(w, job)
  PROVE  task' \in [Workers -> Jobs]
  BY DEF TypeOK, Jobs

(* Entitlement is never lost. *)
LEMMA EntitledStays ==
  ASSUME since \subseteq since', trades \subseteq trades'
  PROVE  Entitled \subseteq Entitled'
  BY DEF Entitled

LEMMA CopyTypeStep == TypeOK /\ [Next]_vars => TypeOK'
  <1> SUFFICES ASSUME TypeOK, [Next]_vars PROVE TypeOK'
    OBVIOUS
  <1> USE DEF TypeOK
  <1>1. ASSUME NEW u \in Users, NEW f \in Users, Subscribe(u, f) \/ Unsubscribe(u, f)
        PROVE  TypeOK'
    BY <1>1 DEF Subscribe, Unsubscribe
  <1>2. ASSUME NEW o \in Orders, NEW u \in Users, PlaceOwnTrade(o, u) PROVE TypeOK'
    <2>1. [order |-> o, path |-> <<u>>] \in Trade
      BY DEF Trade
    <2> DEFINE t == [order |-> o, path |-> <<u>>]
    <2>t. t \in Trade
      BY <2>1
    <2>2. /\ trades' = trades \cup {t}
          /\ toReplicate' \subseteq toReplicate \cup {t}
          /\ since' = since \cup {<<t, f>> : f \in Followers(u)}
      BY <1>2 DEF PlaceOwnTrade
    <2> HIDE DEF t
    <2>3. /\ trades' \subseteq Trade /\ toReplicate' \subseteq Trade
          /\ since' \subseteq Trade \X Users
      BY <2>t, <2>2, FollowersAreUsers
    <2> QED BY <1>2, <2>3 DEF PlaceOwnTrade
  <1>3. ASSUME NEW w \in Workers, NEW t \in toReplicate, StartReplication(w, t) PROVE TypeOK'
    <2>1. toReplicate' \subseteq Trade
      BY <1>3 DEF StartReplication, Deliver
    <2>2. [kind |-> "replicate", trade |-> t, step |-> "leader"] \in Replication
      BY DEF Replication
    <2>3. task' \in [Workers -> Jobs]
      BY <1>3, <2>2, JobType DEF StartReplication, Jobs
    <2> QED BY <1>3, <2>1, <2>3 DEF StartReplication, Jobs
  <1>4. ASSUME NEW w \in Workers, LeaderBalance(w) PROVE TypeOK'
    <2>1. task[w] \in Replication
      BY <1>4 DEF LeaderBalance, Idle, FanOut, Copying
    <2> QED BY <1>4, <2>1 DEF LeaderBalance, Replication, Idle
  <1>5. ASSUME NEW w \in Workers, ListFollowers(w) PROVE TypeOK'
    <2>1. task[w] \in Replication
      BY <1>5 DEF ListFollowers, Idle, FanOut, Copying
    <2> DEFINE left == Followers(Owner(task[w].trade))
               job == [kind |-> "fanout", trade |-> task[w].trade, left |-> left]
    <2>2. left \subseteq Users /\ task[w].trade \in Trade
      BY <2>1 DEF Followers, Replication
    <2>3. job \in FanOut
      BY <2>2 DEF FanOut
    <2>4. Become(w, job) /\ listed' = listed \cup {<<task[w].trade, f>> : f \in left}
      BY <1>5 DEF ListFollowers
    <2> HIDE DEF left, job
    <2>5. task' \in [Workers -> Jobs]
      BY <2>3, <2>4, JobType DEF Jobs
    <2>6. listed' \subseteq Trade \X Users
      BY <2>2, <2>4
    <2> QED BY <1>5, <2>5, <2>6 DEF ListFollowers, Jobs
  <1>6. ASSUME NEW w \in Workers,
               NextFollower(w) \/ FollowerBalanceFails(w) \/ EndReplication(w)
        PROVE  TypeOK'
    <2>1. task[w] \in FanOut
      BY <1>6 DEF NextFollower, FollowerBalanceFails, EndReplication, Idle, Replication, Copying
    <2> QED BY <1>6, <2>1 DEF NextFollower, FollowerBalanceFails, EndReplication, FanOut, Idle
  <1>7. ASSUME NEW w \in Workers, NEW m \in toCopy, StartCopy(w, m[1], m[2]) PROVE TypeOK'
    <2>1. toCopy' \subseteq Trade \X Users
      BY <1>7 DEF StartCopy, Deliver
    <2>2. [kind |-> "copy", trade |-> m[1], follower |-> m[2], step |-> "lookup"] \in Copying
      BY DEF Copying
    <2>3. task' \in [Workers -> Jobs]
      BY <1>7, <2>2, JobType DEF StartCopy, Jobs
    <2> QED BY <1>7, <2>1, <2>3 DEF StartCopy, Jobs
  <1>8. ASSUME NEW w \in Workers, LookUpCopy(w) \/ RecordCopy(w) \/ CopyFails(w) PROVE TypeOK'
    <2>1. task[w] \in Copying
      BY <1>8 DEF LookUpCopy, RecordCopy, CopyFails, Idle, Replication, FanOut
    <2>2. CopyFor(task[w].trade, task[w].follower) \in Trade
      BY <2>1, TradeOwner DEF Copying
    <2> DEFINE c == CopyFor(task[w].trade, task[w].follower)
    <2>3. /\ trades' \subseteq Trade /\ since' \subseteq Trade \X Users
          /\ failed' \subseteq Trade \X Users
      <3> USE DEF Copying
      <3>1. CASE LookUpCopy(w)
        BY <3>1 DEF LookUpCopy
      <3>2. CASE RecordCopy(w)
        <4>1. /\ trades' = trades \cup {c}
              /\ since' = since \cup {<<c, f>> : f \in Followers(task[w].follower)}
          BY <3>2 DEF RecordCopy
        <4>2. c \in Trade
          BY <2>2
        <4> HIDE DEF c
        <4>3. Followers(task[w].follower) \subseteq Users
          BY <2>1, FollowersAreUsers
        <4>4. trades' \subseteq Trade /\ since' \subseteq Trade \X Users
          BY <4>1, <4>2, <4>3
        <4> QED BY <3>2, <4>4 DEF RecordCopy
      <3>3. CASE CopyFails(w)
        BY <2>1, <3>3 DEF CopyFails
      <3> QED BY <1>8, <3>1, <3>2, <3>3
    <2>4. task' \in [Workers -> Jobs]
      <3>1. Idle \in Jobs /\ [task[w] EXCEPT !.step = "record"] \in Jobs
        BY <2>1 DEF Copying, Jobs
      <3>2. Become(w, Idle) \/ Become(w, [task[w] EXCEPT !.step = "record"])
        BY <1>8 DEF LookUpCopy, RecordCopy, CopyFails
      <3> QED BY <3>1, <3>2, JobType
    <2> QED BY <1>8, <2>3, <2>4 DEF LookUpCopy, RecordCopy, CopyFails, Jobs
  <1>9. ASSUME NEW w \in Workers, WorkerDies(w) PROVE TypeOK'
    BY <1>9 DEF WorkerDies, Replication, FanOut, Copying, Idle
  <1>10. CASE UNCHANGED vars
    BY <1>10 DEF vars
  <1> QED BY <1>1, <1>2, <1>3, <1>4, <1>5, <1>6, <1>7, <1>8, <1>9, <1>10 DEF Next, Work

(* Every variable keeps its type. *)
THEOREM CopyTypeCorrect == Spec => []TypeOK
  <1>1. Init => TypeOK
    BY CopyInit DEF CopyInv
  <1> QED BY <1>1, CopyTypeStep, PTL DEF Spec

-----------------------------------------------------------------------------
(* A trade is added: who followed before and who follows now are not confused, *)
(* for its owner's followers are noted with it.                               *)
LEMMA TradeAdded ==
  ASSUME CopyInv, NEW c \in Trade,
         UNCHANGED follows,
         trades' = trades \cup {c},
         since' = since \cup {<<c, f>> : f \in Followers(Owner(c))},
         c \in Own \/ \E m \in Entitled : c = CopyFor(m[1], m[2])
  PROVE  FollowersKnown' /\ TradesExplained' /\ Entitled \subseteq Entitled'
  <1>1. Entitled \subseteq Entitled'
    BY EntitledStays
  <1>2. FollowersKnown'
    <2>1. \A m \in follows : m[1] # m[2]
      BY DEF CopyInv, FollowersKnown
    <2>2. ASSUME NEW t \in trades', NEW f \in Users, <<Owner(t), f>> \in follows
          PROVE  <<t, f>> \in since'
      <3>1. CASE t \in trades
        BY <2>2, <3>1 DEF CopyInv, FollowersKnown
      <3>2. CASE t = c
        <4>1. f \in Followers(Owner(c))
          BY <2>2, <3>2 DEF Followers
        <4> QED BY <3>2, <4>1
      <3> QED BY <3>1, <3>2
    <2> QED BY <2>1, <2>2 DEF FollowersKnown
  <1>3. TradesExplained'
    BY <1>1 DEF CopyInv, TradesExplained, Own
  <1> QED BY <1>1, <1>2, <1>3

(* Nothing but tasks and queues changes. *)
LEMMA TradesKept ==
  ASSUME CopyInv, UNCHANGED <<follows, trades, since>>
  PROVE  FollowersKnown' /\ TradesExplained' /\ Entitled' = Entitled
  <1>1. Entitled' = Entitled
    BY DEF Entitled
  <1>2. FollowersKnown'
    BY DEF CopyInv, FollowersKnown
  <1>3. TradesExplained'
    BY <1>1 DEF CopyInv, TradesExplained
  <1> QED BY <1>1, <1>2, <1>3

(* A step of one worker: the others keep what they are entitled to. *)
LEMMA OneWorkerActs ==
  ASSUME CopyInv, NEW w \in Workers, NEW job, Become(w, job),
         trades \subseteq trades', Entitled \subseteq Entitled',
         toReplicate' \subseteq Own \cap trades', toCopy' \subseteq Entitled',
         job.kind = "replicate" => job.trade \in Own \cap trades',
         job.kind = "fanout" => \A f \in job.left : <<job.trade, f>> \in Entitled',
         job.kind = "copy" => <<job.trade, job.follower>> \in Entitled'
  PROVE  TasksEntitled'
  <1>1. task'[w] = job /\ \A v \in Workers \ {w} : task'[v] = task[v]
    BY DEF CopyInv, TypeOK
  <1>2. ASSUME NEW v \in Workers
        PROVE  /\ task'[v].kind = "replicate" => task'[v].trade \in Own \cap trades'
               /\ task'[v].kind = "fanout" => \A f \in task'[v].left : <<task'[v].trade, f>> \in Entitled'
               /\ task'[v].kind = "copy" => <<task'[v].trade, task'[v].follower>> \in Entitled'
    <2>1. CASE v = w
      BY <1>1, <2>1
    <2>2. CASE v # w
      BY <1>1, <2>2 DEF CopyInv, TasksEntitled
    <2> QED BY <2>1, <2>2
  <1>3. Own' = Own
    BY DEF Own
  <1> QED BY <1>2, <1>3 DEF TasksEntitled

LEMMA CopyStep == CopyInv /\ [Next]_vars => CopyInv'
  <1> SUFFICES ASSUME CopyInv, [Next]_vars PROVE CopyInv'
    OBVIOUS
  <1>t. TypeOK'
    BY CopyTypeStep DEF CopyInv
  <1>i. Idle.kind = "idle"
    BY DEF Idle
  <1>q. toReplicate \subseteq Own \cap trades /\ toCopy \subseteq Entitled
    BY DEF CopyInv, TasksEntitled
  <1>1. ASSUME NEW u \in Users, NEW f \in Users, Subscribe(u, f) PROVE CopyInv'
    <2>1. /\ u # f /\ follows' = follows \cup {<<u, f>>}
          /\ since' = since \cup {<<t, f>> : t \in {t \in trades : Owner(t) = u}}
          /\ UNCHANGED <<trades, toReplicate, toCopy, task>>
      BY <1>1 DEF Subscribe
    <2>2. Entitled \subseteq Entitled'
      BY <2>1, EntitledStays
    <2>3. FollowersKnown'
      <3>1. \A m \in follows' : m[1] # m[2]
        BY <2>1 DEF CopyInv, FollowersKnown
      <3>2. ASSUME NEW t \in trades, NEW g \in Users, <<Owner(t), g>> \in follows'
            PROVE  <<t, g>> \in since'
        <4>1. CASE <<Owner(t), g>> \in follows
          BY <2>1, <4>1 DEF CopyInv, FollowersKnown
        <4>2. CASE Owner(t) = u /\ g = f
          BY <2>1, <4>2
        <4> QED BY <2>1, <3>2, <4>1, <4>2
      <3> QED BY <2>1, <3>1, <3>2 DEF FollowersKnown
    <2>4. TradesExplained'
      BY <2>1, <2>2 DEF CopyInv, TradesExplained, Own
    <2>5. TasksEntitled'
      BY <2>1, <2>2 DEF CopyInv, TasksEntitled, Own
    <2> QED BY <1>t, <2>3, <2>4, <2>5 DEF CopyInv
  <1>2. ASSUME NEW u \in Users, NEW f \in Users, Unsubscribe(u, f) PROVE CopyInv'
    <2>1. follows' \subseteq follows /\ UNCHANGED <<trades, toReplicate, toCopy, task, since>>
      BY <1>2 DEF Unsubscribe
    <2>2. Entitled' = Entitled
      BY <2>1 DEF Entitled
    <2>3. FollowersKnown' /\ TradesExplained' /\ TasksEntitled'
      BY <2>1, <2>2 DEF CopyInv, FollowersKnown, TradesExplained, TasksEntitled, Own
    <2> QED BY <1>t, <2>3 DEF CopyInv
  <1>3. ASSUME NEW o \in Orders, NEW u \in Users, PlaceOwnTrade(o, u) PROVE CopyInv'
    <2> DEFINE c == [order |-> o, path |-> <<u>>]
    <2>1. c \in Own /\ c \in Trade /\ Owner(c) = u
      BY DEF Own, Trade, Owner
    <2>2. /\ trades' = trades \cup {c}
          /\ toReplicate' \subseteq toReplicate \cup {c}
          /\ since' = since \cup {<<c, f>> : f \in Followers(u)}
          /\ UNCHANGED <<follows, toCopy, task>>
      BY <1>3 DEF PlaceOwnTrade
    <2> HIDE DEF c
    <2>3. FollowersKnown' /\ TradesExplained' /\ Entitled \subseteq Entitled'
      BY <2>1, <2>2, TradeAdded
    <2>4. TasksEntitled'
      BY <2>1, <2>2, <2>3 DEF CopyInv, TasksEntitled, Own
    <2> QED BY <1>t, <2>3, <2>4 DEF CopyInv
  <1>4. ASSUME NEW w \in Workers, NEW t \in toReplicate, StartReplication(w, t) PROVE CopyInv'
    <2>1. UNCHANGED <<follows, trades, since, toCopy>> /\ toReplicate' \subseteq toReplicate
      BY <1>4 DEF StartReplication, Deliver
    <2>2. \E job : /\ Become(w, job)
                   /\ job.kind \in {"idle", "replicate"}
                   /\ job.kind = "replicate" => job.trade = t
      BY <1>4, <1>i DEF StartReplication
    <2>3. FollowersKnown' /\ TradesExplained' /\ Entitled' = Entitled
      BY <2>1, TradesKept
    <2>4. TasksEntitled'
      BY <1>q, <2>1, <2>2, <2>3, OneWorkerActs
    <2> QED BY <1>t, <2>3, <2>4 DEF CopyInv
  <1>5. ASSUME NEW w \in Workers, LeaderBalance(w) PROVE CopyInv'
    <2>1. UNCHANGED <<follows, trades, since, toCopy, toReplicate>>
      BY <1>5 DEF LeaderBalance
    <2>2. task[w] \in Replication
      BY <1>5 DEF LeaderBalance, CopyInv, TypeOK, Idle, FanOut, Copying
    <2>3. \E job : /\ Become(w, job)
                   /\ job.kind \in {"idle", "replicate"}
                   /\ job.kind = "replicate" => job.trade = task[w].trade
      BY <1>5, <1>i, <2>2 DEF LeaderBalance, Replication
    <2>4. task[w].trade \in Own \cap trades
      BY <1>5 DEF LeaderBalance, CopyInv, TasksEntitled
    <2>5. FollowersKnown' /\ TradesExplained' /\ Entitled' = Entitled
      BY <2>1, TradesKept
    <2>6. TasksEntitled'
      BY <1>q, <2>1, <2>3, <2>4, <2>5, OneWorkerActs
    <2> QED BY <1>t, <2>5, <2>6 DEF CopyInv
  <1>6. ASSUME NEW w \in Workers, ListFollowers(w) PROVE CopyInv'
    <2> DEFINE t == task[w].trade
               job == [kind |-> "fanout", trade |-> t, left |-> Followers(Owner(t))]
    <2>1. UNCHANGED <<follows, trades, since, toCopy, toReplicate>> /\ Become(w, job)
      BY <1>6 DEF ListFollowers
    <2>2. t \in Own \cap trades
      BY <1>6 DEF ListFollowers, CopyInv, TasksEntitled
    <2>3. ASSUME NEW f \in Followers(Owner(t)) PROVE <<t, f>> \in Entitled
      <3>1. f \in Users /\ <<Owner(t), f>> \in follows
        BY DEF Followers
      <3>2. <<t, f>> \in since /\ Owner(t) # f
        BY <2>2, <3>1 DEF CopyInv, FollowersKnown
      <3> QED BY <2>2, <3>1, <3>2 DEF Entitled
    <2>4. FollowersKnown' /\ TradesExplained' /\ Entitled' = Entitled
      BY <2>1, TradesKept
    <2>5. job.kind = "fanout" /\ job.trade = t /\ job.left = Followers(Owner(t))
      OBVIOUS
    <2> HIDE DEF job
    <2>6. TasksEntitled'
      BY <1>q, <2>1, <2>3, <2>4, <2>5, OneWorkerActs
    <2> QED BY <1>t, <2>4, <2>6 DEF CopyInv
  <1>7. ASSUME NEW w \in Workers,
               NextFollower(w) \/ FollowerBalanceFails(w) \/ EndReplication(w)
        PROVE  CopyInv'
    <2>1. UNCHANGED <<follows, trades, since, toReplicate>>
      BY <1>7 DEF NextFollower, FollowerBalanceFails, EndReplication
    <2>2. task[w] \in FanOut
      BY <1>7 DEF NextFollower, FollowerBalanceFails, EndReplication, CopyInv, TypeOK,
         Idle, Replication, Copying
    <2>3. \A f \in task[w].left : <<task[w].trade, f>> \in Entitled
      BY <1>7 DEF NextFollower, FollowerBalanceFails, EndReplication, CopyInv, TasksEntitled
    <2>4. \E job : /\ Become(w, job)
                   /\ job.kind \in {"idle", "fanout"}
                   /\ job.kind = "fanout" => job.trade = task[w].trade /\ job.left \subseteq task[w].left
      BY <1>7, <1>i, <2>2 DEF NextFollower, FollowerBalanceFails, EndReplication, FanOut
    <2>5. toCopy' \subseteq Entitled
      BY <1>7, <1>q, <2>3 DEF NextFollower, FollowerBalanceFails, EndReplication
    <2>6. FollowersKnown' /\ TradesExplained' /\ Entitled' = Entitled
      BY <2>1, TradesKept
    <2>7. TasksEntitled'
      BY <1>q, <2>1, <2>3, <2>4, <2>5, <2>6, OneWorkerActs
    <2> QED BY <1>t, <2>6, <2>7 DEF CopyInv
  <1>8. ASSUME NEW w \in Workers, NEW m \in toCopy, StartCopy(w, m[1], m[2]) PROVE CopyInv'
    <2>1. UNCHANGED <<follows, trades, since, toReplicate>> /\ toCopy' \subseteq toCopy
      BY <1>8 DEF StartCopy, Deliver
    <2>2. <<m[1], m[2]>> \in Entitled
      BY <1>8, <1>q DEF StartCopy
    <2>3. \E job : /\ Become(w, job)
                   /\ job.kind \in {"idle", "copy"}
                   /\ job.kind = "copy" => job.trade = m[1] /\ job.follower = m[2]
      BY <1>8, <1>i DEF StartCopy
    <2>4. FollowersKnown' /\ TradesExplained' /\ Entitled' = Entitled
      BY <2>1, TradesKept
    <2>5. TasksEntitled'
      BY <1>q, <2>1, <2>2, <2>3, <2>4, OneWorkerActs
    <2> QED BY <1>t, <2>4, <2>5 DEF CopyInv
  <1>9. ASSUME NEW w \in Workers, LookUpCopy(w) \/ CopyFails(w) PROVE CopyInv'
    <2>1. UNCHANGED <<follows, trades, since, toReplicate, toCopy>>
      BY <1>9 DEF LookUpCopy, CopyFails
    <2>2. task[w] \in Copying /\ <<task[w].trade, task[w].follower>> \in Entitled
      BY <1>9 DEF LookUpCopy, CopyFails, CopyInv, TypeOK, TasksEntitled, Idle, Replication, FanOut
    <2>3. \E job : /\ Become(w, job)
                   /\ job.kind \in {"idle", "copy"}
                   /\ job.kind = "copy" => job.trade = task[w].trade /\ job.follower = task[w].follower
      BY <1>9, <1>i, <2>2 DEF LookUpCopy, CopyFails, Copying
    <2>4. FollowersKnown' /\ TradesExplained' /\ Entitled' = Entitled
      BY <2>1, TradesKept
    <2>5. TasksEntitled'
      BY <1>q, <2>1, <2>2, <2>3, <2>4, OneWorkerActs
    <2> QED BY <1>t, <2>4, <2>5 DEF CopyInv
  <1>10. ASSUME NEW w \in Workers, RecordCopy(w) PROVE CopyInv'
    <2> DEFINE c == CopyFor(task[w].trade, task[w].follower)
    <2>1. /\ trades' = trades \cup {c}
          /\ since' = since \cup {<<c, f>> : f \in Followers(task[w].follower)}
          /\ Become(w, Idle)
          /\ UNCHANGED <<follows, toReplicate, toCopy>>
      BY <1>10 DEF RecordCopy
    <2>2. <<task[w].trade, task[w].follower>> \in Entitled
      BY <1>10 DEF RecordCopy, CopyInv, TasksEntitled
    <2>3. task[w].trade \in Trade /\ task[w].follower \in Users
      BY <2>2, OwnIsTrade DEF Entitled
    <2>4. c \in Trade /\ Owner(c) = task[w].follower
      BY <2>3, TradeOwner
    <2>5. \E m \in Entitled : c = CopyFor(m[1], m[2])
      BY <2>2
    <2> HIDE DEF c
    <2>6. FollowersKnown' /\ TradesExplained' /\ Entitled \subseteq Entitled'
      BY <2>1, <2>4, <2>5, TradeAdded
    <2>7. TasksEntitled'
      BY <1>q, <1>i, <2>1, <2>6, OneWorkerActs
    <2> QED BY <1>t, <2>6, <2>7 DEF CopyInv
  <1>11. ASSUME NEW w \in Workers, WorkerDies(w) PROVE CopyInv'
    <2>1. UNCHANGED <<follows, trades, since, toReplicate, toCopy>> /\ Become(w, Idle)
      BY <1>11 DEF WorkerDies
    <2>2. FollowersKnown' /\ TradesExplained' /\ Entitled' = Entitled
      BY <2>1, TradesKept
    <2>3. TasksEntitled'
      BY <1>q, <1>i, <2>1, <2>2, OneWorkerActs
    <2> QED BY <1>t, <2>2, <2>3 DEF CopyInv
  <1>12. CASE UNCHANGED vars
    <2>1. FollowersKnown' /\ TradesExplained' /\ Entitled' = Entitled
      BY <1>12, TradesKept DEF vars
    <2>2. TasksEntitled'
      BY <1>12, <2>1 DEF vars, CopyInv, TasksEntitled, Own
    <2> QED BY <1>t, <2>1, <2>2 DEF CopyInv
  <1> QED
    BY <1>1, <1>2, <1>3, <1>4, <1>5, <1>6, <1>7, <1>8, <1>9, <1>10, <1>11, <1>12 DEF Next, Work

LEMMA CopyInvariant == Spec => []CopyInv
  BY CopyInit, CopyStep, PTL DEF Spec

-----------------------------------------------------------------------------
(* A trade is a leader's own or a copy of one: copies are never copied, though *)
(* users may follow each other in circles.                                    *)
THEOREM NoCascadeEver == Spec => []NoCascade
  <1>1. CopyInv => NoCascade
    <2> SUFFICES ASSUME CopyInv, NEW t \in trades PROVE Len(t.path) <= 2
      BY DEF NoCascade
    <2>1. CASE t \in Own
      <3>1. Len(t.path) = 1
        BY <2>1, OwnIsTrade
      <3> QED BY <3>1
    <2>2. CASE \E m \in Entitled : t = CopyFor(m[1], m[2])
      <3> PICK m \in Entitled : t = CopyFor(m[1], m[2])
        BY <2>2
      <3>1. m[1] \in Own /\ m[2] \in Users
        BY DEF Entitled
      <3>2. t.path = <<Owner(m[1]), m[2]>>
        BY <3>1, CopyOfOwn
      <3> QED BY <3>2
    <2> QED BY <2>1, <2>2 DEF CopyInv, TradesExplained
  <1> QED BY <1>1, CopyInvariant, PTL

(* Nobody owns a copy but users who followed the leader at his trade or later, *)
(* and never the leader himself.                                              *)
THEOREM OnlyFollowersEverCopy == Spec => []OnlyFollowersCopy
  <1>1. CopyInv => OnlyFollowersCopy
    <2> SUFFICES ASSUME CopyInv, NEW t \in trades, NEW u \in Users, NEW f \in Users,
                        t.path = <<u, f>>
                 PROVE  f # u /\ <<[t EXCEPT !.path = <<u>>], f>> \in since
      BY DEF OnlyFollowersCopy
    <2>1. Len(t.path) = 2
      OBVIOUS
    <2>2. t \notin Own
      BY <2>1, OwnIsTrade
    <2> PICK m \in Entitled : t = CopyFor(m[1], m[2])
      BY <2>2 DEF CopyInv, TradesExplained
    <2>3. m[1] \in Own /\ m[2] \in Users /\ m \in since /\ m[2] # Owner(m[1]) /\ m = <<m[1], m[2]>>
      BY DEF Entitled
    <2>4. t.path = <<Owner(m[1]), m[2]>> /\ [t EXCEPT !.path = <<Owner(m[1])>>] = m[1]
      BY <2>3, CopyOfOwn
    <2>5. u = Owner(m[1]) /\ f = m[2]
      BY <2>4
    <2> QED BY <2>3, <2>4, <2>5
  <1> QED BY <1>1, CopyInvariant, PTL

-----------------------------------------------------------------------------
(* Where a listed copy is. *)
Known(m) == Settled(m[1], m[2]) \/ Pending(m[1], m[2]) \/ m \in cut

(* What settles a copy is never undone, and a step of one worker leaves the   *)
(* others at what they do: only a copy the step handles has to be followed.    *)
LEMMA OthersStillAtIt ==
  ASSUME CopyInv, NobodyForgotten, NEW w \in Workers, NEW job, Become(w, job),
         trades \subseteq trades', failed \subseteq failed', cut \subseteq cut',
         NEW m \in listed, m = <<m[1], m[2]>>,
         m \in toCopy => Known(m)',
         Does(w, "fanout") /\ task[w].trade = m[1] /\ m[2] \in task[w].left => Known(m)',
         Does(w, "copy") /\ task[w].trade = m[1] /\ task[w].follower = m[2] => Known(m)'
  PROVE  Known(m)'
  <1>1. \A v \in Workers \ {w} : task'[v] = task[v]
    BY DEF CopyInv, TypeOK
  <1>2. Settled(m[1], m[2]) \/ Pending(m[1], m[2]) \/ m \in cut
    BY DEF NobodyForgotten
  <1>3. CASE Settled(m[1], m[2]) \/ m \in cut
    BY <1>3 DEF Settled, Known
  <1>4. ASSUME NEW v \in Workers,
               \/ Does(v, "fanout") /\ task[v].trade = m[1] /\ m[2] \in task[v].left
               \/ Does(v, "copy") /\ task[v].trade = m[1] /\ task[v].follower = m[2]
        PROVE  Known(m)'
    <2>1. CASE v = w
      BY <1>4, <2>1
    <2>2. CASE v # w
      BY <1>1, <1>4, <2>2 DEF Known, Pending
    <2> QED BY <2>1, <2>2
  <1> QED BY <1>2, <1>3, <1>4 DEF Pending

(* The exchange between queue and worker loses nothing, and each failure is   *)
(* noted.                                                                     *)
LEMMA ForgottenStep == CopyInv /\ NobodyForgotten /\ [Next]_vars => NobodyForgotten'
  <1> SUFFICES ASSUME CopyInv, NobodyForgotten, [Next]_vars, NEW m \in listed' PROVE Known(m)'
    BY DEF NobodyForgotten, Known
  <1>t. TypeOK
    BY DEF CopyInv
  <1>p. m = <<m[1], m[2]>> /\ m[1] \in Trade /\ m[2] \in Users
    BY CopyTypeStep DEF CopyInv, TypeOK
  <1>k. m \in listed => Known(m)
    BY DEF NobodyForgotten, Known
  <1>1. ASSUME UNCHANGED <<toCopy, task, listed, failed, cut>>, trades \subseteq trades'
        PROVE  Known(m)'
    BY <1>k, <1>1 DEF Known, Settled, Pending
  <1>2. ASSUME NEW u \in Users, NEW f \in Users, Subscribe(u, f) \/ Unsubscribe(u, f)
        PROVE  Known(m)'
    BY <1>1, <1>2 DEF Subscribe, Unsubscribe
  <1>3. ASSUME NEW o \in Orders, NEW u \in Users, PlaceOwnTrade(o, u) PROVE Known(m)'
    BY <1>1, <1>3 DEF PlaceOwnTrade
  <1>4. ASSUME NEW w \in Workers, NEW t \in toReplicate, StartReplication(w, t) PROVE Known(m)'
    <2>1. m \in toCopy => Known(m)'
      BY <1>p, <1>4 DEF StartReplication, Known, Pending
    <2>2. (\E job : Become(w, job)) /\ UNCHANGED <<trades, failed, cut, listed>>
      BY <1>4 DEF StartReplication
    <2>3. ~Does(w, "fanout") /\ ~Does(w, "copy")
      BY <1>4 DEF StartReplication
    <2> QED BY <1>p, <2>1, <2>2, <2>3, OthersStillAtIt
  <1>5. ASSUME NEW w \in Workers, LeaderBalance(w) PROVE Known(m)'
    <2>1. m \in toCopy => Known(m)'
      BY <1>p, <1>5 DEF LeaderBalance, Known, Pending
    <2>2. /\ \E job : Become(w, job)
          /\ failed \subseteq failed' /\ UNCHANGED <<trades, cut, listed>>
      BY <1>5 DEF LeaderBalance
    <2>3. ~Does(w, "fanout") /\ ~Does(w, "copy")
      BY <1>5 DEF LeaderBalance
    <2> QED BY <1>p, <2>1, <2>2, <2>3, OthersStillAtIt
  <1>6. ASSUME NEW w \in Workers, ListFollowers(w) PROVE Known(m)'
    <2> DEFINE left == Followers(Owner(task[w].trade))
               job == [kind |-> "fanout", trade |-> task[w].trade, left |-> left]
    <2>1. /\ Become(w, job) /\ listed' = listed \cup {<<task[w].trade, f>> : f \in left}
          /\ UNCHANGED <<trades, toCopy, failed, cut>>
      BY <1>6 DEF ListFollowers
    <2>2. job.kind = "fanout" /\ job.trade = task[w].trade /\ job.left = left
      OBVIOUS
    <2> HIDE DEF left, job
    <2>3. m \in toCopy => Known(m)'
      BY <1>p, <2>1 DEF Known, Pending
    <2>4. ~Does(w, "fanout") /\ ~Does(w, "copy")
      BY <1>6 DEF ListFollowers
    <2>5. CASE m \in listed
      BY <1>p, <2>1, <2>3, <2>4, <2>5, OthersStillAtIt
    <2>6. CASE m \notin listed
      <3>1. m[1] = task[w].trade /\ m[2] \in left
        BY <2>1, <2>6
      <3>2. task'[w] = job
        BY <1>t, <2>1 DEF TypeOK
      <3> QED BY <2>2, <3>1, <3>2 DEF Known, Pending
    <2> QED BY <2>5, <2>6
  <1>7. ASSUME NEW w \in Workers, NextFollower(w) PROVE Known(m)'
    <2>1. task[w] \in FanOut
      BY <1>t, <1>7 DEF NextFollower, TypeOK, Idle, Replication, Copying
    <2> PICK f \in task[w].left :
          /\ toCopy' = toCopy \cup {<<task[w].trade, f>>}
          /\ Become(w, [task[w] EXCEPT !.left = @ \ {f}])
      BY <1>7 DEF NextFollower
    <2> DEFINE job == [task[w] EXCEPT !.left = @ \ {f}]
    <2>2. /\ Become(w, job) /\ UNCHANGED <<trades, failed, cut, listed>>
          /\ Does(w, "fanout")
      BY <1>7 DEF NextFollower
    <2>3. job.kind = "fanout" /\ job.trade = task[w].trade /\ job.left = task[w].left \ {f}
      BY <2>1, <2>2 DEF FanOut
    <2> HIDE DEF job
    <2>4. m \in toCopy => Known(m)'
      BY <1>p DEF Known, Pending
    <2>5. task[w].trade = m[1] /\ m[2] \in task[w].left => Known(m)'
      <3> SUFFICES ASSUME task[w].trade = m[1], m[2] \in task[w].left PROVE Known(m)'
        OBVIOUS
      <3>1. CASE m[2] = f
        BY <1>p, <3>1 DEF Known, Pending
      <3>2. CASE m[2] # f
        <4>1. task'[w] = job
          BY <1>t, <2>2 DEF TypeOK
        <4> QED BY <2>3, <3>2, <4>1 DEF Known, Pending
      <3> QED BY <3>1, <3>2
    <2> QED BY <1>p, <2>2, <2>4, <2>5, OthersStillAtIt
  <1>8. ASSUME NEW w \in Workers, FollowerBalanceFails(w) PROVE Known(m)'
    <2>1. /\ \E job : Become(w, job)
          /\ failed \subseteq failed' /\ cut \subseteq cut' /\ UNCHANGED <<trades, listed, toCopy>>
          /\ Does(w, "fanout")
      BY <1>8 DEF FollowerBalanceFails
    <2>2. m \in toCopy => Known(m)'
      BY <1>p, <2>1 DEF Known, Pending
    <2>3. task[w].trade = m[1] /\ m[2] \in task[w].left => m \in failed' \/ m \in cut'
      BY <1>p, <1>8 DEF FollowerBalanceFails
    <2>4. task[w].trade = m[1] /\ m[2] \in task[w].left => Known(m)'
      BY <1>p, <2>3 DEF Known, Settled
    <2> QED BY <1>p, <2>1, <2>2, <2>4, OthersStillAtIt
  <1>9. ASSUME NEW w \in Workers, EndReplication(w) PROVE Known(m)'
    <2>1. /\ \E job : Become(w, job)
          /\ UNCHANGED <<trades, listed, toCopy, failed, cut>>
          /\ Does(w, "fanout") /\ task[w].left = {}
      BY <1>9 DEF EndReplication
    <2>2. m \in toCopy => Known(m)'
      BY <1>p, <2>1 DEF Known, Pending
    <2> QED BY <1>p, <2>1, <2>2, OthersStillAtIt
  <1>10. ASSUME NEW w \in Workers, NEW n \in toCopy, StartCopy(w, n[1], n[2]) PROVE Known(m)'
    <2> DEFINE job == [kind |-> "copy", trade |-> n[1], follower |-> n[2], step |-> "lookup"]
    <2>1. n = <<n[1], n[2]>> /\ n[1] \in trades
      BY DEF CopyInv, TasksEntitled, Entitled
    <2>2. /\ Become(w, job) /\ UNCHANGED <<trades, listed, failed, cut>>
          /\ toCopy \ {n} \subseteq toCopy'
          /\ ~Does(w, "fanout") /\ ~Does(w, "copy")
      BY <1>10, <2>1 DEF StartCopy, Deliver
    <2>3. job.kind = "copy" /\ job.trade = n[1] /\ job.follower = n[2]
      OBVIOUS
    <2>4. task'[w] = job
      BY <1>t, <2>2 DEF TypeOK
    <2> HIDE DEF job
    <2>5. m \in toCopy => Known(m)'
      <3>1. CASE m = n
        BY <2>3, <2>4, <3>1 DEF Known, Pending
      <3>2. CASE m # n
        BY <1>p, <2>2, <3>2 DEF Known, Pending
      <3> QED BY <3>1, <3>2
    <2> QED BY <1>p, <2>2, <2>5, OthersStillAtIt
  <1>11. ASSUME NEW w \in Workers, LookUpCopy(w) PROVE Known(m)'
    <2>1. task[w] \in Copying
      BY <1>t, <1>11 DEF LookUpCopy, TypeOK, Idle, Replication, FanOut
    <2>2. UNCHANGED <<trades, listed, toCopy, failed, cut>> /\ Does(w, "copy") /\ ~Does(w, "fanout")
      BY <1>11 DEF LookUpCopy
    <2>3. CASE CopyFor(task[w].trade, task[w].follower) \in trades
      <3>1. Become(w, Idle)
        BY <1>11, <2>3 DEF LookUpCopy
      <3>2. task[w].trade = m[1] /\ task[w].follower = m[2] => Known(m)'
        BY <2>2, <2>3 DEF Known, Settled
      <3>3. m \in toCopy => Known(m)'
        BY <1>p, <2>2 DEF Known, Pending
      <3> QED BY <1>p, <2>2, <3>1, <3>2, <3>3, OthersStillAtIt
    <2>4. CASE CopyFor(task[w].trade, task[w].follower) \notin trades
      <3> DEFINE job == [task[w] EXCEPT !.step = "record"]
      <3>1. Become(w, job)
        BY <1>11, <2>4 DEF LookUpCopy
      <3>2. job.kind = "copy" /\ job.trade = task[w].trade /\ job.follower = task[w].follower
        BY <2>1 DEF Copying
      <3> HIDE DEF job
      <3>3. task'[w] = job
        BY <1>t, <3>1 DEF TypeOK
      <3>4. task[w].trade = m[1] /\ task[w].follower = m[2] => Known(m)'
        BY <3>2, <3>3 DEF Known, Pending
      <3>5. m \in toCopy => Known(m)'
        BY <1>p, <2>2 DEF Known, Pending
      <3> QED BY <1>p, <2>2, <3>1, <3>4, <3>5, OthersStillAtIt
    <2> QED BY <2>3, <2>4
  <1>12. ASSUME NEW w \in Workers, RecordCopy(w) \/ CopyFails(w) PROVE Known(m)'
    <2>1. /\ Become(w, Idle) /\ UNCHANGED <<listed, toCopy, cut>>
          /\ trades \subseteq trades' /\ failed \subseteq failed'
          /\ Does(w, "copy") /\ ~Does(w, "fanout")
      BY <1>12 DEF RecordCopy, CopyFails
    <2>2. \/ CopyFor(task[w].trade, task[w].follower) \in trades'
          \/ <<task[w].trade, task[w].follower>> \in failed'
      BY <1>12 DEF RecordCopy, CopyFails
    <2>3. task[w].trade = m[1] /\ task[w].follower = m[2] => Known(m)'
      BY <2>2 DEF Known, Settled
    <2>4. m \in toCopy => Known(m)'
      BY <1>p, <2>1 DEF Known, Pending
    <2> QED BY <1>p, <2>1, <2>3, <2>4, OthersStillAtIt
  <1>13. ASSUME NEW w \in Workers, WorkerDies(w) PROVE Known(m)'
    <2>1. /\ Become(w, Idle) /\ UNCHANGED <<listed, toCopy, cut, trades>>
          /\ failed \subseteq failed'
      BY <1>13 DEF WorkerDies
    <2>2. /\ Does(w, "fanout") => <<task[w].trade, m[2]>> \in failed'
          /\ Does(w, "copy") => <<task[w].trade, task[w].follower>> \in failed'
      BY <1>p, <1>13 DEF WorkerDies
    <2>3. Does(w, "fanout") /\ task[w].trade = m[1] => Known(m)'
      BY <2>2 DEF Known, Settled
    <2>4. Does(w, "copy") /\ task[w].trade = m[1] /\ task[w].follower = m[2] => Known(m)'
      BY <2>2 DEF Known, Settled
    <2>5. m \in toCopy => Known(m)'
      BY <1>p, <2>1 DEF Known, Pending
    <2> QED BY <1>p, <2>1, <2>3, <2>4, <2>5, OthersStillAtIt
  <1>14. CASE UNCHANGED vars
    BY <1>1, <1>14 DEF vars
  <1> QED
    BY <1>2, <1>3, <1>4, <1>5, <1>6, <1>7, <1>8, <1>9, <1>10, <1>11, <1>12, <1>13, <1>14
    DEF Next, Work

(* Each follower the replication found is served, or his copy is under way or *)
(* known to have failed.                                                      *)
THEOREM NobodyEverForgotten == Spec => []NobodyForgotten
  <1>1. Init => NobodyForgotten
    BY DEF Init, NobodyForgotten
  <1> QED BY <1>1, ForgottenStep, CopyInvariant, PTL DEF Spec

=============================================================================

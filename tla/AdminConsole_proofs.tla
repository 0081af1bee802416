-------------------------- MODULE AdminConsole_proofs --------------------------
(* Theorems about AdminConsole, for any requests, processes, workloads and    *)
(* faults.                                                                    *)
EXTENDS AdminConsole, TLAPS

(* Where a request is tells what it has done: a read has asked so many        *)
(* queries, and a change is committed and audited before the cache is         *)
(* cleared and before it is answered.                                         *)
ReadStage(q) ==
    /\ pc[q] \in {"idle", "ping", "get", "select", "fresh", "store", "done", "failed", "dead"}
    /\ pc[q] \in {"idle", "get"} => at[q] = 0
    /\ pc[q] = "select" => at[q] < Len(Queries[kind[q]])
    /\ pc[q] = "ping" => at[q] \in {0, Len(Queries[kind[q]])}
    /\ pc[q] \in {"fresh", "store"} => at[q] = Len(Queries[kind[q]])

ChangeStage(q) ==
    /\ pc[q] \notin {"get", "select", "fresh", "store"}
    /\ pc[q] \in {"ping", "clear", "scan", "sweep", "publish", "done"} => q \in audited
    /\ pc[q] \in {"sweep", "publish", "done"} => q \in scanned \cup kept

StageOf(q) ==
    /\ kind[q] \in Keys => ReadStage(q)
    /\ kind[q] \in Changes => ChangeStage(q)
    /\ kind[q] \in Defaults => pc[q] \in {"idle", "commit", "done", "failed", "dead"}
    /\ kind[q] = "own_strategy" => pc[q] \in {"idle", "commit", "refresh", "done", "refused", "failed", "dead"}
    /\ pc[q] = "audit" => kind[q] \in AuditedApart
    /\ pc[q] = "refresh" => kind[q] \in AuditedApart \cup {"own_strategy"}
    /\ pc[q] \in {"refresh", "audit"} => q \in changed
    /\ pc[q] = "idle" => after[q] = {} /\ Missing("settings", q)
    /\ found[q] # {} => pc[q] \in {"sweep", "dead"}
Stage == \A q \in Requests : StageOf(q)

(* Changes and their audit rows. *)
AuditOf(q) ==
    /\ q \in audited => q \in changed
    /\ q \in changed =>
         /\ kind[q] \in Changes \cup {"own_strategy"}
         /\ pc[q] \notin {"idle", "commit", "refused"}
    /\ q \in changed \ audited =>
         \/ kind[q] = "own_strategy"
         \/ kind[q] \in AuditedApart /\ pc[q] \in {"refresh", "audit", "failed", "dead"}
Audits == \A q \in Requests : AuditOf(q)

(* What a change has done to the rows stays: a trade closed, a row deleted,   *)
(* the settings there.                                                        *)
Effected == \A m \in changed :
    /\ kind[m] = "close" => row["trades"][Seed] = "closed"
    /\ kind[m] \in {"delete_strategy", "bulk_delete"} => Missing("strategies", Seed)
    /\ kind[m] = "delete_article" => Missing("articles", Seed)
    /\ kind[m] = "settings" => SettingsFound
Found == \A q \in Requests : kind[q] = "settings" /\ at[q] = 1 => SettingsFound

(* A request that could see that it has nothing to do any more does nothing.  *)
Later == \A q \in Requests : \A m \in after[q] :
    /\ \A same \in Once : {kind[q], kind[m]} \subseteq same => pc[q] = "refused"
    /\ kind[m] = "settings" =>
         /\ Missing("settings", q)
         /\ kind[q] \in Defaults => pc[q] # "commit"
         /\ kind[q] = "settings" => at[q] = 1

(* An entry of the cache shows a change that has scanned the keys, or was     *)
(* built beside it, or is about to be deleted by it.                          *)
Shows(entry, m, k) == Counted(m, k) => m \in entry.shows
Cleared == \A k \in Keys : \A entry \in cache[k] : \A m \in scanned \ kept :
    m \in entry.late \/ k \in found[m] \/ Shows(entry, m, k)

(* What was answered before a read began is done, and in what the read has    *)
(* been told: by the queries that came after, or by an entry of the cache.    *)
Seen == \A q \in Requests : \A m \in after[q] :
    /\ m \in Answered
    /\ kind[q] \in Keys =>
         /\ \A n \in 1..at[q] :
              Queries[kind[q]][n] \in {TableOf(kind[m]), "audit"} => m \in view[q].shows
         /\ pc[q] = "done" => \/ at[q] = Len(Queries[kind[q]])
                              \/ m \in view[q].late \cup kept
                              \/ Shows(view[q], m, kind[q])

Typed == TypeOK /\ Stage

USE DEF Go

-----------------------------------------------------------------------------
(* Constants. *)

LEMMA KeyNames == Keys = {"summary", "metrics", "growth", "activities"}
  BY DEF Keys, Queries

LEMMA QueryLengths == \A k \in Keys : Len(Queries[k]) \in 1..4
  <1>1. /\ Len(Queries["summary"]) = 4 /\ Len(Queries["metrics"]) = 4
        /\ Len(Queries["growth"]) = 1 /\ Len(Queries["activities"]) = 1
    BY DEF Queries, SummaryQueries, MetricsQueries, GrowthQueries, ActivitiesQueries
  <1> QED BY <1>1, KeyNames

(* The kinds of request exclude each other. *)
LEMMA KindsApart ==
  /\ Keys \cap Changes = {} /\ Keys \cap Defaults = {} /\ Changes \cap Defaults = {}
  /\ "own_strategy" \notin Keys \cup Changes \cup Defaults
  /\ AuditedApart \subseteq Changes /\ AuditedApart \cap Keys = {}
  /\ \A k : k \in Changes \cup {"own_strategy"} => k \notin Keys /\ k \notin Defaults
  BY KeyNames DEF Changes, Defaults, AuditedApart, StrategyChanges, ArticleChanges

LEMMA TableNames ==
  /\ TableValues["trades"] = {"open", "closed"} /\ TableValues["strategies"] = {"old", "new", "copy"}
  /\ TableValues["articles"] = {"old", "new"} /\ TableValues["settings"] = {"there"}
  /\ \A t \in Tables : TableValues[t] \cup {"none"} \subseteq Values
  <1>1. /\ TableValues["trades"] = {"open", "closed"} /\ TableValues["strategies"] = {"old", "new", "copy"}
        /\ TableValues["articles"] = {"old", "new"} /\ TableValues["settings"] = {"there"}
    BY DEF TableValues
  <1> QED BY <1>1 DEF Tables, Values

(* A row written, and the others. *)
LEMMA PutRow ==
  ASSUME TypeOK, NEW t \in Tables, NEW id \in Rows, NEW v \in TableValues[t] \cup {"none"}, Put(t, id, v)
  PROVE  /\ row' \in [Tables -> [Rows -> Values]]
         /\ \A u \in Tables, i \in Rows : row'[u][i] = IF u = t /\ i = id THEN v ELSE row[u][i]
         /\ \A u \in Tables, i \in Rows : row'[u][i] \in TableValues[u] \cup {"none"}
  <1>1. v \in Values
    BY TableNames
  <1>2. row' = [row EXCEPT ![t][id] = v]
    BY DEF Put
  <1>3. row \in [Tables -> [Rows -> Values]]
    BY DEF TypeOK
  <1>4. [row[t] EXCEPT ![id] = v] \in [Rows -> Values]
    BY <1>1, <1>3
  <1>5. row' = [row EXCEPT ![t] = [row[t] EXCEPT ![id] = v]]
    BY <1>2
  <1>6. row' \in [Tables -> [Rows -> Values]]
    BY <1>3, <1>4, <1>5
  <1>7. \A u \in Tables, i \in Rows : row'[u][i] = IF u = t /\ i = id THEN v ELSE row[u][i]
    <2> SUFFICES ASSUME NEW u \in Tables, NEW i \in Rows
                 PROVE  row'[u][i] = IF u = t /\ i = id THEN v ELSE row[u][i]
      OBVIOUS
    <2>1. row[u] \in [Rows -> Values]
      BY <1>3
    <2>2. CASE u = t
      <3>1. row'[u] = [row[u] EXCEPT ![id] = v]
        BY <1>3, <1>5, <2>2
      <3> QED BY <2>1, <2>2, <3>1
    <2>3. CASE u # t
      BY <1>3, <1>5, <2>3
    <2> QED BY <2>2, <2>3
  <1> QED BY <1>6, <1>7 DEF TypeOK

-----------------------------------------------------------------------------
(* What the routes do, as the invariants see it: a request loads its row, its *)
(* change is committed or refused by the database, and those that commit      *)
(* twice read their row again and write the audit row.                        *)

(* What a request that goes on to its commit has found. *)
NothingDone(q) ==
    /\ kind[q] = "close" => row["trades"][Seed] # "closed"
    /\ kind[q] \in {"delete_strategy", "bulk_delete"} => ~Missing("strategies", Seed)
    /\ kind[q] = "delete_article" => ~Missing("articles", Seed)
    /\ kind[q] \in Defaults => ~SettingsFound

Loading(q) ==
    /\ pc[q] = "idle" /\ kind[q] \notin Keys
    /\ after' = [after EXCEPT ![q] = Answered]
    /\ UNCHANGED <<kind, row, changed, audited, cache, client, view, found, scanned, kept>>
    /\ \E step \in {"commit", "refused", "done"} :
         /\ pc' = [pc EXCEPT ![q] = step]
         /\ step = "done" => kind[q] \in Defaults
         /\ step = "refused" => kind[q] \notin Defaults
         /\ step = "commit" => NothingDone(q)
    /\ IF kind[q] \in Defaults \cup {"settings"}
         THEN at' = [at EXCEPT ![q] = IF SettingsFound THEN 1 ELSE 0]
         ELSE at' = at

Rewrites(q) ==
    \/ /\ row' = row
       /\ kind[q] \notin {"close", "delete_strategy", "bulk_delete", "delete_article"}
       /\ kind[q] = "settings" => at[q] = 1
    \/ \E t \in Tables : \E id \in {q, Seed} : \E v \in TableValues[t] \cup {"none"} :
         /\ Put(t, id, v)
         /\ t = "trades" => id = Seed /\ v = "closed"
         /\ id = Seed /\ v # "none" => t = "trades" \/ ~Missing(t, Seed)
         /\ t = "settings" => /\ id = q /\ v = "there"
                              /\ kind[q] \in Defaults \/ (kind[q] = "settings" /\ at[q] = 0)
         /\ kind[q] = "close" => t = "trades"
         /\ kind[q] \in {"delete_strategy", "bulk_delete"} => t = "strategies" /\ id = Seed /\ v = "none"
         /\ kind[q] = "delete_article" => t = "articles" /\ id = Seed /\ v = "none"
         /\ kind[q] = "settings" => t = "settings"

Changing(q) ==
    /\ pc[q] = "commit" /\ kind[q] \notin Keys
    /\ UNCHANGED <<kind, cache, client, at, view, found, scanned, kept, after>>
    /\ \/ /\ kind[q] \in Changes /\ pc' = [pc EXCEPT ![q] = "clear"]
          /\ changed' = changed \cup {q} /\ audited' = audited \cup {q}
       \/ /\ \/ kind[q] \in AuditedApart /\ pc' = [pc EXCEPT ![q] = "audit"]
             \/ kind[q] \in AuditedApart \cup {"own_strategy"} /\ pc' = [pc EXCEPT ![q] = "refresh"]
          /\ changed' = changed \cup {q} /\ audited' = audited
       \/ /\ kind[q] \in Defaults /\ pc' = [pc EXCEPT ![q] = "done"]
          /\ changed' = changed /\ audited' = audited
    /\ Rewrites(q)

GivingUp(q) ==
    /\ pc[q] \in {"select", "commit", "refresh", "audit", "clear", "publish"}
    /\ pc' = [pc EXCEPT ![q] = "failed"]
    /\ UNCHANGED <<kind, row, changed, audited, cache, client, at, view, found, scanned, kept, after>>

Refreshing(q) ==
    /\ pc[q] = "refresh"
    /\ \/ kind[q] \in AuditedApart /\ pc' = [pc EXCEPT ![q] = "audit"]
       \/ kind[q] = "own_strategy" /\ pc' = [pc EXCEPT ![q] = "done"]
    /\ UNCHANGED <<kind, row, changed, audited, cache, client, at, view, found, scanned, kept, after>>

Auditing(q) ==
    /\ pc[q] = "audit" /\ pc' = [pc EXCEPT ![q] = "clear"]
    /\ audited' = audited \cup {q}
    /\ UNCHANGED <<kind, row, changed, cache, client, at, view, found, scanned, kept, after>>

RouteStep(q) == Loading(q) \/ Changing(q) \/ GivingUp(q) \/ Refreshing(q) \/ Auditing(q)

USE DEF dbVars, readVars, history

LEMMA Written ==
  ASSUME NEW q \in Requests, NEW t \in Tables, NEW id \in {q, Seed},
         NEW v \in TableValues[t] \cup {"none"}, Put(t, id, v),
         t = "trades" => id = Seed /\ v = "closed",
         id = Seed /\ v # "none" => t = "trades" \/ ~Missing(t, Seed),
         t = "settings" => /\ id = q /\ v = "there"
                           /\ kind[q] \in Defaults \/ (kind[q] = "settings" /\ at[q] = 0),
         kind[q] = "close" => t = "trades",
         kind[q] \in {"delete_strategy", "bulk_delete"} => t = "strategies" /\ id = Seed /\ v = "none",
         kind[q] = "delete_article" => t = "articles" /\ id = Seed /\ v = "none",
         kind[q] = "settings" => t = "settings"
  PROVE  Rewrites(q)
  BY Zenon DEF Rewrites

(* The three ways of a service that commits before the audit row. *)
LEMMA ServiceSteps ==
  ASSUME NEW q \in Requests, NEW t \in {"strategies", "articles"},
         kind[q] \in AuditedApart \cup {"own_strategy"},
         kind[q] = "delete_strategy" => t = "strategies", kind[q] = "delete_article" => t = "articles"
  PROVE  /\ kind[q] \notin {"delete_strategy", "delete_article"} /\ Create(q, t) => RouteStep(q)
         /\ kind[q] \notin {"delete_strategy", "delete_article"} /\ Update(q, t) => RouteStep(q)
         /\ kind[q] \in {"delete_strategy", "delete_article"} /\ Delete(q, t) => RouteStep(q)
  <1>a. /\ kind[q] \notin Keys /\ kind[q] \notin Defaults
        /\ kind[q] \notin {"close", "bulk_delete", "settings"}
    BY KeyNames DEF AuditedApart, ArticleChanges, Defaults
  <1>t. /\ t \in Tables /\ t \notin {"trades", "settings"}
        /\ "new" \in TableValues[t] /\ q \in {q, Seed} /\ Seed \in {q, Seed}
    BY TableNames DEF Tables
  <1>1. RolledBack(q) => RouteStep(q)
    BY DEF RolledBack, Commits, GivingUp, RouteStep
  <1>2. ASSUME NEW step \in {"commit", "refused"}, Loads(q, step), step = "commit" => NothingDone(q)
        PROVE  RouteStep(q)
    BY <1>a, <1>2 DEF Loads, Begin, Loading, RouteStep
  <1>3. ASSUME Commits(q, "refresh"), WithoutAudit(q), Rewrites(q)
        PROVE  RouteStep(q)
    BY <1>a, <1>3 DEF Commits, WithoutAudit, Changing, RouteStep
  <1>4. ASSUME kind[q] \notin {"delete_strategy", "delete_article"}, Create(q, t) PROVE RouteStep(q)
    <2>1. NothingDone(q)
      BY <1>a, <1>4 DEF NothingDone
    <2>2. Put(t, q, "new") => Rewrites(q)
      <3>1. q = Seed => FALSE
        BY SeedAssumption
      <3> QED BY <1>a, <1>t, <1>4, <3>1, Written
    <2> QED BY <1>1, <1>2, <1>3, <1>4, <2>1, <2>2 DEF Create
  <1>5. ASSUME kind[q] \notin {"delete_strategy", "delete_article"}, Update(q, t) PROVE RouteStep(q)
    <2>1. NothingDone(q)
      BY <1>a, <1>5 DEF NothingDone
    <2>2. Put(t, Seed, "new") /\ ~Missing(t, Seed) => Rewrites(q)
      BY <1>a, <1>t, <1>5, Written
    <2> QED BY <1>1, <1>2, <1>3, <1>5, <2>1, <2>2 DEF Update
  <1>6. ASSUME kind[q] \in {"delete_strategy", "delete_article"}, Delete(q, t) PROVE RouteStep(q)
    <2>1. ~Missing(t, Seed) => NothingDone(q)
      BY <1>a, <1>6 DEF NothingDone
    <2>2. Put(t, Seed, "none") => Rewrites(q)
      BY <1>a, <1>t, <1>6, Written
    <2>3. Commits(q, "audit") /\ WithoutAudit(q) /\ Rewrites(q) => RouteStep(q)
      BY <1>a, <1>6 DEF Commits, WithoutAudit, Changing, RouteStep, AuditedApart
    <2> QED BY <1>2, <1>6, <2>1, <2>2, <2>3 DEF Delete
  <1> QED BY <1>4, <1>5, <1>6

(* Reading the row again, and the audit row. *)
LEMMA ServiceTails ==
  ASSUME NEW q \in Requests
  PROVE  /\ \A t, id : kind[q] \in AuditedApart /\ Refresh(q, t, id, "audit") => RouteStep(q)
         /\ \A t, id : kind[q] = "own_strategy" /\ Refresh(q, t, id, "done") => RouteStep(q)
         /\ WriteAudit(q) => RouteStep(q)
  BY DEF Refresh, WriteAudit, GivingUp, Refreshing, Auditing, RouteStep

LEMMA ServiceRoutes ==
  ASSUME NEW q \in Requests,
         \/ CreateStrategy(q) \/ OwnStrategy(q) \/ UpdateStrategy(q) \/ DeleteStrategy(q)
         \/ CreateArticle(q) \/ UpdateArticle(q) \/ DeleteArticle(q)
  PROVE  RouteStep(q)
  <1> USE DEF AuditedApart, ArticleChanges
  <1>1. CASE CreateStrategy(q)
    BY <1>1, ServiceSteps, ServiceTails DEF CreateStrategy
  <1>2. CASE OwnStrategy(q)
    BY <1>2, ServiceSteps, ServiceTails DEF OwnStrategy
  <1>3. CASE UpdateStrategy(q)
    BY <1>3, ServiceSteps, ServiceTails DEF UpdateStrategy
  <1>4. CASE DeleteStrategy(q)
    BY <1>4, ServiceSteps, ServiceTails DEF DeleteStrategy
  <1>5. CASE CreateArticle(q)
    BY <1>5, ServiceSteps, ServiceTails DEF CreateArticle
  <1>6. CASE UpdateArticle(q)
    BY <1>6, ServiceSteps, ServiceTails DEF UpdateArticle
  <1>7. CASE DeleteArticle(q)
    BY <1>7, ServiceSteps, ServiceTails DEF DeleteArticle
  <1> QED BY <1>1, <1>2, <1>3, <1>4, <1>5, <1>6, <1>7

(* Routes that write change and audit row in one commit. *)
LEMMA SingleCommit ==
  ASSUME NEW q \in Requests, kind[q] \in Changes
  PROVE  /\ Commits(q, "clear") /\ WithAudit(q) /\ Rewrites(q) => RouteStep(q)
         /\ \A step \in {"commit", "refused"} :
              kind[q] # "settings" /\ Loads(q, step) /\ (step = "commit" => NothingDone(q)) => RouteStep(q)
         /\ RolledBack(q) => RouteStep(q)
  <1>a. kind[q] \notin Keys /\ kind[q] \notin Defaults
    BY KindsApart
  <1>1. Commits(q, "clear") /\ WithAudit(q) /\ Rewrites(q) => RouteStep(q)
    BY <1>a DEF Commits, WithAudit, Changing, RouteStep
  <1>2. ASSUME NEW step \in {"commit", "refused"}, kind[q] # "settings", Loads(q, step), step = "commit" => NothingDone(q)
        PROVE  RouteStep(q)
    BY <1>a, <1>2 DEF Loads, Begin, Loading, RouteStep
  <1>3. RolledBack(q) => RouteStep(q)
    BY DEF RolledBack, Commits, GivingUp, RouteStep
  <1> QED BY <1>1, <1>2, <1>3

LEMMA PlainRoutes ==
  ASSUME NEW q \in Requests, BanUser(q) \/ SyncTrades(q) \/ BroadcastNotification(q)
  PROVE  RouteStep(q)
  <1>1. kind[q] \in {"ban", "sync", "broadcast"} /\ kind[q] \in Changes
    BY DEF BanUser, SyncTrades, BroadcastNotification, Changes
  <1>2. NothingDone(q)
    BY <1>1 DEF NothingDone, Defaults
  <1>3. UNCHANGED row => Rewrites(q)
    BY <1>1 DEF Rewrites
  <1> QED BY <1>1, <1>2, <1>3, SingleCommit DEF BanUser, SyncTrades, BroadcastNotification

LEMMA CloseRoute ==
  ASSUME NEW q \in Requests, ManualClose(q)
  PROVE  RouteStep(q)
  <1>1. kind[q] = "close" /\ kind[q] \in Changes
    BY DEF ManualClose, Changes
  <1>2. row["trades"][Seed] # "closed" => NothingDone(q)
    BY <1>1 DEF NothingDone, Defaults
  <1>3. Put("trades", Seed, "closed") => Rewrites(q)
    <2>1. "trades" \in Tables /\ "closed" \in TableValues["trades"]
      BY TableNames DEF Tables
    <2> QED BY <1>1, <2>1, Written
  <1> QED BY <1>1, <1>2, <1>3, SingleCommit DEF ManualClose

LEMMA BulkRoute ==
  ASSUME NEW q \in Requests, BulkAction(q)
  PROVE  RouteStep(q)
  <1>1. kind[q] \in {"bulk_flag", "bulk_delete", "bulk_duplicate"} /\ kind[q] \in Changes
    BY DEF BulkAction, Changes, StrategyChanges
  <1>2. ~Missing("strategies", Seed) => NothingDone(q)
    BY <1>1 DEF NothingDone, Defaults
  <1>3. kind[q] = "bulk_flag" /\ UNCHANGED row => Rewrites(q)
    BY <1>1 DEF Rewrites
  <1>4. "strategies" \in Tables /\ "copy" \in TableValues["strategies"] /\ q # Seed
    BY TableNames, SeedAssumption DEF Tables
  <1>5. kind[q] = "bulk_delete" /\ Put("strategies", Seed, "none") => Rewrites(q)
    BY <1>4, Written
  <1>6. kind[q] = "bulk_duplicate" /\ Put("strategies", q, "copy") => Rewrites(q)
    BY <1>4, Written
  <1> QED BY <1>1, <1>2, <1>3, <1>5, <1>6, SingleCommit DEF BulkAction

LEMMA SettingsRoutes ==
  ASSUME NEW q \in Requests, UpdateSettings(q) \/ GetSettings(q) \/ SeedSettings(q)
  PROVE  RouteStep(q)
  <1>1. kind[q] = "settings" \/ kind[q] \in Defaults
    BY DEF UpdateSettings, GetSettings, SeedSettings, Defaults
  <1>2. kind[q] \notin Keys /\ kind[q] \notin {"close", "delete_strategy", "bulk_delete", "delete_article"}
    BY <1>1, KeyNames DEF Defaults
  <1>3. "settings" \in Tables /\ "there" \in TableValues["settings"] /\ q # Seed
    BY TableNames, SeedAssumption DEF Tables
  <1>4. at[q] = 0 \/ kind[q] \in Defaults => (Put("settings", q, "there") => Rewrites(q))
    BY <1>1, <1>2, <1>3, Written
  <1>5. CASE UpdateSettings(q)
    <2>1. kind[q] = "settings" /\ kind[q] \in Changes /\ kind[q] \notin Defaults
      BY <1>5 DEF UpdateSettings, Changes, Defaults
    <2>2. CASE FindSettings(q, "commit", "commit")
      BY <1>2, <2>1, <2>2 DEF FindSettings, Begin, Loading, NothingDone, RouteStep
    <2>3. UNCHANGED row /\ at[q] = 1 => Rewrites(q)
      BY <1>2, <2>1 DEF Rewrites
    <2> QED BY <1>4, <1>5, <2>1, <2>2, <2>3, SingleCommit DEF UpdateSettings
  <1>6. CASE GetSettings(q) \/ SeedSettings(q)
    <2>1. kind[q] \in Defaults /\ InsertDefaults(q)
      BY <1>6 DEF GetSettings, SeedSettings, Defaults
    <2>2. CASE FindSettings(q, "done", "commit")
      BY <1>2, <2>1, <2>2 DEF FindSettings, Begin, Loading, NothingDone, RouteStep
    <2>3. CASE Commits(q, "done") /\ Put("settings", q, "there") /\ UNCHANGED <<changed, audited>>
      BY <1>2, <1>4, <2>1, <2>3 DEF Commits, Changing, RouteStep
    <2> QED BY <2>1, <2>2, <2>3 DEF InsertDefaults
  <1> QED BY <1>5, <1>6

LEMMA Routes ==
  ASSUME NEW q \in Requests, Route(q)
  PROVE  RouteStep(q)
  BY PlainRoutes, CloseRoute, BulkRoute, SettingsRoutes, ServiceRoutes DEF Route

-----------------------------------------------------------------------------
(* The steps of a request at the cache, and all steps. *)

RequestStep(q) == RouteStep(q) \/ Read(q) \/ Ping(q) \/ AfterMutation(q)

LEMMA Steps ==
  ASSUME [Next]_vars
  PROVE  \/ \E q \in Requests : RequestStep(q)
         \/ \E k \in Keys : Expire(k)
         \/ \E p \in Processes : ProcessDies(p)
         \/ UNCHANGED vars
  <1>1. ASSUME NEW q \in Requests, DatabaseFails(q) PROVE RequestStep(q)
    BY <1>1 DEF DatabaseFails, GivingUp, RouteStep, RequestStep
  <1>2. ASSUME NEW q \in Requests, Route(q) PROVE RequestStep(q)
    BY <1>2, Routes DEF RequestStep
  <1> QED BY <1>1, <1>2 DEF Next, RequestStep

(* Asking for a client leads to the ping, on to Redis, or past it. *)
LEMMA ClientSteps ==
  ASSUME TypeOK, NEW q \in Requests, GetClient(q)
  PROVE  /\ client' \in [Processes -> {"unchecked", "checking", "on", "off"}]
         /\ \/ pc' = [pc EXCEPT ![q] = "ping"] /\ kept' = kept
            \/ pc' = [pc EXCEPT ![q] = HasClient(q)] /\ kept' = kept
            \/ pc' = [pc EXCEPT ![q] = NoClient(q)] /\ Keeps(q)
  <1>1. ProcessOf[q] \in Processes
    BY ProcessAssumption
  <1>2. client' = client \/ client' = [client EXCEPT ![ProcessOf[q]] = "checking"]
    BY DEF GetClient
  <1>3. client' \in [Processes -> {"unchecked", "checking", "on", "off"}]
    BY <1>1, <1>2 DEF TypeOK
  <1> QED BY <1>3 DEF GetClient

(* What a step of one request leaves to the others. *)
Kept(r) ==
    /\ pc'[r] = pc[r] /\ at'[r] = at[r] /\ view'[r] = view[r]
    /\ found'[r] = found[r] /\ after'[r] = after[r]

LEMMA OthersKept ==
  ASSUME TypeOK, NEW q \in Requests, RequestStep(q)
  PROVE  kind' = kind /\ \A r \in Requests \ {q} : Kept(r)
  <1> USE DEF TypeOK, Kept
  <1>1. CASE RouteStep(q)
    BY <1>1 DEF RouteStep, Loading, Changing, GivingUp, Refreshing, Auditing
  <1>2. CASE AskCache(q) \/ Built(q) \/ Invalidate(q)
    <2>1. \E step : pc' = [pc EXCEPT ![q] = step]
      BY <1>2, ClientSteps DEF AskCache, Built, Invalidate
    <2> QED BY <1>2, <2>1 DEF AskCache, Built, Invalidate, Begin
  <1>3. CASE GetJson(q) \/ Select(q) \/ SetJson(q)
    BY <1>3 DEF GetJson, Select, SetJson
  <1>4. CASE Ping(q)
    BY <1>4 DEF Ping
  <1>5. CASE ScanKeys(q) \/ DeleteKeys(q) \/ Publish(q)
    BY <1>5 DEF ScanKeys, DeleteKeys, Publish
  <1> QED BY <1>1, <1>2, <1>3, <1>4, <1>5 DEF RequestStep, Read, AfterMutation

-----------------------------------------------------------------------------
(* Types. *)

LEMMA InitTyped == Init => Typed
  <1> SUFFICES ASSUME Init PROVE Typed
    OBVIOUS
  <1>1. PICK s \in {"none", "there"} : row = InitialRow(s)
    BY DEF Init
  <1>2. \A t \in Tables, id \in Rows : row[t][id] =
          IF id # Seed THEN "none" ELSE IF t = "trades" THEN "open"
            ELSE IF t = "settings" THEN s ELSE "old"
    BY <1>1 DEF InitialRow, Tables
  <1>3. \A t \in Tables, id \in Rows : row[t][id] \in TableValues[t] \cup {"none"}
    BY <1>2, TableNames DEF Tables
  <1>4. row \in [Tables -> [Rows -> Values]]
    <2>1. \A t \in Tables, id \in Rows : row[t][id] \in Values
      BY <1>2 DEF Values
    <2>2. row \in [Tables -> [Rows -> {row[t][id] : t \in Tables, id \in Rows}]]
      BY <1>1 DEF InitialRow
    <2> QED BY <2>1, <2>2
  <1>5. kind \in [Requests -> Kinds]
    BY WorkloadsAssumption DEF Init
  <1>6. TypeOK
    <2>1. Blank \in Entries
      BY DEF Blank, Entries
    <2>2. /\ pc \in [Requests -> PCs] /\ at \in [Requests -> 0..4] /\ view \in [Requests -> Entries]
          /\ cache \in [Keys -> SUBSET Entries] /\ found \in [Requests -> SUBSET Keys]
          /\ after \in [Requests -> SUBSET Requests]
          /\ client \in [Processes -> {"unchecked", "checking", "on", "off"}]
      BY <2>1 DEF Init, PCs
    <2> QED BY <1>3, <1>4, <1>5, <2>2 DEF Init, TypeOK
  <1>7. Stage
    <2> SUFFICES ASSUME NEW q \in Requests PROVE StageOf(q)
      BY DEF Stage
    <2>1. pc[q] = "idle" /\ at[q] = 0 /\ after[q] = {} /\ found[q] = {}
      BY DEF Init
    <2>2. Missing("settings", q)
      BY <1>2, SeedAssumption DEF Missing, Tables, Rows
    <2> QED BY <2>1, <2>2 DEF StageOf, ReadStage, ChangeStage
  <1> QED BY <1>6, <1>7 DEF Typed

LEMMA RewritesTyped ==
  ASSUME TypeOK, NEW q \in Requests, Rewrites(q)
  PROVE  /\ row' \in [Tables -> [Rows -> Values]]
         /\ \A t \in Tables, id \in Rows : row'[t][id] \in TableValues[t] \cup {"none"}
  <1>1. CASE row' = row
    BY <1>1 DEF TypeOK
  <1>2. CASE \E t \in Tables : \E id \in {q, Seed} : \E v \in TableValues[t] \cup {"none"} : Put(t, id, v)
    <2>1. ASSUME NEW t \in Tables, NEW id \in {q, Seed}, NEW v \in TableValues[t] \cup {"none"}, Put(t, id, v)
          PROVE  /\ row' \in [Tables -> [Rows -> Values]]
                 /\ \A u \in Tables, i \in Rows : row'[u][i] \in TableValues[u] \cup {"none"}
      <3>1. id \in Rows
        BY DEF Rows
      <3> QED BY <2>1, <3>1, PutRow
    <2> QED BY <1>2, <2>1
  <1> QED BY <1>1, <1>2 DEF Rewrites

LEMMA RouteTyped ==
  ASSUME TypeOK, NEW q \in Requests, RouteStep(q)
  PROVE  TypeOK'
  <1> USE DEF TypeOK
  <1>1. CASE Loading(q)
    <2>1. Answered \in SUBSET Requests
      BY DEF Answered
    <2>2. after' \in [Requests -> SUBSET Requests]
      BY <1>1, <2>1 DEF Loading
    <2>3. pc' \in [Requests -> PCs]
      BY <1>1 DEF Loading, PCs
    <2>4. at' \in [Requests -> 0..4]
      BY <1>1 DEF Loading
    <2> QED BY <1>1, <2>2, <2>3, <2>4 DEF Loading
  <1>2. CASE Changing(q)
    <2>1. pc' \in [Requests -> PCs]
      BY <1>2 DEF Changing, PCs
    <2>2. changed' \subseteq Requests /\ audited' \subseteq Requests
      BY <1>2 DEF Changing
    <2>3. /\ row' \in [Tables -> [Rows -> Values]]
          /\ \A t \in Tables, id \in Rows : row'[t][id] \in TableValues[t] \cup {"none"}
      BY <1>2, RewritesTyped DEF Changing
    <2> QED BY <1>2, <2>1, <2>2, <2>3 DEF Changing
  <1>3. CASE GivingUp(q)
    BY <1>3 DEF GivingUp, PCs
  <1>4. CASE Refreshing(q)
    BY <1>4 DEF Refreshing, PCs
  <1>5. CASE Auditing(q)
    BY <1>5 DEF Auditing, PCs
  <1> QED BY <1>1, <1>2, <1>3, <1>4, <1>5 DEF RouteStep

LEMMA CacheTyped ==
  ASSUME Typed, NEW q \in Requests, Read(q) \/ Ping(q) \/ AfterMutation(q)
  PROVE  TypeOK'
  <1>a. TypeOK
    BY DEF Typed
  <1>b. HasClient(q) \in PCs /\ NoClient(q) \in PCs
    BY DEF HasClient, NoClient, PCs
  <1>k. Keeps(q) \/ kept' = kept => kept' \subseteq Requests
    BY <1>a DEF Keeps, TypeOK
  <1> USE DEF TypeOK
  <1>1. CASE AskCache(q) \/ Built(q) \/ Invalidate(q)
    <2>1. /\ client' \in [Processes -> {"unchecked", "checking", "on", "off"}]
          /\ \E step \in PCs : pc' = [pc EXCEPT ![q] = step]
          /\ Keeps(q) \/ kept' = kept
      BY <1>a, <1>b, <1>1, ClientSteps DEF AskCache, Built, Invalidate, PCs
    <2>2. pc' \in [Requests -> PCs]
      BY <1>a, <2>1
    <2>3. after' = after \/ after' = [after EXCEPT ![q] = Answered]
      BY <1>1 DEF AskCache, Built, Invalidate, Begin
    <2>4. after' \in [Requests -> SUBSET Requests]
      <3>1. Answered \in SUBSET Requests
        BY DEF Answered
      <3> QED BY <1>a, <2>3, <3>1
    <2>5. UNCHANGED <<kind, row, changed, audited, cache, at, view, found, scanned>>
      BY <1>1 DEF AskCache, Built, Invalidate
    <2> QED BY <1>a, <1>k, <2>1, <2>2, <2>4, <2>5
  <1>2. CASE Ping(q)
    <2>1. ProcessOf[q] \in Processes
      BY ProcessAssumption
    <2>2. client' \in [Processes -> {"unchecked", "checking", "on", "off"}]
      BY <1>a, <1>2, <2>1 DEF Ping
    <2>3. pc' \in [Requests -> PCs]
      BY <1>a, <1>b, <1>2 DEF Ping
    <2>4. kept' \subseteq Requests
      BY <1>k, <1>2 DEF Ping
    <2> QED BY <1>a, <1>2, <2>2, <2>3, <2>4 DEF Ping
  <1>3. CASE GetJson(q)
    <2>1. pc' \in [Requests -> PCs]
      BY <1>a, <1>3 DEF GetJson, PCs
    <2>2. view' \in [Requests -> Entries]
      <3>1. kind[q] \in Keys
        BY <1>3 DEF GetJson, Typed, Stage, StageOf, ChangeStage, Kinds
      <3>2. \A entry \in cache[kind[q]] : entry \in Entries
        BY <1>a, <3>1
      <3> QED BY <1>a, <1>3, <3>2 DEF GetJson
    <2> QED BY <1>a, <1>3, <2>1, <2>2 DEF GetJson
  <1>4. CASE Select(q)
    <2>1. kind[q] \in Keys
      BY <1>a, <1>4 DEF Select, Typed, Stage, StageOf, ChangeStage, Kinds, Defaults
    <2>2. at[q] < Len(Queries[kind[q]]) /\ Len(Queries[kind[q]]) \in 1..4 /\ at[q] \in 0..4
      BY <1>a, <1>4, <2>1, QueryLengths DEF Select, Typed, Stage, StageOf, ReadStage
    <2>3. at' \in [Requests -> 0..4]
      <3>1. at' = [at EXCEPT ![q] = at[q] + 1]
        BY <1>4 DEF Select
      <3>2. \A a \in 0..4, n \in 1..4 : a < n => a + 1 \in 0..4
        OBVIOUS
      <3>3. at[q] + 1 \in 0..4
        BY <2>2, <3>2, Zenon
      <3> QED BY <1>a, <3>1, <3>3
    <2>4. view' \in [Requests -> Entries]
      <3>1. PICK S : S \subseteq Requests /\ view' = [view EXCEPT ![q].shows = @ \cup S]
        BY <1>a, <1>4 DEF Select, Committed
      <3>2. [view[q] EXCEPT !.shows = @ \cup S] \in Entries
        BY <1>a, <3>1 DEF Entries
      <3>3. view' = [view EXCEPT ![q] = [view[q] EXCEPT !.shows = @ \cup S]]
        BY <3>1
      <3> QED BY <1>a, <3>2, <3>3
    <2>5. pc' \in [Requests -> PCs]
      BY <1>a, <1>4 DEF Select, PCs
    <2> QED BY <1>a, <1>4, <2>3, <2>4, <2>5 DEF Select
  <1>5. CASE SetJson(q)
    <2>1. [view[q] EXCEPT !.late = scanned \ after[q]] \in Entries
      <3>1. view[q] \in Entries /\ scanned \ after[q] \in SUBSET Requests
        BY <1>a
      <3> QED BY <3>1 DEF Entries
    <2>2. cache' \in [Keys -> SUBSET Entries]
      <3> DEFINE entry == [view[q] EXCEPT !.late = scanned \ after[q]]
      <3>1. cache' = cache \/ cache' = [cache EXCEPT ![kind[q]] = {entry}]
        BY <1>5 DEF SetJson
      <3>2. {entry} \in SUBSET Entries
        BY <2>1
      <3> HIDE DEF entry
      <3> QED BY <1>a, <3>1, <3>2
    <2>3. pc' \in [Requests -> PCs]
      BY <1>a, <1>5 DEF SetJson, PCs
    <2> QED BY <1>a, <1>5, <2>2, <2>3 DEF SetJson
  <1>6. CASE ScanKeys(q)
    <2>1. pc' \in [Requests -> PCs]
      BY <1>a, <1>6 DEF ScanKeys, PCs
    <2>2. found' \in [Requests -> SUBSET Keys] /\ scanned' \subseteq Requests
      BY <1>a, <1>6 DEF ScanKeys
    <2>3. kept' \subseteq Requests
      BY <1>k, <1>6 DEF ScanKeys
    <2> QED BY <1>a, <1>6, <2>1, <2>2, <2>3 DEF ScanKeys
  <1>7. CASE DeleteKeys(q)
    <2>1. pc' \in [Requests -> PCs] /\ found' \in [Requests -> SUBSET Keys]
      BY <1>a, <1>7 DEF DeleteKeys, PCs
    <2>2. cache' \in [Keys -> SUBSET Entries]
      BY <1>a, <1>7 DEF DeleteKeys
    <2>3. kept' \subseteq Requests
      BY <1>k, <1>7 DEF DeleteKeys
    <2> QED BY <1>a, <1>7, <2>1, <2>2, <2>3 DEF DeleteKeys
  <1>8. CASE Publish(q)
    BY <1>a, <1>8 DEF Publish, PCs
  <1> QED BY <1>1, <1>2, <1>3, <1>4, <1>5, <1>6, <1>7, <1>8 DEF Read, AfterMutation

LEMMA StepTyped ==
  ASSUME Typed, [Next]_vars
  PROVE  TypeOK'
  <1>1. ASSUME NEW q \in Requests, RequestStep(q) PROVE TypeOK'
    BY <1>1, RouteTyped, CacheTyped DEF RequestStep, Typed
  <1>2. ASSUME NEW k \in Keys, Expire(k) PROVE TypeOK'
    BY <1>2 DEF Expire, Typed, TypeOK
  <1>3. ASSUME NEW p \in Processes, ProcessDies(p) PROVE TypeOK'
    <2>1. pc' \in [Requests -> PCs] /\ client' \in [Processes -> {"unchecked", "checking", "on", "off"}]
      BY <1>3 DEF ProcessDies, Typed, TypeOK, PCs
    <2> QED BY <1>3, <2>1 DEF ProcessDies, Typed, TypeOK
  <1>4. CASE UNCHANGED vars
    BY <1>4 DEF vars, Typed, TypeOK
  <1> QED BY <1>1, <1>2, <1>3, <1>4, Steps

LEMMA ClassOf ==
  ASSUME TypeOK, NEW q \in Requests
  PROVE  kind[q] \in Keys \/ kind[q] \in Changes \/ kind[q] \in Defaults \/ kind[q] = "own_strategy"
  BY DEF TypeOK, Kinds

-----------------------------------------------------------------------------
(* Where requests are. *)

(* The commits and the histories grow by the request that takes the step, and *)
(* the rows change only in its commit.                                        *)
LEMMA SetsGrow ==
  ASSUME NEW q \in Requests, RequestStep(q)
  PROVE  /\ changed' = changed \/ changed' = changed \cup {q}
         /\ audited' = audited \/ audited' = audited \cup {q}
         /\ scanned' = scanned \/ scanned' = scanned \cup {q}
         /\ kept' = kept \/ kept' = kept \cup {q}
         /\ Changing(q) \/ row' = row
  <1>1. CASE RouteStep(q)
    BY <1>1 DEF RouteStep, Loading, Changing, GivingUp, Refreshing, Auditing
  <1>2. CASE AskCache(q) \/ Built(q) \/ Invalidate(q)
    BY <1>2 DEF AskCache, Built, Invalidate, Begin, GetClient, Keeps
  <1>3. CASE GetJson(q) \/ Select(q) \/ SetJson(q)
    BY <1>3 DEF GetJson, Select, SetJson
  <1>4. CASE Ping(q)
    BY <1>4 DEF Ping, Keeps
  <1>5. CASE ScanKeys(q) \/ DeleteKeys(q) \/ Publish(q)
    BY <1>5 DEF ScanKeys, DeleteKeys, Publish, Keeps
  <1> QED BY <1>1, <1>2, <1>3, <1>4, <1>5 DEF RequestStep, Read, AfterMutation

(* Nobody but the request itself inserts its settings row. *)
LEMMA SettingsKept ==
  ASSUME TypeOK, NEW q \in Requests, RequestStep(q), NEW r \in Rows \ {q}
  PROVE  row'["settings"][r] = row["settings"][r]
  <1>1. CASE row' = row
    BY <1>1
  <1>2. CASE row' # row
    <2>1. Rewrites(q)
      BY <1>2, SetsGrow DEF Changing
    <2>2. PICK t \in Tables : \E id \in {q, Seed} : \E v \in TableValues[t] \cup {"none"} :
            Put(t, id, v) /\ (t = "settings" => id = q)
      BY <1>2, <2>1 DEF Rewrites
    <2>3. ASSUME NEW id \in {q, Seed}, NEW v \in TableValues[t] \cup {"none"}, Put(t, id, v), t = "settings" => id = q
          PROVE  row'["settings"][r] = row["settings"][r]
      <3>1. id \in Rows /\ "settings" \in Tables /\ r \in Rows
        BY DEF Rows, Tables
      <3>2. row'["settings"][r] = IF "settings" = t /\ r = id THEN v ELSE row["settings"][r]
        BY <2>3, <3>1, PutRow
      <3> QED BY <2>3, <3>2
    <2> QED BY <2>2, <2>3
  <1> QED BY <1>1, <1>2

LEMMA OtherStage ==
  ASSUME Typed, NEW q \in Requests, RequestStep(q), NEW r \in Requests \ {q}
  PROVE  StageOf(r)'
  <1>1. TypeOK /\ StageOf(r)
    BY DEF Typed, Stage
  <1>2. kind' = kind /\ Kept(r)
    BY <1>1, OthersKept
  <1>3. Missing("settings", r)' = Missing("settings", r)
    BY <1>1, SettingsKept DEF Missing, Rows
  <1>4. /\ r \in audited => r \in audited'
        /\ r \in changed => r \in changed'
        /\ r \in scanned \cup kept => r \in scanned' \cup kept'
    BY SetsGrow
  <1> HIDE DEF Missing
  <1>5. ReadStage(r)' <=> ReadStage(r)
    BY <1>2 DEF Kept, ReadStage
  <1>6. ChangeStage(r) => ChangeStage(r)'
    BY <1>2, <1>4 DEF Kept, ChangeStage
  <1> QED BY <1>1, <1>2, <1>3, <1>4, <1>5, <1>6 DEF Kept, StageOf

LEMMA RouteStage ==
  ASSUME Typed, NEW q \in Requests, RouteStep(q)
  PROVE  StageOf(q)'
  <1>a. TypeOK /\ StageOf(q)
    BY DEF Typed, Stage
  <1>b. kind' = kind
    BY <1>a, OthersKept DEF RequestStep
  <1>c. pc \in [Requests -> PCs] /\ found \in [Requests -> SUBSET Keys]
    BY <1>a DEF TypeOK
  <1>1. CASE Loading(q)
    <2>1. /\ pc'[q] \in {"commit", "refused", "done"}
          /\ pc'[q] = "done" => kind[q] \in Defaults
          /\ pc'[q] = "refused" => kind[q] \notin Defaults
      BY <1>1, <1>c DEF Loading
    <2>2. found'[q] = {} /\ kind[q] \notin Keys
      BY <1>1, <1>a DEF Loading, StageOf
    <2> QED BY <1>b, <2>1, <2>2, KindsApart DEF StageOf, ChangeStage
  <1>2. CASE Changing(q)
    <2>1. /\ found'[q] = {} /\ kind[q] \notin Keys
      BY <1>2, <1>a DEF Changing, StageOf
    <2>2. \/ kind[q] \in Changes /\ pc'[q] = "clear" /\ q \in audited'
          \/ kind[q] \in AuditedApart /\ pc'[q] = "audit" /\ q \in changed'
          \/ kind[q] \in AuditedApart \cup {"own_strategy"} /\ pc'[q] = "refresh" /\ q \in changed'
          \/ kind[q] \in Defaults /\ pc'[q] = "done"
      BY <1>2, <1>c DEF Changing
    <2> QED BY <1>b, <2>1, <2>2, KindsApart DEF StageOf, ChangeStage
  <1>3. CASE GivingUp(q)
    <2>1. found'[q] = {} /\ pc'[q] = "failed"
      BY <1>3, <1>a, <1>c DEF GivingUp, StageOf
    <2> QED BY <1>b, <2>1 DEF StageOf, ReadStage, ChangeStage
  <1>4. CASE Refreshing(q)
    <2>1. /\ found'[q] = {} /\ q \in changed'
          /\ \/ kind[q] \in AuditedApart /\ pc'[q] = "audit"
             \/ kind[q] = "own_strategy" /\ pc'[q] = "done"
      BY <1>4, <1>a, <1>c DEF Refreshing, StageOf
    <2> QED BY <1>b, <2>1, KindsApart DEF StageOf, ChangeStage
  <1>5. CASE Auditing(q)
    <2>1. /\ found'[q] = {} /\ q \in audited' /\ kind[q] \in AuditedApart /\ pc'[q] = "clear"
      BY <1>5, <1>a, <1>c DEF Auditing, StageOf
    <2> QED BY <1>b, <2>1, KindsApart DEF StageOf, ChangeStage
  <1> QED BY <1>1, <1>2, <1>3, <1>4, <1>5 DEF RouteStep

(* A read and a change that ask for the client. *)
LEMMA ReadStages ==
  ASSUME Typed, NEW q \in Requests, Read(q) \/ (Ping(q) /\ Reading(q))
  PROVE  /\ Reading(q) /\ kind' = kind /\ found'[q] = {} /\ pc'[q] # "idle"
         /\ ReadStage(q)'
  <1>a. TypeOK /\ StageOf(q)
    BY DEF Typed, Stage
  <1>b. kind' = kind
    BY <1>a, OthersKept DEF RequestStep
  <1>c. pc \in [Requests -> PCs] /\ at \in [Requests -> 0..4]
    BY <1>a DEF TypeOK
  <1>d. kind[q] \in Keys => Len(Queries[kind[q]]) \in 1..4
    BY QueryLengths
  <1>e. Reading(q)
    <2>1. pc[q] \in {"get", "select", "fresh", "store"} => kind[q] \in Keys
      BY <1>a, ClassOf DEF StageOf, ChangeStage
    <2> QED BY <2>1 DEF Read, AskCache, GetJson, Select, Built, SetJson, Reading
  <1>f. kind[q] \in Keys /\ ReadStage(q) /\ (found[q] # {} => pc[q] \in {"sweep", "dead"})
    BY <1>a, <1>e DEF Reading, StageOf
  <1> DEFINE len == Len(Queries[kind[q]])
  <1>g. len \in 1..4 /\ at[q] \in 0..4
    BY <1>c, <1>d, <1>f
  <1>h. ReadStage(q)' <=>
         /\ pc'[q] \in {"idle", "ping", "get", "select", "fresh", "store", "done", "failed", "dead"}
         /\ pc'[q] \in {"idle", "get"} => at'[q] = 0
         /\ pc'[q] = "select" => at'[q] < len
         /\ pc'[q] = "ping" => at'[q] \in {0, len}
         /\ pc'[q] \in {"fresh", "store"} => at'[q] = len
    BY <1>b DEF ReadStage
  <1>i. /\ pc[q] \in {"idle", "get"} => at[q] = 0
        /\ pc[q] = "select" => at[q] < len
        /\ pc[q] = "ping" => at[q] \in {0, len}
        /\ pc[q] \in {"fresh", "store"} => at[q] = len
    BY <1>f DEF ReadStage
  <1>j. /\ HasClient(q) = IF at[q] = 0 THEN "get" ELSE "store"
        /\ NoClient(q) = IF at[q] = 0 THEN "select" ELSE "done"
    BY <1>e DEF HasClient, NoClient
  <1>k. found[q] = {} \/ pc[q] \in {"sweep", "dead"}
    BY <1>f
  <1> HIDE DEF len
  <1>1. CASE AskCache(q) \/ Built(q)
    <2>1. /\ pc[q] \in {"idle", "fresh"} /\ at' = at /\ found' = found
          /\ pc'[q] \in {"ping", HasClient(q), NoClient(q)}
      BY <1>1, <1>a, <1>c, ClientSteps DEF AskCache, Built, Begin
    <2> QED BY <1>b, <1>e, <1>g, <1>h, <1>i, <1>j, <1>k, <2>1
  <1>2. CASE GetJson(q)
    <2>1. pc[q] = "get" /\ at' = at /\ found' = found /\ pc'[q] \in {"done", "select"}
      BY <1>2, <1>c DEF GetJson
    <2> QED BY <1>b, <1>e, <1>g, <1>h, <1>i, <1>k, <2>1
  <1>3. CASE Select(q)
    <2>1. pc[q] = "select" /\ found' = found
      BY <1>3 DEF Select
    <2>2. at' = [at EXCEPT ![q] = at[q] + 1]
      BY <1>3 DEF Select
    <2>3. pc'[q] = IF at[q] + 1 = len THEN "fresh" ELSE "select"
      BY <1>3, <1>c DEF Select, len
    <2>4. at'[q] = at[q] + 1
      BY <1>c, <2>2
    <2>5. at[q] < len /\ found'[q] = {}
      BY <1>i, <1>k, <2>1
    <2>6. at[q] + 1 # len => at[q] + 1 < len
      BY <1>g, <2>5
    <2> QED BY <1>b, <1>e, <1>h, <2>3, <2>4, <2>5, <2>6
  <1>4. CASE SetJson(q)
    <2>1. pc[q] = "store" /\ at' = at /\ found' = found /\ pc'[q] = "done"
      BY <1>4, <1>c DEF SetJson
    <2> QED BY <1>b, <1>e, <1>h, <1>k, <2>1
  <1>5. CASE Ping(q)
    <2>1. pc[q] = "ping" /\ at' = at /\ found' = found /\ pc'[q] \in {HasClient(q), NoClient(q)}
      BY <1>5, <1>c DEF Ping
    <2> QED BY <1>b, <1>e, <1>g, <1>h, <1>i, <1>j, <1>k, <2>1
  <1> QED BY <1>1, <1>2, <1>3, <1>4, <1>5 DEF Read

LEMMA ChangeStages ==
  ASSUME Typed, NEW q \in Requests, AfterMutation(q) \/ (Ping(q) /\ ~Reading(q))
  PROVE  /\ kind[q] \in Changes /\ kind' = kind /\ pc'[q] \notin {"idle", "audit", "refresh"}
         /\ found'[q] # {} => pc'[q] \in {"sweep", "dead"}
         /\ ChangeStage(q)'
  <1>a. TypeOK /\ StageOf(q)
    BY DEF Typed, Stage
  <1>b. kind' = kind
    BY <1>a, OthersKept DEF RequestStep
  <1>c. /\ pc \in [Requests -> PCs] /\ found \in [Requests -> SUBSET Keys]
    BY <1>a DEF TypeOK
  <1>e. kind[q] \in Changes
    <2>1. pc[q] \in {"clear", "scan", "sweep", "publish"} => kind[q] \in Changes
      BY <1>a, ClassOf DEF StageOf, ReadStage
    <2>2. pc[q] = "ping" /\ kind[q] \notin Keys => kind[q] \in Changes
      BY <1>a, ClassOf DEF StageOf
    <2> QED BY <2>1, <2>2 DEF AfterMutation, Invalidate, ScanKeys, DeleteKeys, Publish, Ping, Reading
  <1>f. ~Reading(q)
    BY <1>e, KindsApart DEF Reading
  <1>g. ChangeStage(q) /\ (found[q] # {} => pc[q] \in {"sweep", "dead"})
    BY <1>a, <1>e DEF StageOf
  <1>h. HasClient(q) = "scan" /\ NoClient(q) = "publish" /\ (Keeps(q) => q \in kept')
    BY <1>f DEF HasClient, NoClient, Keeps
  <1>1. CASE Invalidate(q)
    <2>1. /\ pc[q] = "clear" /\ audited' = audited /\ found' = found
          /\ pc'[q] \in {"ping", "scan"} \/ (pc'[q] = "publish" /\ q \in kept')
      BY <1>1, <1>a, <1>c, <1>h, ClientSteps DEF Invalidate
    <2> QED BY <1>b, <1>e, <1>g, <2>1 DEF ChangeStage
  <1>2. CASE ScanKeys(q)
    <2>1. /\ pc[q] = "scan" /\ audited' = audited
          /\ pc'[q] \in {"sweep", "publish"} /\ q \in scanned' \cup kept'
      BY <1>2, <1>c, <1>h DEF ScanKeys
    <2>2. found'[q] # {} => pc'[q] = "sweep"
      BY <1>2, <1>c, <1>g DEF ScanKeys
    <2> QED BY <1>b, <1>e, <1>g, <2>1, <2>2 DEF ChangeStage
  <1>3. CASE DeleteKeys(q)
    <2>1. /\ pc[q] = "sweep" /\ audited' = audited /\ found'[q] = {} /\ pc'[q] = "publish"
          /\ scanned' = scanned /\ (kept' = kept \/ q \in kept')
      BY <1>3, <1>c, <1>h DEF DeleteKeys
    <2> QED BY <1>b, <1>e, <1>g, <2>1 DEF ChangeStage
  <1>4. CASE Publish(q)
    <2>1. /\ pc[q] = "publish" /\ pc'[q] = "done"
          /\ UNCHANGED <<audited, scanned, kept, found>>
      BY <1>4, <1>c DEF Publish
    <2> QED BY <1>b, <1>e, <1>g, <2>1 DEF ChangeStage
  <1>5. CASE Ping(q)
    <2>1. /\ pc[q] = "ping" /\ audited' = audited /\ found' = found
          /\ pc'[q] = "scan" \/ (pc'[q] = "publish" /\ q \in kept')
      BY <1>5, <1>c, <1>h DEF Ping
    <2> QED BY <1>b, <1>e, <1>g, <2>1 DEF ChangeStage
  <1> QED BY <1>1, <1>2, <1>3, <1>4, <1>5 DEF AfterMutation

LEMMA StepStage ==
  ASSUME Typed, [Next]_vars
  PROVE  Stage'
  <1>1. ASSUME NEW q \in Requests, RequestStep(q), NEW r \in Requests
        PROVE  StageOf(r)'
    <2>1. CASE r # q
      BY <1>1, <2>1, OtherStage
    <2>2. CASE r = q /\ RouteStep(q)
      BY <2>2, RouteStage
    <2>3. CASE r = q /\ (Read(q) \/ (Ping(q) /\ Reading(q)))
      BY <2>3, ReadStages, KindsApart DEF StageOf, Reading, ReadStage
    <2>4. CASE r = q /\ (AfterMutation(q) \/ (Ping(q) /\ ~Reading(q)))
      BY <2>4, ChangeStages, KindsApart DEF StageOf
    <2> QED BY <1>1, <2>1, <2>2, <2>3, <2>4 DEF RequestStep
  <1>2. ASSUME NEW k \in Keys, Expire(k), NEW r \in Requests PROVE StageOf(r)'
    BY <1>2 DEF Expire, Typed, Stage, StageOf, ReadStage, ChangeStage, Missing
  <1>3. ASSUME NEW p \in Processes, ProcessDies(p), NEW r \in Requests PROVE StageOf(r)'
    <2>1. UNCHANGED <<kind, row, changed, audited, at, found, scanned, kept, after>>
      BY <1>3 DEF ProcessDies
    <2>2. pc'[r] = pc[r] \/ pc'[r] = "dead"
      BY <1>3 DEF ProcessDies
    <2>3. StageOf(r)
      BY DEF Typed, Stage
    <2> QED BY <2>1, <2>2, <2>3 DEF StageOf, ReadStage, ChangeStage, Missing
  <1>4. ASSUME UNCHANGED vars, NEW r \in Requests PROVE StageOf(r)'
    BY <1>4 DEF vars, Typed, Stage, StageOf, ReadStage, ChangeStage, Missing
  <1> QED BY <1>1, <1>2, <1>3, <1>4, Steps DEF Stage

(* What a step of a request can be, by what it moves. *)
LEMMA Moves ==
  ASSUME Typed, NEW q \in Requests, RequestStep(q)
  PROVE  /\ pc[q] \notin Ended
         /\ Loading(q) \/ pc'[q] \notin {"commit", "refused"}
         /\ Loading(q) \/ Reading(q) \/ at' = at
         /\ IF pc[q] = "idle" THEN Loading(q) \/ AskCache(q) ELSE after' = after
         /\ Loading(q) \/ AskCache(q) => after' = [after EXCEPT ![q] = Answered] /\ row' = row
         /\ Changing(q) \/ changed' = changed
         /\ Changing(q) \/ Auditing(q) \/ audited' = audited
  <1>a. pc \in [Requests -> PCs]
    BY DEF Typed, TypeOK
  <1>1. CASE RouteStep(q)
    <2>1. CASE Loading(q)
      BY <2>1 DEF Loading, Ended
    <2>2. CASE Changing(q)
      BY <1>a, <2>2 DEF Changing, Ended, Loading, AskCache, Begin
    <2>3. CASE GivingUp(q)
      BY <1>a, <2>3 DEF GivingUp, Ended, Loading, AskCache, Begin
    <2>4. CASE Refreshing(q)
      BY <1>a, <2>4 DEF Refreshing, Ended, Loading, AskCache, Begin
    <2>5. CASE Auditing(q)
      BY <1>a, <2>5 DEF Auditing, Ended, Loading, AskCache, Begin
    <2> QED BY <1>1, <2>1, <2>2, <2>3, <2>4, <2>5 DEF RouteStep
  <1>b. HasClient(q) \notin {"commit", "refused"} /\ NoClient(q) \notin {"commit", "refused"}
    BY DEF HasClient, NoClient
  <1>2. CASE AskCache(q) \/ Built(q) \/ Invalidate(q)
    <2>1. pc'[q] \notin {"commit", "refused"}
      BY <1>a, <1>b, <1>2, ClientSteps DEF Typed, AskCache, Built, Invalidate
    <2>2. CASE AskCache(q)
      BY <2>1, <2>2 DEF AskCache, Begin, Ended
    <2>3. CASE Built(q)
      BY <2>1, <2>3 DEF Built, Ended, Loading, AskCache, Begin
    <2>4. CASE Invalidate(q)
      BY <2>1, <2>4 DEF Invalidate, Ended, Loading, AskCache, Begin
    <2> QED BY <1>2, <2>2, <2>3, <2>4
  <1>3. CASE GetJson(q) \/ Select(q) \/ SetJson(q)
    <2>1. pc[q] \in {"get", "select", "store"} /\ pc'[q] \notin {"commit", "refused"}
      BY <1>a, <1>3 DEF GetJson, Select, SetJson
    <2>2. Reading(q)
      BY <1>3, ReadStages DEF Read
    <2>3. UNCHANGED <<row, changed, audited, after>>
      BY <1>3 DEF GetJson, Select, SetJson
    <2> QED BY <2>1, <2>2, <2>3 DEF Ended, Loading, AskCache, Begin
  <1>4. CASE Ping(q)
    BY <1>a, <1>b, <1>4 DEF Ping, Ended, Loading, AskCache, Begin
  <1>5. CASE ScanKeys(q) \/ DeleteKeys(q) \/ Publish(q)
    <2>1. pc[q] \in {"scan", "sweep", "publish"} /\ pc'[q] \notin {"commit", "refused"}
      BY <1>a, <1>5 DEF ScanKeys, DeleteKeys, Publish
    <2>2. UNCHANGED <<at, row, changed, audited, after>>
      BY <1>5 DEF ScanKeys, DeleteKeys, Publish
    <2> QED BY <2>1, <2>2 DEF Ended, Loading, AskCache, Begin
  <1> QED BY <1>1, <1>2, <1>3, <1>4, <1>5 DEF RequestStep, Read, AfterMutation

-----------------------------------------------------------------------------
(* Changes and their audit rows. *)

LEMMA StepAudits ==
  ASSUME Typed, Audits, [Next]_vars
  PROVE  Audits'
  <1>1. ASSUME NEW q \in Requests, RequestStep(q), NEW r \in Requests
        PROVE  AuditOf(r)'
    <2>a. TypeOK /\ StageOf(q) /\ AuditOf(q) /\ AuditOf(r)
      BY DEF Typed, Stage, Audits
    <2>b. kind' = kind /\ pc \in [Requests -> PCs]
      BY <1>1, <2>a, OthersKept DEF TypeOK
    <2>1. CASE r # q
      <3>1. pc'[r] = pc[r]
        BY <1>1, <2>1, <2>a, OthersKept DEF Kept
      <3>2. (r \in changed' <=> r \in changed) /\ (r \in audited' <=> r \in audited)
        BY <1>1, <2>1, SetsGrow
      <3> QED BY <2>a, <2>b, <3>1, <3>2 DEF AuditOf
    <2>2. CASE r = q /\ RouteStep(q)
      <3>1. CASE Loading(q)
        <4>1. changed' = changed /\ audited' = audited /\ q \notin changed /\ q \notin audited
          BY <2>a, <3>1 DEF Loading, AuditOf
        <4> QED BY <2>2, <4>1 DEF AuditOf
      <3>2. CASE Changing(q)
        <4>1. q \notin changed /\ q \notin audited
          BY <2>a, <3>2 DEF Changing, AuditOf
        <4>2. \/ kind[q] \in Changes /\ pc'[q] = "clear" /\ q \in changed' /\ q \in audited'
              \/ kind[q] \in AuditedApart /\ pc'[q] = "audit" /\ q \in changed' /\ q \notin audited'
              \/ kind[q] \in AuditedApart \cup {"own_strategy"} /\ pc'[q] = "refresh" /\ q \in changed' /\ q \notin audited'
              \/ q \notin changed' /\ q \notin audited'
          BY <2>b, <3>2, <4>1 DEF Changing
        <4> QED BY <2>2, <2>b, <4>2, KindsApart DEF AuditOf
      <3>3. CASE GivingUp(q)
        BY <2>2, <2>a, <2>b, <3>3 DEF GivingUp, AuditOf
      <3>4. CASE Refreshing(q)
        BY <2>2, <2>a, <2>b, <3>4 DEF Refreshing, AuditOf
      <3>5. CASE Auditing(q)
        <4>1. q \in changed
          BY <2>a, <3>5 DEF Auditing, StageOf
        <4> QED BY <2>2, <2>a, <2>b, <3>5, <4>1 DEF Auditing, AuditOf
      <3> QED BY <2>2, <3>1, <3>2, <3>3, <3>4, <3>5 DEF RouteStep
    <2>3. CASE r = q /\ ~RouteStep(q)
      <3>1. UNCHANGED <<changed, audited>> /\ pc'[q] \notin {"commit", "refused"}
        BY <1>1, <2>3, Moves DEF RouteStep
      <3>2. CASE Read(q) \/ (Ping(q) /\ Reading(q))
        <4>1. q \notin changed /\ q \notin audited
          BY <2>a, <3>2, ReadStages, KindsApart DEF Reading, AuditOf
        <4> QED BY <2>3, <3>1, <4>1 DEF AuditOf
      <3>3. CASE AfterMutation(q) \/ (Ping(q) /\ ~Reading(q))
        <4>1. kind[q] \in Changes /\ pc'[q] # "idle"
          BY <3>3, ChangeStages
        <4>2. pc[q] \in {"clear", "scan", "sweep", "publish", "ping"}
          BY <3>3 DEF AfterMutation, Invalidate, ScanKeys, DeleteKeys, Publish, Ping
        <4>3. q \in audited
          BY <2>a, <4>1, <4>2 DEF StageOf, ChangeStage
        <4> QED BY <2>3, <2>a, <2>b, <3>1, <4>1, <4>3 DEF AuditOf
      <3> QED BY <1>1, <2>3, <3>2, <3>3 DEF RequestStep
    <2> QED BY <2>1, <2>2, <2>3
  <1>2. ASSUME NEW k \in Keys, Expire(k) PROVE Audits'
    BY <1>2 DEF Expire, Audits, AuditOf
  <1>3. ASSUME NEW p \in Processes, ProcessDies(p), NEW r \in Requests PROVE AuditOf(r)'
    BY <1>3 DEF ProcessDies, Audits, AuditOf
  <1>4. CASE UNCHANGED vars
    BY <1>4 DEF vars, Audits, AuditOf
  <1> QED BY <1>1, <1>2, <1>3, <1>4, Steps DEF Audits

-----------------------------------------------------------------------------
(* What changes have done to the rows. *)

LEMMA RowsStay ==
  ASSUME TypeOK, NEW q \in Requests, Rewrites(q)
  PROVE  /\ row["trades"][Seed] = "closed" \/ kind[q] = "close" => row'["trades"][Seed] = "closed"
         /\ Missing("strategies", Seed) \/ kind[q] \in {"delete_strategy", "bulk_delete"} => Missing("strategies", Seed)'
         /\ Missing("articles", Seed) \/ kind[q] = "delete_article" => Missing("articles", Seed)'
         /\ SettingsFound \/ (kind[q] = "settings" /\ at[q] # 1) => SettingsFound'
         /\ Missing("settings", q) /\ kind[q] \notin Defaults /\ ~(kind[q] = "settings" /\ at[q] = 0)
              => Missing("settings", q)'
  <1>a. Seed \in Rows /\ q \in Rows /\ q # Seed
    BY SeedAssumption DEF Rows
  <1>b. "trades" \in Tables /\ "strategies" \in Tables /\ "articles" \in Tables /\ "settings" \in Tables
    BY DEF Tables
  <1>1. CASE row' = row /\ kind[q] \notin {"close", "delete_strategy", "bulk_delete", "delete_article"}
                        /\ (kind[q] = "settings" => at[q] = 1)
    BY <1>1 DEF Missing, SettingsFound
  <1>2. ASSUME NEW t \in Tables, NEW id \in {q, Seed}, NEW v \in TableValues[t] \cup {"none"}, Put(t, id, v),
               t = "trades" => id = Seed /\ v = "closed",
               id = Seed /\ v # "none" => t = "trades" \/ ~Missing(t, Seed),
               t = "settings" => /\ id = q /\ v = "there"
                                 /\ kind[q] \in Defaults \/ (kind[q] = "settings" /\ at[q] = 0),
               kind[q] = "close" => t = "trades",
               kind[q] \in {"delete_strategy", "bulk_delete"} => t = "strategies" /\ id = Seed /\ v = "none",
               kind[q] = "delete_article" => t = "articles" /\ id = Seed /\ v = "none",
               kind[q] = "settings" => t = "settings"
        PROVE  /\ row["trades"][Seed] = "closed" \/ kind[q] = "close" => row'["trades"][Seed] = "closed"
               /\ row["strategies"][Seed] = "none" \/ kind[q] \in {"delete_strategy", "bulk_delete"} => row'["strategies"][Seed] = "none"
               /\ row["articles"][Seed] = "none" \/ kind[q] = "delete_article" => row'["articles"][Seed] = "none"
               /\ (\E i \in Rows : row["settings"][i] # "none") \/ kind[q] = "settings" => \E i \in Rows : row'["settings"][i] # "none"
               /\ row["settings"][q] = "none" /\ kind[q] \notin Defaults /\ ~(kind[q] = "settings" /\ at[q] = 0)
                    => row'["settings"][q] = "none"
    <2>1. id \in Rows
      BY <1>a
    <2>2. \A u \in Tables, i \in Rows : row'[u][i] = IF u = t /\ i = id THEN v ELSE row[u][i]
      BY <1>2, <2>1, PutRow
    <2>3. row["trades"][Seed] = "closed" \/ kind[q] = "close" => row'["trades"][Seed] = "closed"
      <3>1. row'["trades"][Seed] = IF t = "trades" /\ id = Seed THEN v ELSE row["trades"][Seed]
        BY <1>a, <1>b, <2>2
      <3> QED BY <1>2, <3>1
    <2>4. row["strategies"][Seed] = "none" \/ kind[q] \in {"delete_strategy", "bulk_delete"} => row'["strategies"][Seed] = "none"
      <3>1. row'["strategies"][Seed] = IF t = "strategies" /\ id = Seed THEN v ELSE row["strategies"][Seed]
        BY <1>a, <1>b, <2>2
      <3> QED BY <1>2, <3>1 DEF Missing
    <2>5. row["articles"][Seed] = "none" \/ kind[q] = "delete_article" => row'["articles"][Seed] = "none"
      <3>1. row'["articles"][Seed] = IF t = "articles" /\ id = Seed THEN v ELSE row["articles"][Seed]
        BY <1>a, <1>b, <2>2
      <3> QED BY <1>2, <3>1 DEF Missing
    <2>6. (\E i \in Rows : row["settings"][i] # "none") \/ kind[q] = "settings" => \E i \in Rows : row'["settings"][i] # "none"
      <3>1. \A i \in Rows : row'["settings"][i] = IF t = "settings" /\ i = id THEN v ELSE row["settings"][i]
        BY <1>b, <2>2
      <3>2. CASE t = "settings"
        BY <1>2, <1>a, <3>1, <3>2
      <3>3. CASE t # "settings"
        BY <1>2, <3>1, <3>3
      <3> QED BY <3>2, <3>3
    <2>7. row["settings"][q] = "none" /\ kind[q] \notin Defaults /\ ~(kind[q] = "settings" /\ at[q] = 0)
            => row'["settings"][q] = "none"
      <3>1. row'["settings"][q] = IF t = "settings" /\ q = id THEN v ELSE row["settings"][q]
        BY <1>a, <1>b, <2>2
      <3> QED BY <1>2, <3>1
    <2> QED BY <2>3, <2>4, <2>5, <2>6, <2>7
  <1> QED BY <1>1, <1>2 DEF Rewrites, Missing, SettingsFound

LEMMA StepEffected ==
  ASSUME Typed, Effected, Found, [Next]_vars
  PROVE  Effected' /\ Found'
  <1>1. ASSUME NEW q \in Requests, RequestStep(q), row' = row
        PROVE  Effected' /\ Found'
    <2>a. TypeOK
      BY DEF Typed
    <2>b. kind' = kind /\ at \in [Requests -> 0..4]
      BY <1>1, <2>a, OthersKept DEF TypeOK
    <2>1. ASSUME NEW m \in changed'
          PROVE  /\ kind'[m] = "close" => row'["trades"][Seed] = "closed"
                 /\ kind'[m] \in {"delete_strategy", "bulk_delete"} => Missing("strategies", Seed)'
                 /\ kind'[m] = "delete_article" => Missing("articles", Seed)'
                 /\ kind'[m] = "settings" => SettingsFound'
      <3>1. CASE m \in changed
        BY <1>1, <2>b, <3>1 DEF Effected, Missing, SettingsFound
      <3>2. CASE m \notin changed
        <4>1. m = q /\ Changing(q)
          BY <1>1, <2>1, <3>2, SetsGrow, Moves
        <4>2. Rewrites(q)
          BY <4>1 DEF Changing
        <4>3. kind[q] = "settings" /\ at[q] = 1 => SettingsFound
          BY DEF Found
        <4> QED BY <2>a, <2>b, <4>1, <4>2, <4>3, RowsStay
      <3> QED BY <3>1, <3>2
    <2>2. ASSUME NEW r \in Requests, kind'[r] = "settings", at'[r] = 1
          PROVE  SettingsFound'
      <3>1. CASE at'[r] = at[r]
        BY <1>1, <2>2, <2>b, <3>1 DEF Found, SettingsFound, Missing
      <3>2. CASE at'[r] # at[r]
        <4>1. r = q
          BY <1>1, <2>a, <3>2, OthersKept DEF Kept
        <4>2. ~Reading(q)
          BY <2>2, <2>b, <4>1, KeyNames DEF Reading
        <4>3. Loading(q)
          BY <1>1, <3>2, <4>1, <4>2, Moves
        <4>4. SettingsFound
          BY <2>2, <2>b, <3>2, <4>1, <4>3 DEF Loading
        <4> QED BY <1>1, <4>4 DEF SettingsFound, Missing
      <3> QED BY <3>1, <3>2
    <2> QED BY <2>1, <2>2 DEF Effected, Found
  <1>2. ASSUME NEW q \in Requests, RequestStep(q), row' # row
        PROVE  Effected' /\ Found'
    <2>a. TypeOK
      BY DEF Typed
    <2>b. kind' = kind
      BY <1>2, <2>a, OthersKept
    <2>1. Changing(q) /\ Rewrites(q)
      BY <1>2, SetsGrow DEF Changing
    <2>2. at' = at /\ (changed' = changed \/ changed' = changed \cup {q})
      BY <2>1 DEF Changing
    <2>3. kind[q] = "settings" /\ at[q] = 1 => SettingsFound
      BY DEF Found
    <2>4. Effected'
      <3>1. ASSUME NEW m \in changed'
            PROVE  /\ kind'[m] = "close" => row'["trades"][Seed] = "closed"
                   /\ kind'[m] \in {"delete_strategy", "bulk_delete"} => Missing("strategies", Seed)'
                   /\ kind'[m] = "delete_article" => Missing("articles", Seed)'
                   /\ kind'[m] = "settings" => SettingsFound'
        <4>1. CASE m \in changed
          BY <2>a, <2>b, <2>1, <4>1, RowsStay DEF Effected
        <4>2. CASE m = q
          BY <2>a, <2>b, <2>1, <2>3, <4>2, RowsStay
        <4> QED BY <2>2, <3>1, <4>1, <4>2
      <3> QED BY <3>1 DEF Effected
    <2>5. Found'
      BY <2>a, <2>b, <2>1, <2>2, RowsStay DEF Found
    <2> QED BY <2>4, <2>5
  <1>3. ASSUME UNCHANGED <<kind, row, changed, at>> PROVE Effected' /\ Found'
    BY <1>3 DEF Effected, Found, Missing, SettingsFound
  <1>4. ASSUME NEW k \in Keys, Expire(k) PROVE UNCHANGED <<kind, row, changed, at>>
    BY <1>4 DEF Expire
  <1>5. ASSUME NEW p \in Processes, ProcessDies(p) PROVE UNCHANGED <<kind, row, changed, at>>
    BY <1>5 DEF ProcessDies
  <1> QED BY <1>1, <1>2, <1>3, <1>4, <1>5, Steps DEF vars

-----------------------------------------------------------------------------
(* What a request that begins finds done. *)

LEMMA AnsweredDone ==
  ASSUME Typed, Audits, Effected, NEW m \in Answered
  PROVE  /\ m \in Requests /\ kind[m] \in Changes /\ pc[m] = "done" /\ found[m] = {}
         /\ m \in audited /\ m \in changed /\ m \in scanned \cup kept
         /\ kind[m] = "close" => row["trades"][Seed] = "closed"
         /\ kind[m] \in {"delete_strategy", "bulk_delete"} => Missing("strategies", Seed)
         /\ kind[m] = "delete_article" => Missing("articles", Seed)
         /\ kind[m] = "settings" => SettingsFound
  <1>1. m \in Requests /\ kind[m] \in Changes /\ pc[m] = "done"
    BY DEF Answered
  <1>2. m \in audited /\ m \in scanned \cup kept /\ found[m] = {}
    BY <1>1 DEF Typed, Stage, StageOf, ChangeStage
  <1>3. m \in changed
    BY <1>1, <1>2 DEF Audits, AuditOf
  <1> QED BY <1>1, <1>2, <1>3 DEF Effected

(* An operation of Once is refused after another of its set was answered. *)
LEMMA OnceFinds ==
  ASSUME Typed, Audits, Effected, NEW q \in Requests, NEW m \in Answered,
         NEW same \in Once, {kind[q], kind[m]} \subseteq same
  PROVE  ~NothingDone(q) /\ kind[q] \in Changes
  <1>1. CASE same = {"close"}
    BY <1>1, AnsweredDone DEF NothingDone, Changes
  <1>2. CASE same = {"delete_strategy", "bulk_delete"}
    BY <1>2, AnsweredDone DEF NothingDone, Changes, StrategyChanges
  <1>3. CASE same = {"delete_article"}
    BY <1>3, AnsweredDone DEF NothingDone, Changes, ArticleChanges
  <1> QED BY <1>1, <1>2, <1>3 DEF Once

LaterThan(q, m) ==
    /\ \A same \in Once : {kind[q], kind[m]} \subseteq same => pc[q] = "refused"
    /\ kind[m] = "settings" =>
         /\ Missing("settings", q)
         /\ kind[q] \in Defaults => pc[q] # "commit"
         /\ kind[q] = "settings" => at[q] = 1

LEMMA LaterFold == Later <=> \A q \in Requests : \A m \in after[q] : LaterThan(q, m)
  BY DEF Later, LaterThan

LEMMA BeginLater ==
  ASSUME Typed, Audits, Effected, NEW q \in Requests, Loading(q) \/ AskCache(q), NEW m \in Answered
  PROVE  LaterThan(q, m)'
  <1>a. TypeOK /\ pc \in [Requests -> PCs] /\ at \in [Requests -> 0..4]
    BY DEF Typed, TypeOK
  <1>b. RequestStep(q)
    BY DEF RequestStep, RouteStep, Read
  <1>c. kind' = kind /\ row' = row
    BY <1>a, <1>b, OthersKept, Moves
  <1>d. pc[q] = "idle" /\ Missing("settings", q)
    BY DEF Loading, AskCache, Begin, Typed, Stage, StageOf
  <1>e. Missing("settings", q)'
    BY <1>c, <1>d DEF Missing
  <1>1. CASE Loading(q)
    <2>1. /\ pc'[q] \in {"commit", "refused", "done"}
          /\ pc'[q] = "done" => kind[q] \in Defaults
          /\ pc'[q] = "commit" => NothingDone(q)
      BY <1>a, <1>1 DEF Loading
    <2>2. ASSUME NEW same \in Once, {kind[q], kind[m]} \subseteq same PROVE pc'[q] = "refused"
      BY <2>1, <2>2, OnceFinds, KindsApart
    <2>3. ASSUME kind[m] = "settings", kind[q] \in Defaults PROVE pc'[q] # "commit"
      BY <2>1, <2>3, AnsweredDone DEF NothingDone
    <2>4. ASSUME kind[m] = "settings", kind[q] = "settings" PROVE at'[q] = 1
      BY <1>a, <1>1, <2>4, AnsweredDone DEF Loading
    <2> QED BY <1>c, <1>e, <2>2, <2>3, <2>4 DEF LaterThan
  <1>2. CASE AskCache(q)
    <2>1. kind[q] \in Keys
      BY <1>2 DEF AskCache, Reading
    <2>2. kind[q] \notin Changes /\ kind[q] \notin Defaults /\ kind[q] # "settings"
      BY <2>1, KindsApart, KeyNames
    <2>3. ASSUME NEW same \in Once, {kind[q], kind[m]} \subseteq same PROVE FALSE
      BY <2>2, <2>3, OnceFinds
    <2> QED BY <1>c, <1>e, <2>2, <2>3 DEF LaterThan
  <1> QED BY <1>1, <1>2

LEMMA StayLater ==
  ASSUME Typed, NEW q \in Requests, RequestStep(q), pc[q] # "idle", NEW m \in Requests, LaterThan(q, m)
  PROVE  LaterThan(q, m)'
  <1>a. TypeOK
    BY DEF Typed
  <1>b. kind' = kind
    BY <1>a, OthersKept
  <1>c. ~Loading(q)
    BY DEF Loading
  <1>1. ASSUME NEW same \in Once, {kind[q], kind[m]} \subseteq same PROVE FALSE
    BY <1>1, Moves DEF LaterThan, Ended
  <1>2. ASSUME kind[m] = "settings" PROVE Missing("settings", q)'
    <2>1. CASE row' = row
      BY <1>2, <2>1 DEF LaterThan, Missing
    <2>2. CASE Changing(q)
      <3>1. kind[q] \notin Defaults /\ ~(kind[q] = "settings" /\ at[q] = 0)
        BY <1>2, <2>2 DEF Changing, LaterThan
      <3> QED BY <1>a, <1>2, <2>2, <3>1, RowsStay DEF Changing, LaterThan
    <2> QED BY <2>1, <2>2, SetsGrow
  <1>3. pc'[q] # "commit"
    BY <1>c, Moves
  <1>4. kind[q] = "settings" => at' = at
    BY <1>c, Moves, KeyNames DEF Reading
  <1> QED BY <1>b, <1>1, <1>2, <1>3, <1>4 DEF LaterThan

LEMMA StepLater ==
  ASSUME Typed, Audits, Effected, Later, [Next]_vars
  PROVE  Later'
  <1>a. TypeOK /\ after \in [Requests -> SUBSET Requests] /\ pc \in [Requests -> PCs]
    BY DEF Typed, TypeOK
  <1>1. ASSUME NEW q \in Requests, RequestStep(q), NEW r \in Requests, NEW m \in after'[r]
        PROVE  LaterThan(r, m)'
    <2>1. CASE r # q
      <3>1. kind' = kind /\ Kept(r)
        BY <1>1, <1>a, <2>1, OthersKept
      <3>2. Missing("settings", r) => Missing("settings", r)'
        BY <1>1, <1>a, <2>1, SettingsKept DEF Missing, Rows
      <3>3. LaterThan(r, m)
        BY <1>1, <3>1, LaterFold DEF Kept
      <3> HIDE DEF Missing
      <3> QED BY <3>1, <3>2, <3>3 DEF LaterThan, Kept
    <2>2. CASE r = q /\ pc[q] = "idle"
      <3>1. Loading(q) \/ AskCache(q)
        BY <1>1, <2>2, Moves
      <3>2. after'[q] = Answered
        BY <1>1, <1>a, <3>1, Moves
      <3> QED BY <1>1, <2>2, <3>1, <3>2, BeginLater
    <2>3. CASE r = q /\ pc[q] # "idle"
      <3>1. m \in after[q]
        BY <1>1, <2>3, Moves
      <3> QED BY <1>1, <1>a, <2>3, <3>1, StayLater, LaterFold
    <2> QED BY <2>1, <2>2, <2>3
  <1>2. ASSUME NEW p \in Processes, ProcessDies(p), NEW r \in Requests, NEW m \in after'[r]
        PROVE  LaterThan(r, m)'
    <2>1. UNCHANGED <<kind, row, at, after>>
      BY <1>2 DEF ProcessDies
    <2>2. pc'[r] = pc[r] \/ (pc'[r] = "dead" /\ pc[r] # "refused")
      BY <1>2 DEF ProcessDies, Ended
    <2>3. LaterThan(r, m)
      BY <1>2, <2>1, LaterFold
    <2> QED BY <2>1, <2>2, <2>3 DEF LaterThan, Missing
  <1>3. ASSUME UNCHANGED <<kind, pc, row, at, after>> PROVE Later'
    BY <1>3 DEF Later, Missing
  <1>4. ASSUME NEW k \in Keys, Expire(k) PROVE Later'
    BY <1>3, <1>4 DEF Expire
  <1>5. CASE UNCHANGED vars
    BY <1>3, <1>5 DEF vars
  <1>6. (\A r \in Requests : \A m \in after'[r] : LaterThan(r, m)') => Later'
    BY DEF Later, LaterThan
  <1> QED BY <1>1, <1>2, <1>4, <1>5, <1>6, Steps

-----------------------------------------------------------------------------
(* The entries of the cache. *)

(* An entry shows what had been answered when its reader began. *)
LEMMA StoredShows ==
  ASSUME Typed, Seen, NEW q \in Requests, SetJson(q), kind[q] \in Keys, NEW m \in after[q]
  PROVE  Shows(view[q], m, kind[q])
  <1>1. pc[q] = "store"
    BY DEF SetJson
  <1>2. at[q] = Len(Queries[kind[q]])
    BY <1>1 DEF Typed, Stage, StageOf, ReadStage
  <1> QED BY <1>2 DEF Seen, Shows, Counted

LEMMA StepCleared ==
  ASSUME Typed, Cleared, Seen, [Next]_vars
  PROVE  Cleared'
  <1>a. TypeOK
    BY DEF Typed
  <1>b. /\ cache \in [Keys -> SUBSET Entries] /\ found \in [Requests -> SUBSET Keys]
        /\ scanned \subseteq Requests
    BY <1>a DEF TypeOK
  <1>1. ASSUME NEW q \in Requests, RequestStep(q) PROVE Cleared'
    <2>1. ASSUME UNCHANGED <<cache, found, scanned>> PROVE Cleared'
      <3>1. kept \subseteq kept' /\ kind' = kind
        BY <1>1, <1>a, SetsGrow, OthersKept
      <3> QED BY <2>1, <3>1 DEF Cleared, Shows, Counted
    <2>2. CASE SetJson(q) /\ cache' # cache
      <3> DEFINE stored == [view[q] EXCEPT !.late = scanned \ after[q]]
      <3>1. UNCHANGED <<kind, found, scanned, kept>>
        BY <2>2 DEF SetJson
      <3>2. cache' = [cache EXCEPT ![kind[q]] = {stored}]
        BY <2>2 DEF SetJson
      <3>3. stored.late = scanned \ after[q] /\ stored.shows = view[q].shows
        BY <1>a DEF TypeOK, Entries
      <3>5. ASSUME NEW m \in after[q], kind[q] \in Keys PROVE Shows(stored, m, kind[q])
        BY <2>2, <3>3, <3>5, StoredShows DEF Shows
      <3> HIDE DEF stored
      <3>4. ASSUME NEW k \in Keys, NEW entry \in cache'[k], NEW m \in scanned \ kept
            PROVE  m \in entry.late \/ k \in found[m] \/ Shows(entry, m, k)
        <4>1. CASE k = kind[q]
          BY <1>b, <3>2, <3>3, <3>4, <3>5, <4>1
        <4>2. CASE k # kind[q]
          BY <1>b, <3>2, <3>4, <4>2 DEF Cleared
        <4> QED BY <4>1, <4>2
      <3> QED BY <3>1, <3>4 DEF Cleared, Shows, Counted
    <2>3. CASE ScanKeys(q)
      <3>1. CASE UNCHANGED <<found, scanned>>
        BY <2>1, <2>3, <3>1 DEF ScanKeys
      <3>2. CASE ~UNCHANGED <<found, scanned>>
        <4>1. /\ found' = [found EXCEPT ![q] = {k \in Keys : cache[k] # {}}]
              /\ scanned' = scanned \cup {q} /\ UNCHANGED <<kind, kept, cache>>
          BY <2>3, <3>2 DEF ScanKeys
        <4>2. ASSUME NEW k \in Keys, NEW entry \in cache[k], NEW m \in scanned' \ kept
              PROVE  m \in entry.late \/ k \in found'[m] \/ Shows(entry, m, k)
          <5>1. CASE m = q
            BY <1>b, <4>1, <4>2, <5>1
          <5>2. CASE m # q
            <6>1. m \in scanned /\ found'[m] = found[m]
              BY <1>b, <4>1, <4>2, <5>2
            <6> QED BY <4>2, <6>1 DEF Cleared
          <5> QED BY <5>1, <5>2
        <4> QED BY <4>1, <4>2 DEF Cleared, Shows, Counted
      <3> QED BY <3>1, <3>2
    <2>4. CASE DeleteKeys(q)
      <3>1. ~Reading(q)
        BY <2>4, ChangeStages, KindsApart DEF AfterMutation, Reading
      <3>2. found' = [found EXCEPT ![q] = {}] /\ UNCHANGED <<kind, scanned>>
        BY <2>4 DEF DeleteKeys
      <3>3. \/ cache' = [k \in Keys |-> IF k \in found[q] THEN {} ELSE cache[k]] /\ kept' = kept
            \/ cache' = cache /\ kept' = kept \cup {q}
        BY <2>4, <3>1 DEF DeleteKeys, Keeps
      <3>4. ASSUME NEW k \in Keys, NEW entry \in cache'[k], NEW m \in scanned \ kept'
            PROVE  m \in entry.late \/ k \in found'[m] \/ Shows(entry, m, k)
        <4>1. entry \in cache[k] /\ m \in scanned \ kept
          BY <3>3, <3>4
        <4>2. m \in entry.late \/ k \in found[m] \/ Shows(entry, m, k)
          BY <4>1 DEF Cleared
        <4>3. CASE m # q
          BY <1>b, <3>2, <4>1, <4>2, <4>3
        <4>4. CASE m = q
          <5>1. k \notin found[q]
            BY <3>3, <3>4, <4>4
          <5> QED BY <4>2, <4>4, <5>1
        <4> QED BY <4>3, <4>4
      <3> QED BY <3>2, <3>4 DEF Cleared, Shows, Counted
    <2>5. CASE RouteStep(q)
      BY <2>1, <2>5 DEF RouteStep, Loading, Changing, GivingUp, Refreshing, Auditing
    <2>6. CASE AskCache(q) \/ Built(q) \/ Invalidate(q) \/ Ping(q)
      BY <2>1, <2>6 DEF AskCache, Built, Invalidate, Ping
    <2>7. CASE GetJson(q) \/ Select(q) \/ Publish(q) \/ (SetJson(q) /\ cache' = cache)
      BY <2>1, <2>7 DEF GetJson, Select, Publish, SetJson
    <2> QED BY <1>1, <2>2, <2>3, <2>4, <2>5, <2>6, <2>7 DEF RequestStep, Read, AfterMutation
  <1>2. ASSUME NEW k \in Keys, Expire(k) PROVE Cleared'
    <2>1. cache' = [cache EXCEPT ![k] = {}] /\ UNCHANGED <<kind, found, scanned, kept>>
      BY <1>2 DEF Expire
    <2>2. \A l \in Keys : cache'[l] \subseteq cache[l]
      BY <1>b, <2>1
    <2> QED BY <2>1, <2>2 DEF Cleared, Shows, Counted
  <1>3. ASSUME NEW p \in Processes, ProcessDies(p) PROVE Cleared'
    BY <1>3 DEF ProcessDies, Cleared, Shows, Counted
  <1>4. CASE UNCHANGED vars
    BY <1>4 DEF vars, Cleared, Shows, Counted
  <1> QED BY <1>1, <1>2, <1>3, <1>4, Steps

-----------------------------------------------------------------------------
(* What reads are told. *)

LEMMA AnsweredStays ==
  ASSUME Typed, [Next]_vars
  PROVE  Answered \subseteq Answered'
  <1>a. TypeOK
    BY DEF Typed
  <1>1. ASSUME NEW q \in Requests, RequestStep(q) PROVE Answered \subseteq Answered'
    <2>1. pc[q] # "done" /\ kind' = kind
      BY <1>a, <1>1, Moves, OthersKept DEF Ended
    <2>2. \A m \in Requests \ {q} : pc'[m] = pc[m]
      BY <1>a, <1>1, OthersKept DEF Kept
    <2> QED BY <2>1, <2>2 DEF Answered
  <1>2. ASSUME NEW k \in Keys, Expire(k) PROVE Answered \subseteq Answered'
    BY <1>2 DEF Expire, Answered
  <1>3. ASSUME NEW p \in Processes, ProcessDies(p) PROVE Answered \subseteq Answered'
    BY <1>3 DEF ProcessDies, Answered, Ended
  <1>4. ASSUME UNCHANGED vars PROVE Answered \subseteq Answered'
    BY <1>4 DEF vars, Answered
  <1> QED BY <1>1, <1>2, <1>3, <1>4, Steps

SeenBy(q, m) ==
    /\ \A n \in 1..at[q] :
         Queries[kind[q]][n] \in {TableOf(kind[m]), "audit"} => m \in view[q].shows
    /\ pc[q] = "done" => \/ at[q] = Len(Queries[kind[q]])
                         \/ m \in view[q].late \cup kept
                         \/ Shows(view[q], m, kind[q])

LEMMA SeenFold ==
  Seen <=> \A q \in Requests : \A m \in after[q] : m \in Answered /\ (kind[q] \in Keys => SeenBy(q, m))
  BY DEF Seen, SeenBy

(* A query finds every change of its table that has been answered. *)
LEMMA QueryFinds ==
  ASSUME Typed, Audits, Effected, NEW m \in Answered, NEW t, t \in {TableOf(kind[m]), "audit"}
  PROVE  m \in Committed(t)
  BY AnsweredDone DEF Committed

LEMMA StaySeen ==
  ASSUME Typed, Audits, Effected, Cleared, NEW q \in Requests, RequestStep(q), kind[q] \in Keys,
         NEW m \in Answered, SeenBy(q, m)
  PROVE  SeenBy(q, m)'
  <1>a. TypeOK /\ StageOf(q)
    BY DEF Typed, Stage
  <1>b. kind' = kind /\ kept \subseteq kept' /\ ReadStage(q)
    BY <1>a, OthersKept, SetsGrow DEF StageOf
  <1>c. pc \in [Requests -> PCs] /\ at \in [Requests -> 0..4] /\ view \in [Requests -> Entries]
    BY <1>a DEF TypeOK
  <1>1. CASE RouteStep(q)
    <2>1. GivingUp(q)
      BY <1>1, <1>b DEF RouteStep, Loading, Changing, Refreshing, Auditing, ReadStage
    <2>2. pc'[q] = "failed" /\ at' = at /\ view' = view
      BY <1>c, <2>1 DEF GivingUp
    <2> QED BY <1>b, <2>2 DEF SeenBy
  <1>2. CASE AskCache(q) \/ Built(q) \/ (Ping(q) /\ Reading(q))
    <2>1. at' = at /\ view' = view
      BY <1>2 DEF AskCache, Built, Ping
    <2>2. pc'[q] \in {"ping", HasClient(q), NoClient(q)}
      BY <1>a, <1>c, <1>2, ClientSteps DEF AskCache, Built, Ping
    <2>3. pc'[q] = "done" => at[q] # 0
      BY <2>2 DEF HasClient, NoClient, Reading
    <2>4. pc[q] \in {"idle", "fresh", "ping"}
      BY <1>2 DEF AskCache, Built, Ping, Begin
    <2>5. at[q] # 0 => at[q] = Len(Queries[kind[q]])
      BY <1>b, <2>4 DEF ReadStage
    <2> QED BY <1>b, <2>1, <2>3, <2>5 DEF SeenBy
  <1>3. CASE GetJson(q)
    <2>1. at' = at /\ at[q] = 0
      BY <1>3, <1>b DEF GetJson, ReadStage
    <2>2. \A n \in 1..at'[q] : FALSE
      BY <2>1
    <2>3. ASSUME pc'[q] = "done"
          PROVE  m \in view'[q].late \cup kept' \/ Shows(view'[q], m, kind[q])
      <3>1. PICK entry \in cache[kind[q]] : view' = [view EXCEPT ![q] = entry]
        BY <1>3, <1>c, <2>3 DEF GetJson
      <3>2. view'[q] = entry
        BY <1>c, <3>1
      <3>3. found[m] = {} /\ m \in scanned \cup kept
        BY AnsweredDone
      <3>4. m \in scanned \ kept => m \in entry.late \/ kind[q] \in found[m] \/ Shows(entry, m, kind[q])
        BY <3>1 DEF Cleared
      <3> QED BY <1>b, <3>2, <3>3, <3>4
    <2> QED BY <1>b, <2>2, <2>3 DEF SeenBy, Shows, Counted
  <1>4. CASE Select(q)
    <2>1. view' = [view EXCEPT ![q].shows = view[q].shows \cup Committed(Queries[kind[q]][at[q] + 1])]
      BY <1>4 DEF Select
    <2>2. view'[q].shows = view[q].shows \cup Committed(Queries[kind[q]][at[q] + 1])
      BY <1>c, <2>1 DEF Entries
    <2>3. at' = [at EXCEPT ![q] = at[q] + 1]
      BY <1>4 DEF Select
    <2>4. at'[q] = at[q] + 1 /\ at[q] \in 0..4
      BY <1>c, <2>3
    <2>5. pc'[q] # "done"
      BY <1>c, <1>4 DEF Select
    <2>6. ASSUME NEW n \in 1..at'[q], Queries[kind[q]][n] \in {TableOf(kind[m]), "audit"}
          PROVE  m \in view'[q].shows
      <3>1. CASE n \in 1..at[q]
        BY <2>2, <2>6, <3>1 DEF SeenBy
      <3>2. CASE n \notin 1..at[q]
        <4>1. n = at[q] + 1
          BY <2>4, <3>2
        <4>2. m \in Committed(Queries[kind[q]][at[q] + 1])
          BY <2>6, <4>1, QueryFinds
        <4> QED BY <2>2, <4>2
      <3> QED BY <3>1, <3>2
    <2> QED BY <1>b, <2>5, <2>6 DEF SeenBy
  <1>5. CASE SetJson(q)
    <2>1. at' = at /\ view' = view /\ pc[q] = "store"
      BY <1>5 DEF SetJson
    <2>2. at[q] = Len(Queries[kind[q]])
      BY <1>b, <2>1 DEF ReadStage
    <2> QED BY <1>b, <2>1, <2>2 DEF SeenBy
  <1>6. ~(AfterMutation(q) \/ (Ping(q) /\ ~Reading(q)))
    BY ChangeStages, KindsApart
  <1> QED BY <1>1, <1>2, <1>3, <1>4, <1>5, <1>6 DEF RequestStep, Read

(* A read that begins has been told nothing yet. *)
LEMMA BeginSeen ==
  ASSUME Typed, NEW q \in Requests, AskCache(q), NEW m
  PROVE  SeenBy(q, m)
  <1>1. pc[q] = "idle" /\ kind[q] \in Keys
    BY DEF AskCache, Begin, Reading
  <1>2. at[q] = 0
    BY <1>1 DEF Typed, Stage, StageOf, ReadStage
  <1>3. \A n \in 1..at[q] : FALSE
    BY <1>2
  <1> QED BY <1>1, <1>3 DEF SeenBy

LEMMA StepSeen ==
  ASSUME Typed, Audits, Effected, Cleared, Seen, [Next]_vars
  PROVE  Seen'
  <1>a. TypeOK /\ after \in [Requests -> SUBSET Requests]
    BY DEF Typed, TypeOK
  <1>b. Answered \subseteq Answered'
    BY AnsweredStays
  <1>f. (\A r \in Requests : \A m \in after'[r] : m \in Answered' /\ (kind'[r] \in Keys => SeenBy(r, m)')) => Seen'
    BY DEF Seen, SeenBy
  <1>1. ASSUME NEW q \in Requests, RequestStep(q), NEW r \in Requests, NEW m \in after'[r]
        PROVE  m \in Answered' /\ (kind'[r] \in Keys => SeenBy(r, m)')
    <2>k. kind' = kind
      BY <1>1, <1>a, OthersKept
    <2>1. CASE r # q
      <3>1. Kept(r) /\ kept \subseteq kept'
        BY <1>1, <1>a, <2>1, OthersKept, SetsGrow
      <3>2. m \in Answered /\ (kind[r] \in Keys => SeenBy(r, m))
        BY <1>1, <3>1, SeenFold DEF Kept
      <3> QED BY <1>b, <2>k, <3>1, <3>2 DEF SeenBy, Kept, Shows, Counted
    <2>2. CASE r = q /\ pc[q] = "idle"
      <3>1. Loading(q) \/ AskCache(q)
        BY <1>1, <2>2, Moves
      <3>2. after'[q] = Answered
        BY <1>1, <1>a, <3>1, Moves
      <3>3. CASE kind[q] \in Keys
        <4>1. AskCache(q)
          BY <3>1, <3>3 DEF Loading
        <4>2. SeenBy(q, m)
          BY <4>1, BeginSeen
        <4> QED BY <1>1, <1>b, <2>2, <3>2, <3>3, <4>2, StaySeen
      <3> QED BY <1>1, <1>b, <2>2, <2>k, <3>2, <3>3
    <2>3. CASE r = q /\ pc[q] # "idle"
      <3>1. m \in after[q]
        BY <1>1, <2>3, Moves
      <3>2. m \in Answered /\ (kind[q] \in Keys => SeenBy(q, m))
        BY <3>1, SeenFold
      <3> QED BY <1>1, <1>b, <2>3, <2>k, <3>2, StaySeen
    <2> QED BY <2>1, <2>2, <2>3
  <1>2. ASSUME NEW p \in Processes, ProcessDies(p), NEW r \in Requests, NEW m \in after'[r]
        PROVE  m \in Answered' /\ (kind'[r] \in Keys => SeenBy(r, m)')
    <2>1. UNCHANGED <<kind, at, view, kept, after>>
      BY <1>2 DEF ProcessDies
    <2>2. pc'[r] = pc[r] \/ pc'[r] = "dead"
      BY <1>2 DEF ProcessDies
    <2>3. m \in Answered /\ (kind[r] \in Keys => SeenBy(r, m))
      BY <1>2, <2>1, SeenFold
    <2> QED BY <1>b, <2>1, <2>2, <2>3 DEF SeenBy, Shows, Counted
  <1>3. ASSUME UNCHANGED <<kind, pc, at, view, kept, after>> PROVE Seen'
    BY <1>3 DEF Seen, Answered, Shows, Counted
  <1>4. ASSUME NEW k \in Keys, Expire(k) PROVE Seen'
    BY <1>3, <1>4 DEF Expire
  <1>5. CASE UNCHANGED vars
    BY <1>3, <1>5 DEF vars
  <1> QED BY <1>1, <1>2, <1>4, <1>5, <1>f, Steps

-----------------------------------------------------------------------------
(* The invariant and the theorems. *)

AdminInvariant == Typed /\ Audits /\ Effected /\ Found /\ Later /\ Cleared /\ Seen

LEMMA AdminAlways == Spec => []AdminInvariant
  <1>1. Init => AdminInvariant
    <2> SUFFICES ASSUME Init PROVE AdminInvariant
      OBVIOUS
    <2>1. Typed
      BY InitTyped
    <2>2. /\ changed = {} /\ audited = {} /\ scanned = {}
          /\ \A q \in Requests : at[q] = 0 /\ after[q] = {}
      BY DEF Init
    <2> QED BY <2>1, <2>2 DEF AdminInvariant, Audits, AuditOf, Effected, Found, Later, Cleared, Seen
  <1>2. AdminInvariant /\ [Next]_vars => AdminInvariant'
    <2> SUFFICES ASSUME AdminInvariant, [Next]_vars PROVE AdminInvariant'
      OBVIOUS
    <2>1. Typed /\ Audits /\ Effected /\ Found /\ Later /\ Cleared /\ Seen
      BY DEF AdminInvariant
    <2>2. Typed'
      BY <2>1, StepTyped, StepStage DEF Typed
    <2> QED BY <2>1, <2>2, StepAudits, StepEffected, StepLater, StepCleared, StepSeen DEF AdminInvariant
  <1> QED BY <1>1, <1>2, PTL DEF Spec

(* The variables keep their types, and a table only holds values its routes   *)
(* write.                                                                     *)
THEOREM AdminTypeCorrect == Spec => []TypeOK
  <1>1. AdminInvariant => TypeOK
    BY DEF AdminInvariant, Typed
  <1> QED BY <1>1, AdminAlways, PTL

(* An audit row tells of a committed change, and a change of an administrator *)
(* is without one only between the two commits of its route.                  *)
THEOREM AdminAuditMatches == Spec => []AuditMatches
  <1>1. AdminInvariant => AuditMatches
    BY DEF AdminInvariant, Typed, TypeOK, Audits, AuditOf, AuditMatches
  <1> QED BY <1>1, AdminAlways, PTL

(* What an answered request has done once, no request that begins later does  *)
(* again.                                                                     *)
THEOREM AdminNotDoneTwice == Spec => []NotDoneTwice
  <1>1. AdminInvariant => NotDoneTwice
    <2> SUFFICES ASSUME AdminInvariant PROVE NotDoneTwice
      OBVIOUS
    <2>1. Later /\ Audits /\ changed \subseteq Requests
      BY DEF AdminInvariant, Typed, TypeOK
    <2>2. \A q \in changed : pc[q] # "refused"
      BY <2>1 DEF Audits, AuditOf
    <2> QED BY <2>1, <2>2 DEF Later, NotDoneTwice
  <1> QED BY <1>1, AdminAlways, PTL

(* A read of the dashboard shows what had been answered when it began, except *)
(* after a clearing of the cache that failed or beside a reader that stored   *)
(* what it had built before.                                                  *)
THEOREM AdminChangeIsSeen == Spec => []AnsweredChangeIsSeen
  <1>1. AdminInvariant => AnsweredChangeIsSeen
    <2> SUFFICES ASSUME AdminInvariant, NEW q \in Requests, Reading(q), pc[q] = "done",
                        NEW m \in after[q] \ kept, Counted(m, kind[q])
                 PROVE  m \in view[q].shows \cup view[q].late
      BY DEF AnsweredChangeIsSeen
    <2>1. SeenBy(q, m)
      BY SeenFold DEF AdminInvariant, Reading
    <2>2. CASE at[q] = Len(Queries[kind[q]])
      BY <2>1, <2>2 DEF Counted, SeenBy
    <2>3. CASE m \in view[q].late \cup kept
      BY <2>3
    <2>4. CASE Shows(view[q], m, kind[q])
      BY <2>4 DEF Shows
    <2> QED BY <2>1, <2>2, <2>3, <2>4 DEF SeenBy
  <1> QED BY <1>1, AdminAlways, PTL

(* What a committed change has done to the rows stays done: no route opens a  *)
(* closed trade, writes to a deleted row or deletes the settings.             *)
THEOREM AdminEffectsStay == Spec => []Effected
  <1>1. AdminInvariant => Effected
    BY DEF AdminInvariant
  <1> QED BY <1>1, AdminAlways, PTL

(* An entry of the cache shows a change that has been answered and could      *)
(* clear the cache, or was built beside it.                                   *)
CacheFresh == \A k \in Keys : \A entry \in cache[k] : \A m \in Answered \ kept :
    Counted(m, k) => m \in entry.shows \cup entry.late

(* After the answer to a change whose clearing went through, nothing that was *)
(* cached before it is left (_invalidate_admin_cache).                        *)
THEOREM AdminCacheFresh == Spec => []CacheFresh
  <1>1. AdminInvariant => CacheFresh
    <2> SUFFICES ASSUME AdminInvariant, NEW k \in Keys, NEW entry \in cache[k], NEW m \in Answered \ kept, Counted(m, k)
                 PROVE  m \in entry.shows \cup entry.late
      BY DEF CacheFresh
    <2>1. m \in scanned \ kept /\ found[m] = {}
      BY AnsweredDone DEF AdminInvariant
    <2> QED BY <2>1 DEF AdminInvariant, Cleared, Shows
  <1> QED BY <1>1, AdminAlways, PTL
=============================================================================

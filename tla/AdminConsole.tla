----------------------------- MODULE AdminConsole -----------------------------
(***************************************************************************)
(* The admin routes that change something (app/api/v1/routes/admin.py), the *)
(* services they call (one of them for users as well), and the dashboard    *)
(* reads that go through the Redis cache of admin_cache_service.py.         *)
(*                                                                         *)
(* A change loads its row, commits, writes its audit row (in the same       *)
(* commit, or in a second one when a service commits first), empties the    *)
(* cache and publishes a live update.  A read takes a cached answer or      *)
(* builds one with a query per table, each seeing what is committed then    *)
(* (READ COMMITTED), and stores it with a TTL.                              *)
(*                                                                         *)
(* What a table holds for the dashboard is the set of changes committed to  *)
(* it, named by their requests.  Left out: the lists, which only read, what *)
(* a live update says and who receives it, and rate limits.                 *)
(***************************************************************************)
EXTENDS Naturals, FiniteSets, Sequences

CONSTANTS
    Requests,    \* requests of administrators, and processes starting up
    Seed,        \* the row that is there before any request
    Processes,
    ProcessOf,   \* the process that serves a request
    Workloads,   \* which operation each request may be
    Faults       \* "redis", "database", "process": what may fail;
                 \* "targets": a bulk action may name many strategies

ASSUME SeedAssumption == Seed \notin Requests
ASSUME ProcessAssumption == ProcessOf \in [Requests -> Processes]
ASSUME FaultsAssumption == Faults \subseteq {"redis", "database", "process", "targets"}

VARIABLES
    kind,        \* which operation each request is
    pc,          \* where it is
    row,         \* committed rows of each table
    changed,     \* requests whose change is committed
    audited,     \* requests whose audit row is committed
    cache,       \* what Redis holds under each key: one answer or none
    client,      \* AdminCacheService._checked and _client of each process
    at,          \* which query of its answer a read is at, 0 before the cache
    view,        \* what a read has been told so far
    found,       \* the keys a request has scanned and is about to delete
    scanned,     \* history: requests that have scanned the keys
    kept,        \* history: requests whose clearing of the cache did not go through
    after        \* history: the changes that had been answered when a request began

dbVars == <<row, changed, audited>>
readVars == <<at, view>>
history == <<scanned, kept, after>>
vars == <<kind, pc, dbVars, cache, client, readVars, found, history>>

(* The tables each answer counts, in the order of its queries.  The first   *)
(* query on a table decides what the answer shows of it.                    *)
SummaryQueries == <<"users", "strategies", "articles", "trades">>
MetricsQueries == <<"users", "strategies", "trades", "settings">>
GrowthQueries == <<"trades">>
ActivitiesQueries == <<"audit">>

Queries == [summary |-> SummaryQueries, metrics |-> MetricsQueries,
            growth |-> GrowthQueries, activities |-> ActivitiesQueries]
Keys == DOMAIN Queries

StrategyChanges == {"create_strategy", "update_strategy", "delete_strategy",
                    "bulk_flag", "bulk_delete", "bulk_duplicate"}
ArticleChanges == {"create_article", "update_article", "delete_article"}
Changes == {"ban", "close", "sync", "broadcast", "settings"}
             \cup StrategyChanges \cup ArticleChanges
Defaults == {"get_settings", "seed"}
(* "own_strategy": a user creates a strategy, and no administrator hears of it. *)
Kinds == Keys \cup Changes \cup Defaults \cup {"own_strategy"}

ASSUME WorkloadsAssumption == Workloads \subseteq [Requests -> Kinds]

(* The routes whose service commits before they write their audit row. *)
AuditedApart == {"create_strategy", "update_strategy", "delete_strategy"} \cup ArticleChanges

TableOf(k) == CASE k = "ban" -> "users"
                [] k = "close" -> "trades"
                [] k = "settings" -> "settings"
                [] k \in StrategyChanges \cup {"own_strategy"} -> "strategies"
                [] k \in ArticleChanges -> "articles"
                [] OTHER -> "none"

(* What a query on a table finds. *)
Committed(t) == IF t = "audit" THEN audited ELSE {m \in changed : TableOf(kind[m]) = t}

Rows == Requests \cup {Seed}
Tables == {"trades", "strategies", "articles", "settings"}
(* A trade is "open" or "closed"; a strategy or an article has the "old"   *)
(* tag or slug, the "new" one the requests want, or a random one ("copy").  *)
Values == {"none", "open", "closed", "old", "new", "copy", "there"}
Missing(t, id) == row[t][id] = "none"
NewTaken(t) == \E id \in Rows : row[t][id] = "new"

PCs == {"idle", "ping", "get", "select", "fresh", "store", "commit", "refresh", "audit",
        "clear", "scan", "sweep", "publish", "done", "refused", "failed", "dead"}
Ended == {"done", "refused", "failed", "dead"}
Blank == [shows |-> {}, late |-> {}]

(* The settings are there once a process has started. *)
InitialRow(settings) ==
    LET first == [trades |-> "open", strategies |-> "old",
                  articles |-> "old", settings |-> settings]
    IN  [t \in Tables |-> [id \in Rows |-> IF id = Seed THEN first[t] ELSE "none"]]

Init ==
    /\ kind \in Workloads
    /\ pc = [q \in Requests |-> "idle"]
    /\ \/ row = InitialRow("there")
       \/ row = InitialRow("none") /\ \E q \in Requests : kind[q] = "seed"
    /\ changed = {} /\ audited = {}
    /\ cache = [k \in Keys |-> {}]
    /\ client = [p \in Processes |-> "unchecked"]
    /\ at = [q \in Requests |-> 0]
    /\ view = [q \in Requests |-> Blank]
    /\ found = [q \in Requests |-> {}]
    /\ scanned = {} /\ kept = {}
    /\ after = [q \in Requests |-> {}]

-----------------------------------------------------------------------------
(* Steps of a request. *)

Go(q, step) == pc' = [pc EXCEPT ![q] = step]
Answered == {m \in Requests : kind[m] \in Changes /\ pc[m] = "done"}

(* The first step of a request: what had been answered by then. *)
Begin(q) ==
    /\ pc[q] = "idle"
    /\ after' = [after EXCEPT ![q] = Answered]

(* It loads what it is about; nobody sees that. *)
Loads(q, step) ==
    /\ Begin(q) /\ Go(q, step)
    /\ UNCHANGED <<dbVars, cache, client, readVars, found, scanned, kept, kind>>

Commits(q, step) ==
    /\ pc[q] = "commit" /\ Go(q, step)
    /\ UNCHANGED <<cache, client, readVars, found, history, kind>>

Put(t, id, v) == row' = [row EXCEPT ![t][id] = v]

(* Faulty variant: the audit row is added after the commit, and lost. *)
WithAuditLost(q) == changed' = changed \cup {q} /\ UNCHANGED audited

(* The change and its audit row in one commit. *)
WithAudit(q) == changed' = changed \cup {q} /\ audited' = audited \cup {q}
(* The change in a commit of its own. *)
WithoutAudit(q) == changed' = changed \cup {q} /\ UNCHANGED audited

(* A statement the database refuses: the transaction is rolled back. *)
RolledBack(q) == Commits(q, "failed") /\ UNCHANGED dbVars

-----------------------------------------------------------------------------
(* Routes that commit once. *)

BanUser(q) ==
    /\ kind[q] = "ban"
    /\ \/ Loads(q, "commit")
       \/ Commits(q, "clear") /\ WithAudit(q) /\ UNCHANGED row

(* Faulty variant: the status of the trade is not looked at. *)
ManualCloseAgain(q) ==
    /\ kind[q] = "close"
    /\ \/ Loads(q, "commit")
       \/ Commits(q, "clear") /\ Put("trades", Seed, "closed") /\ WithAudit(q)

(* Faulty variant: it writes a status trades do not have. *)
ManualCloseMisspelt(q) ==
    /\ kind[q] = "close"
    /\ \/ Loads(q, "commit")
       \/ Commits(q, "clear") /\ Put("trades", Seed, "there") /\ WithAudit(q)

(* The pnl is the one of the close price the request brings: the change of *)
(* the last close is the one the trade keeps.                              *)
ManualClose(q) ==
    /\ kind[q] = "close"
    /\ \/ Loads(q, IF row["trades"][Seed] = "closed" THEN "refused" ELSE "commit")
       \/ Commits(q, "clear") /\ Put("trades", Seed, "closed") /\ WithAudit(q)

SyncTrades(q) ==
    /\ kind[q] = "sync"
    /\ \/ Loads(q, "commit")
       \/ Commits(q, "clear") /\ WithAudit(q) /\ UNCHANGED row

BroadcastNotification(q) ==
    /\ kind[q] = "broadcast"
    /\ \/ Loads(q, "commit")
       \/ Commits(q, "clear") /\ WithAudit(q) /\ UNCHANGED row

(* A flag that has its value already is not written, and then it does not  *)
(* matter that the row is gone.  The list of ids must fit into target_id.  *)
BulkAction(q) ==
    /\ kind[q] \in {"bulk_flag", "bulk_delete", "bulk_duplicate"}
    /\ \/ Loads(q, IF Missing("strategies", Seed) THEN "refused" ELSE "commit")
       \/ kind[q] = "bulk_flag" /\ Commits(q, "clear") /\ WithAudit(q) /\ UNCHANGED row
       \/ kind[q] = "bulk_flag" /\ Missing("strategies", Seed) /\ RolledBack(q)
       \/ /\ kind[q] = "bulk_delete"
          /\ Commits(q, "clear") /\ Put("strategies", Seed, "none") /\ WithAudit(q)
       \/ /\ kind[q] = "bulk_duplicate"
          /\ Commits(q, "clear") /\ Put("strategies", q, "copy") /\ WithAudit(q)
       \/ "targets" \in Faults /\ RolledBack(q)

SettingsFound == \E id \in Rows : ~Missing("settings", id)
(* at tells whether the row was found when the request looked. *)
FindSettings(q, present, absent) ==
    /\ Begin(q) /\ Go(q, IF SettingsFound THEN present ELSE absent)
    /\ at' = [at EXCEPT ![q] = IF SettingsFound THEN 1 ELSE 0]
    /\ UNCHANGED <<dbVars, cache, client, view, found, scanned, kept, kind>>

UpdateSettings(q) ==
    /\ kind[q] = "settings"
    /\ \/ FindSettings(q, "commit", "commit")
       \/ at[q] = 0 /\ Commits(q, "clear") /\ Put("settings", q, "there") /\ WithAudit(q)
       \/ at[q] = 1 /\ Commits(q, "clear") /\ WithAudit(q) /\ UNCHANGED row

(* A row of defaults, without an audit row and without clearing the cache. *)
InsertDefaults(q) ==
    \/ FindSettings(q, "done", "commit")
    \/ Commits(q, "done") /\ Put("settings", q, "there") /\ UNCHANGED <<changed, audited>>
GetSettings(q) == kind[q] = "get_settings" /\ InsertDefaults(q)
SeedSettings(q) == kind[q] = "seed" /\ InsertDefaults(q)

-----------------------------------------------------------------------------
(* Routes whose service commits first.  The unique index on the tag or the *)
(* slug refuses what the lookup could not see; an UPDATE of a deleted row   *)
(* fails, a DELETE of one does not.                                        *)

Create(q, t) ==
    \/ Loads(q, IF NewTaken(t) THEN "refused" ELSE "commit")
    \/ ~NewTaken(t) /\ Commits(q, "refresh") /\ Put(t, q, "new") /\ WithoutAudit(q)
    \/ NewTaken(t) /\ RolledBack(q)

Update(q, t) ==
    LET taken == NewTaken(t) /\ row[t][Seed] # "new"
    IN  \/ Loads(q, IF Missing(t, Seed) \/ taken THEN "refused" ELSE "commit")
        \/ /\ ~Missing(t, Seed) /\ ~taken
           /\ Commits(q, "refresh") /\ Put(t, Seed, "new") /\ WithoutAudit(q)
        \/ (Missing(t, Seed) \/ taken) /\ RolledBack(q)

Delete(q, t) ==
    \/ Loads(q, IF Missing(t, Seed) THEN "refused" ELSE "commit")
    \/ Commits(q, "audit") /\ Put(t, Seed, "none") /\ WithoutAudit(q)

(* db.refresh after the service's commit: the row may be gone again. *)
Refresh(q, t, id, next) ==
    /\ pc[q] = "refresh" /\ Go(q, IF Missing(t, id) THEN "failed" ELSE next)
    /\ UNCHANGED <<kind, dbVars, cache, client, readVars, found, history>>

WriteAudit(q) ==
    /\ pc[q] = "audit" /\ Go(q, "clear")
    /\ audited' = audited \cup {q}
    /\ UNCHANGED <<kind, row, changed, cache, client, readVars, found, history>>

CreateStrategy(q) ==
    /\ kind[q] = "create_strategy"
    /\ Create(q, "strategies") \/ Refresh(q, "strategies", q, "audit") \/ WriteAudit(q)
(* A strategy that leaves no audit row and keeps the cache; process_signal  *)
(* makes such ones too, see BrokerOrders.                                  *)
OwnStrategy(q) ==
    /\ kind[q] = "own_strategy"
    /\ Create(q, "strategies") \/ Refresh(q, "strategies", q, "done")
UpdateStrategy(q) ==
    /\ kind[q] = "update_strategy"
    /\ Update(q, "strategies") \/ Refresh(q, "strategies", Seed, "audit") \/ WriteAudit(q)
DeleteStrategy(q) ==
    kind[q] = "delete_strategy" /\ (Delete(q, "strategies") \/ WriteAudit(q))
CreateArticle(q) ==
    /\ kind[q] = "create_article"
    /\ Create(q, "articles") \/ Refresh(q, "articles", q, "audit") \/ WriteAudit(q)
UpdateArticle(q) ==
    /\ kind[q] = "update_article"
    /\ Update(q, "articles") \/ Refresh(q, "articles", Seed, "audit") \/ WriteAudit(q)
DeleteArticle(q) ==
    kind[q] = "delete_article" /\ (Delete(q, "articles") \/ WriteAudit(q))

-----------------------------------------------------------------------------
(* The cache.  _checked is set before the ping has answered: another thread *)
(* meanwhile takes the cache for absent, and after a failed ping every      *)
(* request of the process does.                                            *)

Reading(q) == kind[q] \in Keys
HasClient(q) == IF ~Reading(q) THEN "scan" ELSE IF at[q] = 0 THEN "get" ELSE "store"
NoClient(q) == IF ~Reading(q) THEN "publish" ELSE IF at[q] = 0 THEN "select" ELSE "done"

(* A change whose entries stay in the cache although it is committed. *)
Keeps(q) == kept' = IF Reading(q) THEN kept ELSE kept \cup {q}

(* _get_client, asked for by get_json, set_json and delete_by_prefix. *)
GetClient(q) ==
    LET state == client[ProcessOf[q]]
    IN  \/ /\ state = "unchecked" /\ Go(q, "ping")
           /\ client' = [client EXCEPT ![ProcessOf[q]] = "checking"]
           /\ UNCHANGED kept
        \/ state = "on" /\ Go(q, HasClient(q)) /\ UNCHANGED <<client, kept>>
        \/ state \in {"checking", "off"} /\ Go(q, NoClient(q)) /\ Keeps(q) /\ UNCHANGED client

Ping(q) ==
    /\ pc[q] = "ping"
    /\ \/ /\ Go(q, HasClient(q)) /\ UNCHANGED kept
          /\ client' = [client EXCEPT ![ProcessOf[q]] = "on"]
       \/ /\ "redis" \in Faults
          /\ Go(q, NoClient(q)) /\ Keeps(q)
          /\ client' = [client EXCEPT ![ProcessOf[q]] = "off"]
    /\ UNCHANGED <<kind, dbVars, cache, readVars, found, scanned, after>>

(* A read asks the cache. *)
AskCache(q) ==
    /\ Reading(q) /\ Begin(q)
    /\ GetClient(q)
    /\ UNCHANGED <<kind, dbVars, cache, readVars, found, scanned>>

(* A hit is the answer.  An error of Redis is a miss. *)
GetJson(q) ==
    /\ pc[q] = "get"
    /\ \/ \E entry \in cache[kind[q]] :
            /\ view' = [view EXCEPT ![q] = entry]
            /\ Go(q, "done")
       \/ (cache[kind[q]] = {} \/ "redis" \in Faults) /\ Go(q, "select") /\ UNCHANGED view
    /\ UNCHANGED <<kind, dbVars, cache, client, at, found, history>>

(* One query of the answer, over what is committed at that moment. *)
Select(q) ==
    LET next == at[q] + 1
        queries == Queries[kind[q]]
    IN  /\ pc[q] = "select"
        /\ view' = [view EXCEPT ![q].shows = @ \cup Committed(queries[next])]
        /\ at' = [at EXCEPT ![q] = next]
        /\ Go(q, IF next = Len(queries) THEN "fresh" ELSE "select")
        /\ UNCHANGED <<kind, dbVars, cache, client, found, history>>

(* A read has its answer and stores it. *)
Built(q) ==
    /\ pc[q] = "fresh"
    /\ GetClient(q)
    /\ UNCHANGED <<kind, dbVars, cache, readVars, found, scanned, after>>

(* setex: the answer replaces what is there.  late is history: the changes  *)
(* whose scan of the keys was over when this entry appeared, and that had   *)
(* not been answered when its reader began.                                *)
SetJson(q) ==
    /\ pc[q] = "store" /\ Go(q, "done")
    /\ \/ cache' = [cache EXCEPT ![kind[q]] = {[view[q] EXCEPT !.late = scanned \ after[q]]}]
       \/ "redis" \in Faults /\ UNCHANGED cache
    /\ UNCHANGED <<kind, dbVars, client, readVars, found, history>>

(* A change is committed and empties the cache: every key it can see, then *)
(* a DELETE of those keys.                                                 *)
Invalidate(q) ==
    /\ pc[q] = "clear"
    /\ GetClient(q)
    /\ UNCHANGED <<kind, dbVars, cache, readVars, found, scanned, after>>

(* Faulty variant: the keys of the charts have a prefix of their own. *)
ScanSomeKeys(q) ==
    /\ pc[q] = "scan" /\ Go(q, "sweep")
    /\ found' = [found EXCEPT ![q] = {k \in Keys \ {"growth", "activities"} : cache[k] # {}}]
    /\ scanned' = scanned \cup {q}
    /\ UNCHANGED <<kind, dbVars, cache, client, readVars, kept, after>>

ScanKeys(q) ==
    LET keys == {k \in Keys : cache[k] # {}}
    IN  /\ pc[q] = "scan"
        /\ \/ /\ Go(q, IF keys = {} THEN "publish" ELSE "sweep")
              /\ found' = [found EXCEPT ![q] = keys]
              /\ scanned' = scanned \cup {q} /\ UNCHANGED kept
           \/ /\ "redis" \in Faults
              /\ Go(q, "publish") /\ Keeps(q) /\ UNCHANGED <<found, scanned>>
        /\ UNCHANGED <<kind, dbVars, cache, client, readVars, after>>

DeleteKeys(q) ==
    /\ pc[q] = "sweep" /\ Go(q, "publish")
    /\ \/ /\ cache' = [k \in Keys |-> IF k \in found[q] THEN {} ELSE cache[k]]
          /\ UNCHANGED kept
       \/ "redis" \in Faults /\ Keeps(q) /\ UNCHANGED cache
    /\ found' = [found EXCEPT ![q] = {}]
    /\ UNCHANGED <<kind, dbVars, client, readVars, scanned, after>>

(* The live update is built and sent; what happens to it does not matter to *)
(* the answer.                                                             *)
Publish(q) ==
    /\ pc[q] = "publish" /\ Go(q, "done")
    /\ UNCHANGED <<kind, dbVars, cache, client, readVars, found, history>>

-----------------------------------------------------------------------------
(* Faults. *)

(* The TTL of an entry passes. *)
Expire(k) ==
    /\ cache[k] # {}
    /\ cache' = [cache EXCEPT ![k] = {}]
    /\ UNCHANGED <<kind, pc, dbVars, client, readVars, found, history>>

(* A statement or a commit fails, or the answer to a commit is lost: what   *)
(* is not committed is gone and the client is told of an error.  After a    *)
(* commit the row is loaded again before the cache is emptied.              *)
DatabaseFails(q) ==
    /\ "database" \in Faults
    /\ pc[q] \in {"select", "commit", "refresh", "audit", "clear", "publish"}
    /\ Go(q, "failed")
    /\ UNCHANGED <<kind, dbVars, cache, client, readVars, found, history>>

(* The next process of that name has not looked for its cache yet. *)
ProcessDies(p) ==
    LET lost == {q \in Requests : ProcessOf[q] = p /\ pc[q] \notin Ended \cup {"idle"}}
    IN  /\ "process" \in Faults
        /\ lost # {}
        /\ pc' = [q \in Requests |-> IF q \in lost THEN "dead" ELSE pc[q]]
        /\ client' = [client EXCEPT ![p] = "unchecked"]
        /\ UNCHANGED <<kind, dbVars, cache, readVars, found, history>>

Route(q) ==
    \/ BanUser(q) \/ ManualClose(q) \/ SyncTrades(q) \/ BroadcastNotification(q)
    \/ BulkAction(q) \/ UpdateSettings(q) \/ GetSettings(q) \/ SeedSettings(q)
    \/ CreateStrategy(q) \/ OwnStrategy(q) \/ UpdateStrategy(q) \/ DeleteStrategy(q)
    \/ CreateArticle(q) \/ UpdateArticle(q) \/ DeleteArticle(q)
Read(q) == AskCache(q) \/ GetJson(q) \/ Select(q) \/ Built(q) \/ SetJson(q)
AfterMutation(q) == Invalidate(q) \/ ScanKeys(q) \/ DeleteKeys(q) \/ Publish(q)

Next ==
    \/ \E q \in Requests :
         Route(q) \/ Read(q) \/ Ping(q) \/ AfterMutation(q) \/ DatabaseFails(q)
    \/ \E k \in Keys : Expire(k)
    \/ \E p \in Processes : ProcessDies(p)

Spec == Init /\ [][Next]_vars

-----------------------------------------------------------------------------
(* Properties. *)

Entries == [shows : SUBSET Requests, late : SUBSET Requests]
TableValues == [trades |-> {"open", "closed"}, strategies |-> {"old", "new", "copy"},
                articles |-> {"old", "new"}, settings |-> {"there"}]

(* Every variable keeps its type, and a table only ever holds values its    *)
(* routes write.                                                           *)
TypeOK ==
    /\ kind \in [Requests -> Kinds]
    /\ pc \in [Requests -> PCs]
    /\ row \in [Tables -> [Rows -> Values]]
    /\ \A t \in Tables, id \in Rows : row[t][id] \in TableValues[t] \cup {"none"}
    /\ changed \subseteq Requests /\ audited \subseteq Requests
    /\ cache \in [Keys -> SUBSET Entries]
    /\ client \in [Processes -> {"unchecked", "checking", "on", "off"}]
    /\ at \in [Requests -> 0..4]
    /\ view \in [Requests -> Entries]
    /\ found \in [Requests -> SUBSET Keys]
    /\ scanned \subseteq Requests /\ kept \subseteq Requests
    /\ after \in [Requests -> SUBSET Requests]

(* A read shows every change that had been answered when it began, unless   *)
(* the cache could not be emptied for that change, or the answer comes from *)
(* an entry that was stored after the change had scanned the keys, by a     *)
(* reader who had begun before the change was answered.                    *)
Counted(m, k) == \E n \in 1..Len(Queries[k]) : Queries[k][n] \in {TableOf(kind[m]), "audit"}
AnsweredChangeIsSeen ==
    \A q \in Requests : Reading(q) /\ pc[q] = "done" =>
        \A m \in after[q] \ kept :
            Counted(m, kind[q]) => m \in view[q].shows \cup view[q].late

(* Rows that a check protects, not the database: what one answered request  *)
(* has done (closed the trade, deleted the row, inserted the settings) no   *)
(* request that begins later does again; only requests that overlap do.     *)
Once == {{"close"}, {"delete_strategy", "bulk_delete"}, {"delete_article"}}
NotDoneTwice ==
    /\ \A q \in changed : \A m \in after[q] :
         \A same \in Once : ~({kind[q], kind[m]} \subseteq same)
    /\ \A q \in Requests : \A m \in after[q] :
         kind[m] = "settings" => Missing("settings", q)

(* An audit row tells of a change that is there, and an administrator's     *)
(* change without its audit row is one of those that commit twice, not yet  *)
(* or never to be answered as done.                                        *)
AuditMatches ==
    /\ audited \subseteq changed
    /\ \A q \in changed \ audited :
         \/ kind[q] = "own_strategy"
         \/ kind[q] \in AuditedApart /\ pc[q] \in {"refresh", "audit", "failed", "dead"}

=============================================================================

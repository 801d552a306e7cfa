----------------------------- MODULE ProfilePages -----------------------------
(***************************************************************************)
(* The dashboard's pages: the views of the home page, the panels of a      *)
(* profile's detail page and the plan of one of its queries                *)
(* (controllers/profiler.controller.ts, collector-registry.service.ts,     *)
(* explain-runner-registry.service.ts, the runners of the SQL packages).   *)
(* Dashboard has the rows of a section and their filters, SchemaGraph and  *)
(* Discovery what some global panels show.                                 *)
(*                                                                         *)
(* A query string is a function from keys to values; a key is a sequence   *)
(* of words.  A plan is a tree: path -> node, the root's path empty.  The  *)
(* text of a query is the words its statements start with.                 *)
(***************************************************************************)
EXTENDS Integers, Sequences, SequencesExt, FiniteSets, FiniteSetsExt, TLC

CONSTANTS
    PgApps,       \* collectors, sections, scripts, connections, a request's entries
    PgQueries,    \* the query strings a browser comes with
    PgPlans,      \* dialect -> what its EXPLAIN may answer
    PgNone

ASSUME PgAssumption == DOMAIN PgPlans = {"postgres", "mysql", "sqlite"}

VARIABLES
    pgApp,
    pgCollectors, \* the registry's Map: the collectors in insertion order
    pgRunners,    \* ExplainRunnerRegistry: collector -> its runner
    pgProfile,    \* what the store holds of the request: collector -> data, or PgNone
    pgExecuted,   \* what an EXPLAIN made the database run: [entry, nth statement]
    pgPage        \* the last page served

pgVars == <<pgApp, pgCollectors, pgRunners, pgProfile, pgExecuted, pgPage>>

NoPage == [status |-> 0]
PgStart(app) ==
    /\ pgApp = app /\ pgCollectors = <<>> /\ pgRunners = <<>>
    /\ pgProfile = PgNone /\ pgExecuted = {} /\ pgPage = NoPage

PgInit == \E app \in PgApps : PgStart(app)

Answer(status) == [status |-> status]

-----------------------------------------------------------------------------
(* Bootstrap.                                                              *)

(* A Map: a name registered again keeps its place.                         *)
Registered(collectors, c) ==
    IF \E i \in DOMAIN collectors : collectors[i].name = c.name
    THEN [i \in DOMAIN collectors |-> IF collectors[i].name = c.name THEN c ELSE collectors[i]]
    ELSE Append(collectors, c)

DiscoverCollectors ==
    /\ pgCollectors = <<>>
    /\ pgCollectors' = FoldLeft(Registered, <<>>, pgApp.collectors)
    /\ UNCHANGED <<pgApp, pgRunners, pgProfile, pgExecuted, pgPage>>

(* toDialect: of a DataSource's type, or of the name of a platform.        *)
ToDialect(connection) ==
    IF connection.orm = "typeorm"
    THEN CASE connection.type \in {"postgres", "aurora-postgres"} -> "postgres"
           [] connection.type \in {"mysql", "mariadb", "aurora-mysql"} -> "mysql"
           [] connection.type \in {"sqlite", "better-sqlite3", "sqljs", "expo", "capacitor"} -> "sqlite"
           [] OTHER -> PgNone
    ELSE CASE connection.type = "PostgreSqlPlatform" -> "postgres"
           [] connection.type \in {"MariaDbPlatform", "MySqlPlatform"} -> "mysql"
           [] connection.type \in {"SqlitePlatform", "LibSqlPlatform"} -> "sqlite"
           [] OTHER -> PgNone

(* onModuleInit of the runners.  TypeORM's wants an open DataSource.       *)
RegisterRunner(connection) ==
    /\ connection.orm \notin DOMAIN pgRunners
    /\ connection.enabled /\ ToDialect(connection) # PgNone
    /\ connection.orm = "typeorm" => connection.open
    /\ pgRunners' = (connection.orm :> [dialect |-> ToDialect(connection),
                                        analyze |-> connection.analyze,
                                        several |-> connection.several]) @@ pgRunners
    /\ UNCHANGED <<pgApp, pgCollectors, pgProfile, pgExecuted, pgPage>>

-----------------------------------------------------------------------------
(* The request.                                                            *)

IsGlobal(c) == c.scope = "global"

(* By priority, registration order between equals.                         *)
ByPriority(panels) ==
    LET before(i, j) == panels[i].priority < panels[j].priority
                          \/ (panels[i].priority = panels[j].priority /\ i < j)
        order == SetToSortSeq(DOMAIN panels, before)
    IN  [k \in DOMAIN panels |-> panels[order[k]]]
OfProfile == ByPriority(SelectSeq(pgCollectors, LAMBDA c : ~IsGlobal(c)))
OfProcess == SelectSeq(pgCollectors, IsGlobal)

(* safeCollect: what a collector throws, or its timeout, is its data.      *)
SafeCollect(c) ==
    IF c.fails THEN [error |-> TRUE, entries |-> <<>>] ELSE [error |-> FALSE, entries |-> c.entries]

Store ==
    /\ pgCollectors # <<>> /\ pgProfile = PgNone
    /\ pgProfile' = [name \in {OfProfile[i].name : i \in DOMAIN OfProfile} |->
                       SafeCollect(CHOOSE c \in ToSet(OfProfile) : c.name = name)]
    /\ UNCHANGED <<pgApp, pgCollectors, pgRunners, pgExecuted, pgPage>>

Forget ==
    /\ pgProfile # PgNone
    /\ pgProfile' = PgNone
    /\ UNCHANGED <<pgApp, pgCollectors, pgRunners, pgExecuted, pgPage>>

-----------------------------------------------------------------------------
(* The home page.                                                          *)

(* buildGlobalPanels: a collector's panel, or those it splits its data in: *)
(* none when it has only an error to split.                                *)
GlobalPanels ==
    LET panelsOf(c) ==
          IF c.views = <<>>
          THEN <<[name |-> c.name, priority |-> c.priority, group |-> c.group]>>
          ELSE IF c.fails THEN <<>>
          ELSE [i \in DOMAIN c.views |-> [name |-> c.views[i], priority |-> c.priority,
                                          group |-> c.group]]
    IN  ByPriority(FlattenSeq([i \in DOMAIN OfProcess |-> panelsOf(OfProcess[i])]))

(* groupGlobalViews: buckets in the order their first panel comes.         *)
GlobalViewGroups ==
    LET panels == GlobalPanels
        heads == SelectSeq([i \in DOMAIN panels |-> i],
                           LAMBDA i : \A j \in 1 .. i - 1 : panels[j].group # panels[i].group)
    IN  [k \in DOMAIN heads |->
           SelectSeq(panels, LAMBDA p : p.group = panels[heads[k]].group)]

DefaultView ==
    LET sections == pgApp.sections
        default == SelectSeq(sections, LAMBDA s : s.isDefault)
    IN  IF default # <<>> THEN Head(default).key
        ELSE IF sections # <<>> THEN Head(sections).key ELSE PgNone

(* A section before a panel of the same name; the default for neither.     *)
SectionKeys == {s.key : s \in ToSet(pgApp.sections)}
GlobalKeys == {p.name : p \in ToSet(GlobalPanels)}
ActiveView(view) == IF view \in SectionKeys \cup GlobalKeys THEN view ELSE DefaultView
ViewShown(view) ==
    IF view \in SectionKeys THEN "section"
    ELSE IF view \in GlobalKeys THEN "panel" ELSE "blank"

(* buildPageHref and buildResetHref: the rest of the query string stays.   *)
PageKey(section) == <<section, "_", "page">>
PageHref(query, section, page) ==
    LET kept == [k \in DOMAIN query \ {PageKey(section)} |-> query[k]]
    IN  IF page > 1 THEN (PageKey(section) :> page) @@ kept ELSE kept
ResetHref(query, section) ==
    [k \in {x \in DOMAIN query : ~IsPrefix(<<section, "_">>, x)} |-> query[k]]

ListProfiles(view, query) ==
    /\ pgCollectors # <<>>
    /\ pgPage' = [status |-> 200, view |-> ActiveView(view), shown |-> ViewShown(ActiveView(view)),
                  groups |-> GlobalViewGroups, query |-> query,
                  next |-> [s \in SectionKeys |-> PageHref(query, s, 2)],
                  first |-> [s \in SectionKeys |-> PageHref(query, s, 1)],
                  reset |-> [s \in SectionKeys |-> ResetHref(query, s)]]
    /\ UNCHANGED <<pgApp, pgCollectors, pgRunners, pgProfile, pgExecuted>>

-----------------------------------------------------------------------------
(* The detail page.                                                        *)

(* getBadgeValue of AbstractQueryCollector: of a failed one, nothing.      *)
EntriesOf(c) == pgProfile[c.name].entries
Badge(c) == IF EntriesOf(c) = <<>> THEN PgNone ELSE Len(EntriesOf(c))
(* ... and getBadgeSeverity: the error it left is not something to walk.   *)
Severity(c) == Max({0} \cup {EntriesOf(c)[i].severity : i \in DOMAIN EntriesOf(c)})
BadgeThrows(c) == c.severities /\ pgProfile[c.name].error

(* buildPanels: a panel for each collector of its own, and one for each    *)
(* group that has a collector with something to show.                      *)
Grouped(c) == c.group # PgNone
Silent(c) == Grouped(c) /\ Badge(c) = PgNone
PanelOf(c, members) ==
    [name |-> IF Grouped(c) THEN c.group ELSE c.name,
     priority |-> IF Grouped(c) /\ c.groupPriority # PgNone THEN c.groupPriority ELSE c.priority,
     grouped |-> Grouped(c),
     members |-> [i \in DOMAIN members |-> members[i].name],
     badges |-> SelectSeq([i \in DOMAIN members |-> Badge(members[i])], LAMBDA b : b # PgNone),
     severity |-> Max({0} \cup {Severity(members[i]) : i \in DOMAIN members})]
BuildPanels ==
    LET speaking == SelectSeq(OfProfile, LAMBDA c : ~Silent(c))
        heads == SelectSeq([i \in DOMAIN speaking |-> i],
                           LAMBDA i : \A j \in 1 .. i - 1 :
                               ~Grouped(speaking[i]) \/ speaking[j].group # speaking[i].group)
        members(i) == IF Grouped(speaking[i])
                      THEN SelectSeq(speaking, LAMBDA c : c.group = speaking[i].group)
                      ELSE <<speaking[i]>>
    IN  ByPriority([k \in DOMAIN heads |-> PanelOf(speaking[heads[k]], members(heads[k]))])

(* The tabs of the entrypoint's kind, and those every profile has, come    *)
(* before a collector's of the same name.                                  *)
UniversalTabs == {"performance", "logs", "exceptions"}
BuiltinTabs == ToSet(pgApp.tabs) \cup UniversalTabs
CollectorData(panels, tab) ==
    LET active == SelectSeq(panels, LAMBDA p : p.name = tab)
    IN  IF tab \in BuiltinTabs \/ active = <<>> THEN <<>>
        ELSE Head(active).members

ActiveTab(tab) ==
    IF tab # PgNone THEN tab
    ELSE IF pgApp.tabs = <<>> THEN "performance" ELSE Head(pgApp.tabs)

GetProfileDetail(tab) ==
    /\ pgCollectors # <<>>
    /\ pgPage' =
         IF pgProfile = PgNone THEN Answer(404)
         ELSE IF \E i \in DOMAIN OfProfile : BadgeThrows(OfProfile[i]) /\ ~Silent(OfProfile[i])
         THEN Answer(500)
         ELSE LET panels == BuildPanels
              IN  [status |-> 200, tab |-> ActiveTab(tab), panels |-> panels,
                   data |-> CollectorData(panels, ActiveTab(tab)), explain |-> DOMAIN pgRunners]
    /\ UNCHANGED <<pgApp, pgCollectors, pgRunners, pgProfile, pgExecuted>>

-----------------------------------------------------------------------------
(* The plan of a query.                                                    *)

DetectQueryType(sql) == Head(sql)

(* ANALYZE runs the statement: only of a text that starts with SELECT.     *)
Analyzes(runner, entry) ==
    runner.analyze /\ DetectQueryType(entry.sql) = "SELECT" /\ runner.dialect # "sqlite"

(* buildExplainSql puts its words before the text: where the driver takes  *)
(* several statements, all but the first are run as they are.              *)
Runs(runner, entry) ==
    {[entry |-> entry, nth |-> n] :
        n \in {i \in DOMAIN entry.sql : IF i = 1 THEN Analyzes(runner, entry) ELSE runner.several}}

(* parseExplainPlan: the nodes, parents before children, those that scan a *)
(* whole table, and the tables they name.                                  *)
NodesOf(plan) ==
    LET earlier(p, q) ==
          \/ IsStrictPrefix(p, q)
          \/ \E k \in DOMAIN p : k \in DOMAIN q /\ p[k] < q[k]
                                   /\ \A l \in 1 .. k - 1 : p[l] = q[l]
        paths == SetToSortSeq(DOMAIN plan, earlier)
    IN  [i \in DOMAIN paths |-> plan[paths[i]]]
ScansAll(dialect, node) ==
    CASE dialect = "postgres" -> node.type = "Seq Scan"
      [] dialect = "mysql"    -> node.type = "ALL"
      [] dialect = "sqlite"   -> node.type = "SCAN"
ParseExplainPlan(dialect, plan) ==
    LET nodes == NodesOf(plan)
        scans == SelectSeq(nodes, LAMBDA n : ScansAll(dialect, n) /\ n.relation # PgNone)
    IN  [planType |-> IF nodes = <<>> THEN PgNone ELSE Head(nodes).type,
         hasSeqScan |-> scans # <<>>,
         seqScanRelations |-> [i \in DOMAIN scans |-> scans[i].relation]]

(* A captured entry, if the page's index is one.                           *)
QueryEntry(collector, index) ==
    IF collector \in DOMAIN pgProfile /\ index + 1 \in DOMAIN pgProfile[collector].entries
    THEN pgProfile[collector].entries[index + 1] ELSE PgNone

Plans(collector, refused) ==
    IF collector \in DOMAIN pgRunners /\ ~refused THEN PgPlans[pgRunners[collector].dialect]
    ELSE {<<>>}

(* explainQuery.  The database may refuse: the fragment says so.           *)
ExplainQuery(collector, index, refused, plan) ==
    LET runner == pgRunners[collector]
        entry == QueryEntry(collector, index)
        analyzed == Analyzes(runner, entry)
    IN  IF collector \notin DOMAIN pgRunners \/ pgProfile = PgNone
        THEN pgPage' = Answer(404) /\ UNCHANGED pgExecuted
        ELSE IF entry = PgNone THEN pgPage' = Answer(404) /\ UNCHANGED pgExecuted
        ELSE /\ pgExecuted' = IF refused THEN pgExecuted ELSE pgExecuted \cup Runs(runner, entry)
             /\ pgPage' = IF refused THEN Answer(200)
                          ELSE [status |-> 200, raw |-> plan, dialect |-> runner.dialect,
                                analyzed |-> analyzed, entry |-> entry,
                                plan |-> ParseExplainPlan(runner.dialect, plan)]

Explain(collector, index) ==
    /\ pgCollectors # <<>>
    /\ \E refused \in BOOLEAN : \E plan \in Plans(collector, refused) :
         ExplainQuery(collector, index, refused, plan)
    /\ UNCHANGED <<pgApp, pgCollectors, pgRunners, pgProfile>>

-----------------------------------------------------------------------------
(* ClientAssetRegistry: the core's script first, its name reserved; a name *)
(* registered again is ignored.                                            *)
CoreScript == [file |-> "profiler.js", bundle |-> "core"]
Scripts ==
    FoldLeft(LAMBDA list, s : IF \E i \in DOMAIN list : list[i].file = s.file THEN list
                              ELSE Append(list, s),
             <<CoreScript>>, pgApp.scripts)

(* getStyle and getScript: a name on a list, or nothing is read.           *)
Vendored == {"highlight.min.js", "graphql.min.js"}
GetScript(file) ==
    LET found == SelectSeq(Scripts, LAMBDA s : s.file = file)
    IN  /\ pgCollectors # <<>>
        /\ pgPage' = IF found # <<>>
                     THEN [status |-> 200, file |-> file, bundle |-> Head(found).bundle]
                     ELSE IF file \in Vendored
                     THEN [status |-> 200, file |-> file, bundle |-> "vendored"]
                     ELSE Answer(404)
        /\ UNCHANGED <<pgApp, pgCollectors, pgRunners, pgProfile, pgExecuted>>

Views == SectionKeys \cup GlobalKeys \cup {"unknown"}
TabNames == {PgNone, "logs", "unknown"} \cup {c.name : c \in ToSet(pgCollectors)}
            \cup {c.group : c \in ToSet(pgCollectors)}

PgNext ==
    \/ DiscoverCollectors \/ Store \/ Forget
    \/ \E connection \in pgApp.connections : RegisterRunner(connection)
    \/ \E view \in Views, query \in PgQueries : ListProfiles(view, query)
    \/ \E tab \in TabNames : GetProfileDetail(tab)
    \/ \E c \in ToSet(pgApp.collectors), index \in -1 .. 1 : Explain(c.name, index)
    \/ \E file \in Vendored \cup {s.file : s \in ToSet(pgApp.scripts)} \cup {"profiler.js", "x"} :
         GetScript(file)

PgSpec == PgInit /\ [][PgNext]_pgVars

-----------------------------------------------------------------------------
(* Types: what the variables may hold.                                     *)
PgTypeOK ==
    /\ pgApp \in PgApps /\ ToSet(pgCollectors) \subseteq ToSet(pgApp.collectors)
    /\ \A orm \in DOMAIN pgRunners : pgRunners[orm].dialect \in DOMAIN PgPlans
    /\ pgPage.status \in {0, 200, 404, 500}

(* What a detail page shows is what the collectors stored: each that has   *)
(* entries is in one panel, under its own name or its group's, the badge   *)
(* counts those entries and its colour is that of the worst; a panel of a  *)
(* group holds nothing empty; no other collector but a failed one that is  *)
(* in no group can keep the page from being drawn.                         *)
DetailShowsWhatIsStored ==
    /\ pgPage.status = 500 =>
         \E c \in ToSet(pgCollectors) : c.fails /\ c.severities /\ c.group = PgNone
    /\ "panels" \in DOMAIN pgPage /\ pgProfile # PgNone =>
         LET panels == ToSet(pgPage.panels)
             worst(c) == Max({0} \cup {c.entries[i].severity : i \in DOMAIN c.entries})
             stored == {c \in ToSet(pgCollectors) : c.scope # "global"}
             told(c) == IF c.fails THEN 0 ELSE Len(c.entries)
             of(p) == {c \in stored : c.name \in ToSet(p.members)}
         IN  /\ \A c \in stored : told(c) > 0 \/ c.group = PgNone =>
                  Cardinality({p \in panels : c.name \in ToSet(p.members)}) = 1
             /\ \A p \in panels :
                  /\ FoldLeft(+, 0, p.badges) = MapThenSumSet(told, of(p))
                  /\ \A c \in of(p) : ~c.fails => p.severity >= worst(c)
                  /\ p.grouped => \A c \in of(p) : c.group = p.name /\ told(c) > 0
             /\ \A p \in panels : pgPage.tab = p.name /\ p.name \notin BuiltinTabs
                                    => pgPage.data = p.members

(* "So an unknown ?view= never blanks the pane": every section and every   *)
(* panel of a process-wide collector is one item of the sidebar, the one   *)
(* asked for is shown, and a link of a section's pager or filter bar keeps *)
(* every other section's page and filters.                                 *)
HomeReachesEveryView ==
    "view" \in DOMAIN pgPage =>
        /\ pgPage.shown # "blank" \/ pgApp.sections = <<>>
        /\ \A c \in ToSet(pgCollectors) : c.scope = "global" =>
             \A name \in (IF c.views = <<>> THEN {c.name} ELSE IF c.fails THEN {} ELSE ToSet(c.views)) :
                Cardinality({g \in DOMAIN pgPage.groups :
                               \E i \in DOMAIN pgPage.groups[g] : pgPage.groups[g][i].name = name
                                   /\ pgPage.groups[g][i].group = c.group}) = 1
        /\ \A s \in SectionKeys, t \in SectionKeys : \A k \in DOMAIN pgPage.query :
             s # t /\ k[1] = t =>
                /\ k \in DOMAIN pgPage.next[s] /\ pgPage.next[s][k] = pgPage.query[k]
                /\ k \in DOMAIN pgPage.reset[s] /\ k \in DOMAIN pgPage.first[s]
        /\ \A s \in SectionKeys :
             /\ \A k \in DOMAIN pgPage.reset[s] : k[1] # s
             /\ \A k \in DOMAIN pgPage.query : k[1] = s /\ k # PageKey(s)
                  => k \in DOMAIN pgPage.next[s] /\ k \in DOMAIN pgPage.first[s]

(* Whatever is asked of whichever collector, a captured text of one        *)
(* statement runs again only if it starts with SELECT (which a SELECT ...  *)
(* INTO does too); a plan that says it was measured is of a statement that *)
(* ran, and its warning names the tables a node anywhere in it reads whole.*)
ExplainRunsSelects ==
    /\ \A run \in pgExecuted :
         DetectQueryType(run.entry.sql) # "SELECT" => run.nth > 1 /\ Len(run.entry.sql) > 1
    /\ "plan" \in DOMAIN pgPage =>
         LET whole == {path \in DOMAIN pgPage.raw : pgPage.raw[path].relation # PgNone
                          /\ pgPage.raw[path].type \in {"Seq Scan", "ALL", "SCAN"}}
         IN  /\ pgPage.analyzed => [entry |-> pgPage.entry, nth |-> 1] \in pgExecuted
             /\ pgPage.plan.hasSeqScan = (whole # {})
             /\ ToSet(pgPage.plan.seqScanRelations) = {pgPage.raw[path].relation : path \in whole}

(* A script is served from the bundle that registered its name first, and  *)
(* no registration can take the core's.                                    *)
ScriptsAreTheirBundles ==
    "bundle" \in DOMAIN pgPage =>
        LET own == {i \in DOMAIN pgApp.scripts : pgApp.scripts[i].file = pgPage.file}
        IN  IF pgPage.file = "profiler.js" THEN pgPage.bundle = "core"
            ELSE own # {} => pgPage.bundle = pgApp.scripts[Min(own)].bundle

PagesShowWhatIsStored ==
    /\ DetailShowsWhatIsStored /\ HomeReachesEveryView
    /\ ExplainRunsSelects /\ ScriptsAreTheirBundles
=============================================================================

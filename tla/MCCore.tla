-------------------------------- MODULE MCCore --------------------------------
(***************************************************************************)
(* Model values for the parts of the core that the request's own path and  *)
(* the storages leave out.  They share no state, so one is explored at a   *)
(* time: `subject` says which of a run's Parts, and the others stay in an  *)
(* initial state.                                                          *)
(***************************************************************************)
EXTENDS MethodSpans, TraceTree, Dashboard, PerformanceRules, RuntimeMetrics, CapturedData,
        SchemaDiagram, ListQuery, SchemaGraph, InstrumentChoice, ProfilePages, ExceptionEntries,
        AiContent, SecretPanels

VARIABLE subject

CONSTANT p1  \* a profile

-----------------------------------------------------------------------------
(* MethodSpans: two methods of one provider or of two, plain, with private *)
(* members, decorated (and skipped), excluded by name; one task unprofiled.*)
Instrumented ==
    [instance |-> ("a" :> "service" @@ "c" :> "repository"), raw |-> {}, skipped |-> {},
     excluded |-> {}, decorated |-> {}, profiled |-> {1, 2}, tracer |-> FALSE, calls |-> 3]
SpScenariosHere ==
    { Instrumented,
      [Instrumented EXCEPT !.instance = [m \in SpMethods |-> "service"], !.raw = {"service"},
                           !.profiled = {1}],
      [Instrumented EXCEPT !.skipped = {"repository"}, !.decorated = {"c"}, !.profiled = {1}],
      [Instrumented EXCEPT !.decorated = {"c"}, !.profiled = {1}],
      [Instrumented EXCEPT !.excluded = {"a"}, !.profiled = {1}, !.tracer = TRUE] }

(* TraceTree: spans that begin with, after or before the next one, with    *)
(* parents that are reported, unknown or infer themselves; containers; an  *)
(* entry nobody timed.                                                     *)
TimedEntry(start, duration, container, id, parent) ==
    [start |-> start, duration |-> duration, container |-> container, id |-> id,
     parent |-> parent]
TtEntriesHere ==
    {TimedEntry(0, 3, FALSE, TtNone, TtNone), TimedEntry(2, 3, FALSE, 101, TtNone),
     TimedEntry(2, 3, FALSE, TtNone, 101), TimedEntry(2, 3, FALSE, 102, 101),
     TimedEntry(0, 3, TRUE, TtNone, TtNone), TimedEntry(2, 3, TRUE, TtNone, TtNone),
     TimedEntry(TtNone, 0, FALSE, TtNone, TtNone)}
TtMarksHere == {[guards |-> 0, controller |-> 1, validation |-> <<1, 1>>]}
TtDurationsHere == {TtNone, 2}

(* Dashboard: two HTTP profiles of one trace and a GraphQL one.            *)
DbProfilesHere ==
    << [type |-> "http", trace |-> 1], [type |-> "http", trace |-> 1],
       [type |-> "graphql", trace |-> 2] >>
DbSectionsHere ==
    << [key |-> "http", types |-> {"http"}, isDefault |-> TRUE, order |-> 1],
       [key |-> "graphql", types |-> {"graphql"}, isDefault |-> FALSE, order |-> 2] >>

(* PerformanceRules: slow, repeated, failed, large, empty and classified   *)
(* entries in two collectors, one of which may not be taggable.            *)
Reading(duration, print, classify, error, status, size, zero) ==
    [duration |-> duration, print |-> print, classify |-> classify, error |-> error,
     status |-> status, size |-> size, zero |-> zero]
Readings ==
    { Reading(1, "f", "none", FALSE, RuNone, 0, FALSE),
      Reading(3, "f", "none", TRUE, RuNone, 0, TRUE),
      Reading(2, "g", "throws", FALSE, 500, 4, FALSE),
      Reading(2, RuNone, "no", TRUE, 404, 9, TRUE),
      Reading(1, "g", "none", FALSE, 503, 9, FALSE) }
Tagged(taggable, domain, entries, chatty) ==
    [taggable |-> taggable, domain |-> domain, slow |-> 2, nPlusOne |-> 2, chatty |-> chatty,
     large |-> 5, floor |-> 500, entries |-> entries]
Analysed(collectors, classify, status, floor, exceptions, codes) ==
    [collectors |-> collectors, classify |-> classify, status |-> status, floor |-> floor,
     exceptions |-> exceptions, codes |-> codes]
Raised(handled, code) == [handled |-> handled, code |-> code]
RuProfilesHere ==
    {Analysed(<<Tagged(TRUE, "query", <<a, b>>, 2), Tagged(TRUE, "http", <<c, a>>, 3)>>,
              classify, 500, IF classify = "none" THEN 500 ELSE RuNone, {Raised(FALSE, "bad"), Raised(TRUE, RuNone)}, {"other"}) :
        a \in Readings, b \in Readings, c \in Readings, classify \in {"none", "throws"}}
    \cup {Analysed(<<Tagged(TRUE, "query", <<a>>, 1), Tagged(FALSE, "http", <<a, a>>, 3)>>,
                   classify, RuNone, 500, {Raised(FALSE, RuNone)}, {"other"}) :
        a \in Readings, classify \in {"none", "yes", "no"}}
    \cup {Analysed(<<Tagged(TRUE, "query", <<>>, 1)>>, "none", RuNone, 500,
                   {Raised(FALSE, "other")}, codes) : codes \in {RuNone, {"other"}}}
RuCustomHere ==
    {[id |-> "slow", severity |-> 3, count |-> 7, throws |-> throws] : throws \in BOOLEAN}
    \cup {[id |-> "own", severity |-> 1, count |-> 1, throws |-> FALSE]}

(* CapturedData: graphs of four values that share, nest and refer back to  *)
(* one another, through plain and secret keys.                             *)
Member(key, to) == [key |-> key, to |-> <<to>>]
Graph(kinds, members) ==
    LET nodes == {<<n>> : n \in 1 .. 4}
    IN  [root |-> <<1>>, kind |-> [n \in nodes |-> kinds[n[1]]],
         next |-> [n \in nodes |-> members[n[1]]]]
MembersOf(kind, ofObject, ofInstance) ==
    CASE kind \in {"object", "map"} -> ofObject
      [] kind = "instance" -> ofInstance
      [] OTHER             -> <<>>
CdValuesHere ==
    {Graph(<<"object", second, third, fourth>>,
           <<ofRoot, MembersOf(second, ofSecond, <<Member("plain", 3)>>),
             MembersOf(third, ofThird, <<Member("plain", 4)>>), <<>>>>) :
        second \in {"object", "instance", "map"}, third \in {"object", "bigint", "instance"},
        fourth \in {"bigint", "text"},
        ofRoot \in {<<Member("plain", 2)>>, <<Member("secret", 2), Member("plain", 3)>>,
                    <<Member("plain", 2), Member("plain", 3), Member("plain", 4)>>},
        ofSecond \in {<<Member("plain", 3)>>, <<Member("plain", 2)>>,
                      <<Member("plain", 4), Member("secret", 3)>>},
        ofThird \in {<<Member("plain", 1)>>, <<Member("plain", 4)>>, <<Member("plain", 3)>>}}
CdRequestsHere == {[headers |-> {"cookie", "x"}, query |-> {"token", "x"}]}

(* ListQuery: a profile of each kind and one of none, tags and texts that  *)
(* hold one another, a wildcard, an accent.                                *)
Recorded(token, at, type, data) ==
    [token |-> token, at |-> at, type |-> type, method |-> LqNone, status |-> LqNone,
     duration |-> LqNone, tags |-> <<>>, failures |-> <<>>, terms |-> <<<<"k">>>>, data |-> data,
     custom |-> <<>>]
Failure(name, handled) == [name |-> name, handled |-> handled]
LqProfilesHere ==
    { [Recorded(1, 0, "http", LqNone) EXCEPT
         !.method = <<"G">>, !.status = 404, !.duration = 5, !.tags = <<<<"very-", "slow">>, <<"error">>>>,
         !.failures = <<Failure(<<"K">>, TRUE), Failure(<<"E">>, FALSE)>>,
         !.terms = <<<<"E'", "_">>, <<"k">>>>],
      [Recorded(2, 0, "http", LqNone) EXCEPT
         !.method = <<"P">>, !.status = 399, !.duration = 4, !.tags = <<<<"slow">>>>,
         !.terms = <<<<"e'", "k">>>>, !.custom = "exception" :> Text(<<"own">>)],
      [Recorded(3, 1, "mail", LqNone) EXCEPT !.tags = <<<<"error">>>>, !.terms = <<<<"_">>>>],
      [Recorded(4, 1, "graphql", [operationType |-> <<"query">>]) EXCEPT !.status = 500,
         !.method = <<"P">>, !.duration = 9, !.failures = <<Failure(<<"k">>, FALSE)>>],
      Recorded(5, 0, "rabbitmq", [redelivered |-> TRUE, exchange |-> <<>>, handler |-> <<>>,
                                  routingKey |-> <<"K", "_">>]),
      Recorded(6, 0, "rabbitmq", [redelivered |-> FALSE, exchange |-> <<"E">>,
                                  handler |-> <<"k">>, routingKey |-> <<"k", "e">>]),
      Recorded(7, 0, "ai", [models |-> <<<<"K">>>>, agent |-> LqNone]),
      Recorded(8, 1, "ai", [models |-> <<>>, agent |-> <<"k">>]),
      Recorded(9, 0, "event", [success |-> FALSE, event |-> <<"E">>]),
      Recorded(10, 1, "command", [success |-> TRUE]) }
Raw(text, int, chosen) == [text |-> text, int |-> int, chosen |-> chosen]
Param(key, raw) == [key |-> key, raw |-> raw]
LqParams ==
    {Param("q", Raw(text, LqNone, FALSE)) : text \in {<<"E'">>, <<"_">>, <<"K">>, <<>>}}
    \cup {Param("status", Raw(<<"n">>, n, FALSE)) : n \in {404, LqNone}}
    \cup {Param("statusClass", Raw(<<"n">>, n, FALSE)) : n \in {3, 6}}
    \cup {Param(key, Raw(<<"n">>, 5, FALSE)) : key \in {"minDuration", "maxDuration"}}
    \cup {Param("tag", Raw(<<"slow">>, LqNone, FALSE)), Param("error", Raw(<<"1">>, 1, FALSE)),
          Param("exception", Raw(<<"K">>, LqNone, FALSE)),
          Param("exception", Raw(<<"e">>, LqNone, FALSE)),
          Param("method", Raw(<<"g">>, LqNone, FALSE)),
          Param("operationType", Raw(<<"query">>, LqNone, FALSE)),
          Param("routingKey", Raw(<<"_">>, LqNone, FALSE)),
          Param("exchange", Raw(<<"e">>, LqNone, FALSE)),
          Param("exchange", Raw(<<"(default)">>, LqNone, FALSE)),
          Param("aiModel", Raw(<<"k">>, LqNone, FALSE))}
    \cup {Param(key, Raw(<<"x">>, LqNone, chosen)) :
            key \in {"redelivered", "eventStatus", "commandStatus"}, chosen \in BOOLEAN}
LqAsks(section, params) == [section |-> section, params |-> params]
LqRequestsHere ==
    {LqAsks("http", {p}) : p \in {q \in LqParams : q.key \in {"q", "status", "statusClass",
        "minDuration", "maxDuration", "tag", "error", "exception", "method"}}}
    \cup {LqAsks("rabbitmq", {p}) : p \in {q \in LqParams :
            q.key \in {"redelivered", "exchange", "routingKey", "error"}}}
    \cup {LqAsks("event", {p}) : p \in {q \in LqParams : q.key \in {"eventStatus", "redelivered"}}}
    \cup {LqAsks("graphql", {p, q}) : p \in {r \in LqParams : r.key = "operationType"},
            q \in {r \in LqParams : r.key \in {"operationType", "status", "exception"}}}
    \cup {LqAsks("ai", {p}) : p \in {q \in LqParams : q.key = "aiModel"}}
    \cup {LqAsks("command", {p}) : p \in {q \in LqParams : q.key = "commandStatus"}}
    \cup {LqAsks(section, {}) : section \in {"http", "rabbitmq"}}
LqChunks == {"a", " ", "G", "g", "P", "p", "K", "k", "E", "e", "E'", "e'", "_", "slow", "very-",
             "error", "own", "query", "(default)", "unknown", "x", "n", "1"}
LqLowerHere ==
    [c \in LqChunks |->
        CASE c = "G" -> "g" [] c = "P" -> "p" [] c = "K" -> "k" [] c = "E" -> "e"
          [] c = "E'" -> "e'" [] OTHER -> c]

(* SchemaGraph: relations named from both sides, from one, onto oneself;   *)
(* a shape embedded under several documents, one that embeds another and   *)
(* one that embeds itself, and a model named like a block.                 *)
Column(property, primary, default) ==
    [property |-> property, type |-> "int", nullable |-> FALSE, primary |-> primary,
     generated |-> primary, default |-> default, length |-> SgNone]
Relates(property, kind, target, inverse) ==
    [property |-> property, kind |-> kind, target |-> target, inverse |-> inverse]
User == <<"user">>
Post == <<"post">>
Mentor == <<"mentor">>
Pupil == <<"pupil">>
Table(name, columns, relations) ==
    [name |-> name, columns |-> columns, relations |-> relations,
     indexes |-> <<[columns |-> << <<Mentor>> >>, unique |-> TRUE]>>]
Tables(default) ==
    << Table(User, <<Column(IdName, TRUE, SgNone), Column(Mentor, FALSE, default)>>,
             << Relates(Post, "one-to-many", Post, User), Relates(Mentor, "one-to-one", User, Pupil),
                Relates(Pupil, "one-to-one", User, Mentor) >>),
       Table(Post, <<>>,
             << Relates(User, "many-to-one", User, Post), Relates(Mentor, "many-to-one", User, SgNone),
                Relates(Pupil, "many-to-many", <<"tag", SgUnsafe>>, SgNone) >>) >>
Prop(name, kind, target, mappedBy, inversedBy) ==
    [name |-> name, kind |-> kind, target |-> target, mappedBy |-> mappedBy, inversedBy |-> inversedBy,
     type |-> "int", nullable |-> TRUE, primary |-> FALSE, autoincrement |-> FALSE,
     generated |-> FALSE, default |-> "secret", length |-> SgNone]
Meta(name, abstract, relations) ==
    [name |-> name, abstract |-> abstract, relations |-> relations, indexes |-> <<>>, uniques |-> <<>>,
     props |-> <<Prop(IdName, "scalar", SgNone, SgNone, SgNone)>> \o relations]
Metas ==
    << Meta(User, FALSE, << Prop(Post, "1:m", Post, User, SgNone),
                            Prop(Pupil, "m:n", Post, Mentor, SgNone),
                            Prop(Mentor, "embedded", Post, SgNone, SgNone) >>),
       Meta(Post, FALSE, << Prop(User, "m:1", User, SgNone, SgNone),
                            Prop(Mentor, "m:n", User, SgNone, SgNone),
                            Prop(Pupil, "1:1", User, SgNone, SgNone) >>),
       Meta(SgNone, FALSE, <<>>), Meta(<<"tag">>, TRUE, <<>>) >>
NoElement == [ref |-> SgNone, instance |-> SgNone]
Field(key, instance, ref, element, schema, default) ==
    [key |-> key, instance |-> instance, required |-> key[1] = IdName, ref |-> ref,
     element |-> element, schema |-> schema, default |-> default]
Id == Field(<<IdName>>, "ObjectId", SgNone, NoElement, SgNone, SgNone)
Refers(name, target) == Field(<<name>>, "ObjectId", target, NoElement, SgNone, "secret")
RefersMany(name, target) ==
    Field(<<name>>, "Array", SgNone, [ref |-> target, instance |-> "ObjectId"], SgNone, SgNone)
Holds1(name, schema) == Field(<<name>>, "Embedded", SgNone, NoElement, schema, SgNone)
HoldsMany(name, schema) == Field(<<name>>, "Array", SgNone, NoElement, schema, SgNone)
Nests(key, default) == Field(key, "String", SgNone, NoElement, SgNone, default)
MapOf(name, element) ==
    <<Field(<<name>>, "Map", SgNone, NoElement, SgNone, SgNone),
      [element EXCEPT !.key = <<name>> \o <<<<SgUnsafe>>>>]>>
Documents(default) ==
    ("order" :> << Id, Refers(User, User), HoldsMany(<<"items">>, "item"), Holds1(<<"from">>, "address"),
                   Nests(<<<<"meta">>, <<"b">>, <<"tag">>>>, "factory"), Holds1(<<"to">>, "address2"),
                   Nests(<<<<"meta">>, <<"b">>, <<"c">>>>, default) >>
                \o MapOf(<<"a">>, Refers(<<"a">>, User))
     @@ "item" :> << Refers(Post, Post), Holds1(<<"from">>, "address"),
                    [Refers(<<"a">>, User) EXCEPT !.key = <<<<"meta">>, <<"a">>>>] >>
                \o MapOf(<<"b">>, Holds1(<<"b">>, "address"))
     @@ "address" :> << Refers(<<"tag">>, <<"tag">>) >>
     @@ "address2" :> << Refers(<<"tag">>, <<"tag">>) >>
     @@ "user" :> << Id, Holds1(<<"from">>, "address"), HoldsMany(<<"items">>, "item"), RefersMany(Post, Post), Holds1(<<"to">>, "node") >>
     @@ "node" :> << Nests(<<<<"a">>>>, "text"), HoldsMany(<<"items">>, "node") >>)
Models ==
    << [name |-> <<"order">>, schema |-> "order", indexes |-> <<>>],
       [name |-> User, schema |-> "user", indexes |-> <<>>],
       [name |-> <<"order", "meta">>, schema |-> "address", indexes |-> <<>>] >>
Declares(typeorm, mikroorm, mongoose, schemas) ==
    [metas |-> [typeorm |-> typeorm, mikroorm |-> mikroorm, mongoose |-> mongoose],
     schemas |-> schemas]
SgAppsHere ==
    { Declares(Tables("secret"), Metas, Models, Documents("factory")),
      Declares(Tables("cyclic"), <<>>, Reverse(Models), Documents("text")),
      Declares(SgNone, Reverse(Metas), Models, Documents("cyclic")),
      Declares(Reverse(Tables("text")), SgNone, <<Models[2], Models[1]>>, Documents("factory")) }
SgWordsHere ==
    <<"_id", "a", "b", "c", "from", "items", "mentor", "meta", "order", "post", "pupil", SgUnsafe,
      "tag", "to", "user">>

(* InstrumentChoice: a service whose two methods share a name with those of *)
(* a repository, a cache over a Map, a class with private fields, one bare  *)
(* Map, the CLS service, an internal; aliases, statics, metadata.           *)
IcMethod(fn) ==
    [kind |-> "method", fn |-> fn, branded |-> FALSE, meta |-> {}, statics |-> {}, frozen |-> FALSE]
IcHolding(kind, fn) == [IcMethod(fn) EXCEPT !.kind = kind]
IcClass(slots, hash, internal) == [slots |-> slots, hash |-> hash, internal |-> internal]
PlainClass == IcClass(FALSE, FALSE, FALSE)
Provided(name, chain, members) ==
    [name |-> name, chain |-> chain, native |-> FALSE, hostile |-> FALSE, members |-> members]
CatService ==
    Provided(<<"Cat", "Service">>, {PlainClass},
             "find" :> [IcMethod("find") EXCEPT !.meta = {"cron"}]
             @@ "all" :> [IcMethod("find") EXCEPT !.meta = {"cron"}]
             @@ "model" :> [IcMethod("model") EXCEPT !.statics = {"exec"}])
PrivateFields ==
    Provided(<<"Cat", "Repository">>, {PlainClass, IcClass(FALSE, TRUE, FALSE)},
             "find" :> [IcMethod("find") EXCEPT !.branded = TRUE, !.meta = {"guard"}])
CacheOverMap ==
    Provided(<<"Cat", "Cache">>, {IcClass(TRUE, FALSE, FALSE), PlainClass},
             "get" :> [IcMethod("get") EXCEPT !.branded = TRUE] @@ "size" :> IcHolding("data", "size"))
BareMap ==
    [Provided(<<"Map">>, {IcClass(TRUE, FALSE, FALSE)},
              "get" :> [IcMethod("get") EXCEPT !.branded = TRUE]) EXCEPT !.native = TRUE]
FrozenService ==
    Provided(<<"Settings">>, {PlainClass}, "find" :> [IcMethod("find") EXCEPT !.frozen = TRUE])
Lone(name, internal) ==
    Provided(name, {IcClass(FALSE, FALSE, internal)}, "find" :> IcMethod("find"))
Excluded(regexp, words) == [regexp |-> regexp, words |-> words]
Decorating(providers, exclude, depth) ==
    [providers |-> providers, exclude |-> exclude, includeInternals |-> FALSE,
     includeAnonymous |-> FALSE, skip |-> {}, version |-> <<11, 1, 4>>, maxDepth |-> depth]
IcAppsHere ==
    {Decorating("s" :> CatService @@ "p" :> second, {}, depth) :
        second \in {PrivateFields, Lone(<<"Cat">>, FALSE)}, depth \in {1, 3}}
    \cup {Decorating("s" :> CatService @@ "p" :> second, exclude, 3) :
        second \in {CacheOverMap, Lone(<<"Cat">>, FALSE)},
        exclude \in {{Excluded(FALSE, <<"*", ".", "find">>)}, {Excluded(FALSE, <<"Cat">>)},
                     {Excluded(TRUE, <<"Service">>), Excluded(FALSE, <<>>)},
                     {Excluded(FALSE, <<"Cat", "*", ".", "all">>),
                      Excluded(FALSE, <<"*", "Cache">>)}}}
    \cup {Decorating("s" :> first @@ "p" :> second, {}, 3) :
        first \in {BareMap, FrozenService, [CatService EXCEPT !.hostile = TRUE]},
        second \in {Lone(<<"Tracer">>, TRUE), Lone(<<"ClsService">>, FALSE),
                    Lone(<<"Object">>, FALSE)}}
    \cup {[Decorating("s" :> CatService @@ "p" :> PrivateFields, {}, 3) EXCEPT !.version = version,
                      !.skip = {"p"}, !.includeInternals = TRUE, !.includeAnonymous = TRUE] :
        version \in {<<11, 1, 3>>, <<11>>, <<12, 0>>, <<IcNone, 0, 0>>, IcNone}}
IcMinimumHere == <<11, 1, 4>>

(* ProfilePages: two database collectors of one group, one of their names   *)
(* registered twice, one collector on its own that may fail, two process-   *)
(* wide ones; connections that are closed, unsupported or may analyse;      *)
(* texts of a SELECT, of a DELETE, and of two statements.                  *)
Row(sql, severity) == [sql |-> sql, severity |-> severity]
Collector(name, group, priority, entries) ==
    [name |-> name, scope |-> "profile", group |-> group, priority |-> priority,
     groupPriority |-> PgNone, severities |-> TRUE, fails |-> FALSE, entries |-> entries,
     views |-> <<>>]
OfTheProcess(name, group, views) ==
    [Collector(name, group, 1, <<>>) EXCEPT !.scope = "global", !.views = views]
Select == Row(<<"SELECT">>, 1)
Delete == Row(<<"DELETE">>, 3)
TwoStatements(starts) == Row(<<starts, "DELETE">>, 1)
Connection(orm, type, open, analyze) ==
    [orm |-> orm, type |-> type, open |-> open, analyze |-> analyze, enabled |-> TRUE,
     several |-> type = "postgres"]
PagesOf(ofTypeOrm, ofMikro, failing, connections) ==
    [collectors |->
        << Collector("typeorm", "database", 40, ofTypeOrm),
           [Collector("http", PgNone, 20, <<Select>>) EXCEPT !.fails = failing],
           [Collector("mikro", "database", 10, ofMikro) EXCEPT !.groupPriority = 50],
           OfTheProcess("routes", "discover", <<"gets", "events">>),
           OfTheProcess("config", PgNone, <<>>), OfTheProcess("crons", "discover", <<>>),
           [OfTheProcess("mails", "discover", <<"mail">>) EXCEPT !.fails = failing],
           [Collector("logs", PgNone, 20, <<>>) EXCEPT !.fails = failing, !.severities = FALSE],
           Collector("typeorm", "database", 40, ofTypeOrm) >>,
     sections |-> <<[key |-> "graphql", isDefault |-> FALSE], [key |-> "http", isDefault |-> TRUE]>>,
     tabs |-> <<"request">>, connections |-> connections,
     scripts |-> <<[file |-> "http.js", bundle |-> "one"], [file |-> "http.js", bundle |-> "two"],
                   [file |-> "profiler.js", bundle |-> "two"]>>]
PgAppsHere ==
    { PagesOf(<<TwoStatements("SELECT"), Delete>>, <<>>, FALSE,
              {Connection("typeorm", "postgres", TRUE, TRUE),
               Connection("mikro", "SqlitePlatform", FALSE, TRUE)}),
      PagesOf(<<TwoStatements("OTHER")>>, <<Delete>>, TRUE,
              {Connection("typeorm", "postgres", TRUE, FALSE),
               [Connection("mikro", "MySqlPlatform", TRUE, TRUE) EXCEPT !.enabled = FALSE]}),
      [PagesOf(<<>>, <<Select>>, FALSE, {Connection("typeorm", "oracle", TRUE, TRUE),
                                         Connection("mikro", "MariaDbPlatform", TRUE, TRUE)})
          EXCEPT !.sections = <<>>, !.tabs = <<>>] }
PgQueriesHere ==
    { <<>>,
      PageKey("http") :> 3 @@ <<"http", "_", "q">> :> 1 @@ PageKey("graphql") :> 2
      @@ <<"graphql", "_", "q">> :> 1 @@ <<"view">> :> 1 }
Node(type, relation) == [type |-> type, relation |-> relation]
PgPlansHere ==
    ( "postgres" :> {<<>>, <<>> :> Node("Seq Scan", "cats"),
                     (<<>> :> Node("Hash Join", PgNone)) @@ (<<1>> :> Node("Hash", PgNone))
                     @@ (<<2>> :> Node("Index Scan", "dogs")) @@ (<<1, 1>> :> Node("Seq Scan", "cats"))}
      @@ "mysql" :> {<<>> :> Node("ALL", PgNone),
                     (<<>> :> Node("ref", "dogs")) @@ (<<1>> :> Node("ALL", "cats"))}
      @@ "sqlite" :> {<<1>> :> Node("SCAN", "cats"), <<1>> :> Node("SEARCH", "cats")} )

(* ExceptionEntries: errors that wrap one another, once in a circle, one    *)
(* that was thrown without being an Error, and responses with a payload of  *)
(* their own; the stacks name sources, dependencies and whatever a message  *)
(* can be made to look like.                                                *)
Located(scheme, steps) == [scheme |-> scheme, steps |-> steps]
AppFile(name) == Located("absolute", <<"app", "src", name>>)
FindCall == [constructs |-> FALSE, name |-> "find", alias |-> FALSE]
FrameAt(path, line) == [at |-> TRUE, async |-> FALSE, call |-> FindCall, opened |-> TRUE, path |-> path,
                   position |-> <<line, 7>>]
TextLine(path) == [FrameAt(path, 1) EXCEPT !.at = FALSE]
LibraryFile == Located("absolute", <<"app", "node_modules", ".pnpm", "orm", "node_modules", "orm", "q.js">>)
ExRootHere == <<"app">>
ExSourcesHere == {"cat.ts", "dog.js", "q.js", "key.js", "gone.js"}
ExDiskHere == ( <<"app", "src", "cat.ts">> :> 6 @@ <<"app", "src", "dog.js">> :> 1
                @@ <<"app", "src", "env.json">> :> 3 @@ <<"etc", "key.js">> :> 3
                @@ <<"app", "node_modules", "q.js">> :> 4 )
PayloadOf(own, message, big) == [own |-> own, message |-> message, big |-> big]
ErrorOf(kind, code, cause, payload, stack) ==
    [kind |-> kind, code |-> code, cause |-> cause, payload |-> payload, stack |-> stack]
ForgedStack == << TextLine(AppFile("cat.ts")), FrameAt(Located("absolute", <<"app", "..", "etc", "key.js">>), 2),
             FrameAt(Located("absolute", <<"etc", "key.js">>), 1), FrameAt(AppFile("env.json"), 2),
             FrameAt(Located("absolute", <<"app", "src", "..", "node_modules", "q.js">>), 1),
             [FrameAt(AppFile("cat.ts"), 1) EXCEPT !.opened = FALSE],
             [FrameAt(AppFile("cat.ts"), 1) EXCEPT !.position = <<3>>],
             FrameAt(Located("relative", <<"native">>), 1) >>
ExThrownHere ==
    "wrap" :> ErrorOf("http", "none", "query", PayloadOf({}, "same", FALSE),
                      << TextLine(AppFile("cat.ts")), FrameAt(AppFile("cat.ts"), 5), FrameAt(LibraryFile, 3),
                         FrameAt(AppFile("dog.js"), 1), FrameAt(AppFile("cat.ts"), 2), FrameAt(AppFile("cat.ts"), 1) >>)
    @@ "query" :> ErrorOf("error", "42P01", "wrap", ExNone,
                      << FrameAt(Located("file url", <<"app", "src", "cat.ts">>), 6), FrameAt(AppFile("cat.ts"), 9),
                         FrameAt(AppFile("gone.js"), 1), FrameAt(AppFile("dog.js"), 0),
                         [FrameAt(Located("node", <<"internal", "timers">>), 1) EXCEPT !.async = TRUE] >>)
    @@ "dto" :> ErrorOf("http", "number", "text", PayloadOf({}, "list", FALSE), ForgedStack)
    @@ "text" :> ErrorOf("plain", "none", "wrap", ExNone, <<FrameAt(AppFile("dog.js"), 1)>>)
    @@ "rows" :> ErrorOf("http", "empty", "dto", PayloadOf({"field", "token"}, "other", TRUE), <<>>)
    @@ "own" :> ErrorOf("http", "none", ExNone, PayloadOf({"field", "token"}, "same", FALSE), <<>>)
    @@ "odd" :> ErrorOf("http", "none", "rows", PayloadOf({}, "object", FALSE), <<>>)
ChosenOptions(source, context, frames, capture, editor) ==
    [source |-> source, context |-> context, frames |-> frames, capture |-> capture, editor |-> editor]
ExOptionsHere == { ChosenOptions(TRUE, 2, 2, TRUE, "vscode"), ChosenOptions(TRUE, 0, 5, TRUE, "unknown"),
                   ChosenOptions(FALSE, 2, 2, FALSE, "vscode") }

(* What is captured of an AI call: texts short and long with credentials   *)
(* on both sides of each cut, payloads with secret and ordinary keys.      *)
AcTexts ==
    {<<>>, <<"a">>, <<"x", "p", "c">>, <<"a", "<", "=", "=", ">", "x">>, <<"<", ">", "<", "=", ">", "p">>,
     <<"a", "a", "<", "=", "=", ">", "a", "<", "=", "=", ">">>,
     <<"<", "=", "=", ">", "a", "a", "<", "=", "=", ">", "a", "x">>,
     [i \in 1..7 |-> "a"] \o <<"<", "=", "=", ">">>,
     [i \in 1..9 |-> "a"] \o <<"<", "=", "=", ">">>,
     [i \in 1..10 |-> "a"] \o <<"<", "=", "=", ">">>,
     <<"<", "=", "=", ">", "<", "=", "=", ">", "<", "=", "=", ">", "<", "=", "=", ">">>,
     <<"?", "<", ">", "a">>, <<"x", "x", "<">>, <<"=", "p">>}
AcPlainTexts == {t \in AcTexts : \A i \in DOMAIN t : t[i] \in CredentialCharacters => Cardinality({j \in DOMAIN t : t[j] = "<"}) = Cardinality({j \in DOMAIN t : t[j] = ">"})} \ {<<"=", "p">>}

AcItem(key, value) == [key |-> key, value |-> value]
AcObjects ==
    {MkMembers("object", <<AcItem(<<"token">>, MkText(<<"s">>)), AcItem(<<"plain">>, MkText(t))>>) :
        t \in AcPlainTexts}
    \cup {MkMembers("instance", <<AcItem(<<"token">>, MkText(<<"s">>)), AcItem(<<"plain">>, v)>>) :
        v \in {MkLeaf("number"), MkLeaf("bigint")}}
    \cup {MkMembers("object", <<AcItem(<<"tokens">>, MkText(<<"n">>)), AcItem(<<"mine">>, MkText(<<"s", "t">>))>>),
          MkMembers("object", <<>>)}
AcDeep ==
    {MkList(<<o, MkText(<<"x">>)>>) : o \in AcObjects}
    \cup {MkList(<<MkList(<<MkList(<<MkText(<<"<", ">">>)>>)>>)>>), MkList(<<MkList(<<MkText(<<"<", ">", "x">>)>>)>>),
          MkList(<<MkList(<<MkList(<<MkLeaf("bigint")>>)>>)>>)}
AcTrees == AcObjects \cup AcDeep \cup {MkLeaf("null"), MkLeaf("number"), MkLeaf("bigint")}

AcContent(how, field, value) == [how |-> how, field |-> field, value |-> value]
AcContentsHere ==
    {AcContent(h, "messages", MkText(t)) : h \in {"text", "url", "diagnostic"}, t \in AcPlainTexts}
    \cup {AcContent(h, f, v) : h \in {"value"}, f \in {"toolResults"},
                               v \in AcTrees \cup {MkText(t) : t \in AcPlainTexts}}
    \cup {AcContent("schema", "toolResults", v) : v \in AcTrees}
    \cup {AcContent("payload", "providerPayload", v) : v \in AcTrees}
    \cup {AcContent("headers", "providerPayload", v) : v \in {MkLeaf("null")} \cup
            {MkMembers("object", <<AcItem(<<"token">>, MkText(<<"s">>)), AcItem(<<"plain">>, MkText(<<"a">>))>>)}}

MkBuiltInHere == {<<"token">>, <<"tokens">>, <<"password">>}
AcCountsHere == {<<"tokens">>}

AcLevelsOf(m, t, p) == [messages |-> m, toolResults |-> t, providerPayload |-> p]
AcDefaultsHere ==
    [levels |-> AcLevelsOf("redacted", "redacted", "none"), pii |-> TRUE, patterns |-> {}, useDefaults |-> TRUE,
     keys |-> {}, sanitize |-> {}, maxTextLength |-> 4, maxPayloadLength |-> 9]
AcUpdatesHere ==
    {[levels |-> AcLevelsOf(l, l, l)] : l \in {"none", "metadata", "full"}}
    \cup {[levels |-> AcLevelsOf("full", "redacted", "none")]}
    \cup {[pii |-> FALSE, patterns |-> {}, useDefaults |-> FALSE, keys |-> {<<"mine">>}, sanitize |-> {}],
          [pii |-> TRUE, patterns |-> {"c"}, useDefaults |-> TRUE, keys |-> {<<"mine">>},
           sanitize |-> {"messages", "toolResults", "providerPayload", "error"}],
          [maxTextLength |-> 8], [maxPayloadLength |-> 30]}

(* The panels of the configuration and of the request's user.              *)
SeValidatedHere == <<"env">>
SeRankHere == (<<"db">> :> 2) @@ (<<"port">> :> 3) @@ (<<"api">> :> 1)
SeItem(key, value) == [key |-> key, value |-> value]
SeObject(items) == MkMembers("object", items)
SeA == MkText(<<"a">>)
SeDsn == MkText(<<"a", "<", "=", ">">>)

(* Configurations with namespaces that nest, keys with dots, lists and a   *)
(* validated environment.                                                  *)
SeSpaces ==
    {SeObject(<<SeItem(<<"host">>, v), SeItem(k, SeObject(<<SeItem(<<"name">>, w)>>)),
                SeItem(<<"db", "name">>, MkLeaf("number")), SeItem(<<"password">>, MkText(<<"s">>))>>) :
        v \in {SeA, SeDsn, MkList(<<SeA>>), MkLeaf("null"), SeObject(<<>>)},
        k \in {<<"db">>, <<"secret">>}, w \in {SeDsn, MkMembers("instance", <<SeItem(<<"host">>, SeA)>>)}}
    \cup {SeObject(<<>>)}

SeConfigs ==
    {SeThrows, SeNone, MkLeaf("number"), SeObject(<<>>)}
    \cup {SeObject(<<SeItem(<<"db">>, a), SeItem(<<"port">>, b), SeItem(<<"api">>, c)>>) :
            a \in SeSpaces, b \in {MkLeaf("number"), SeDsn}, c \in {SeA, SeObject(<<SeItem(<<"key">>, SeA)>>)}}
    \cup {SeObject(<<SeItem(<<"env">>, SeObject(<<SeItem(<<"host">>, SeA)>>)), SeItem(<<"port">>, b)>>) :
            b \in {SeA, SeObject(<<>>)}}

(* Users with identifiers and roles of every kind.                         *)
SeUsers ==
    {SeNone}
    \cup {SeObject(<<SeItem(k, v), SeItem(<<"password">>, MkText(<<"s">>)), SeItem(r, l)>>) :
            k \in {<<"username">>, <<"email">>, <<"id">>, <<"other">>},
            v \in {SeA, SeDsn, MkLeaf("number"), MkLeaf("null"), SeObject(<<>>)},
            r \in {<<"roles">>, <<"role">>},
            l \in {MkText(<<"b">>), MkLeaf("null"), MkList(<<>>),
                   MkList(<<SeObject(<<SeItem(<<"id">>, MkLeaf("number"))>>), MkText(<<"b">>),
                            SeObject(<<SeItem(<<"name">>, MkText(<<"c">>))>>), SeObject(<<>>)>>)}}

SeClaims ==
    {SeNone, <<SeA, SeNone, SeA>>, <<SeA, SeA>>, <<SeA, SeA, SeA>>}
    \cup {<<SeA, SeObject(<<SeItem(<<"token">>, MkText(<<"s">>)), SeItem(<<"sub">>, SeDsn)>>), SeA>>}

SeScenario(config, user, header) ==
    [config |-> config, maskKeys |-> {}, user |-> user, header |-> header, maskUserFields |-> {},
     badge |-> "status", resolver |-> FALSE]

SeScenariosHere ==
    {[SeScenario(c, SeNone, SeNone) EXCEPT !.maskKeys = m] :
        c \in SeConfigs, m \in {{}, {<<"host">>}, {<<"db", "host">>, <<"port">>}, {<<"db", "db", "name">>}}}
    \cup {[SeScenario(SeNone, u, h) EXCEPT !.badge = b, !.maskUserFields = f, !.resolver = r] :
        u \in SeUsers, h \in SeClaims, b \in {"status", "role", "identifier"},
        f \in {{}, {<<"username">>, <<"roles">>}}, r \in {FALSE}}
    \cup {[SeScenario(SeNone, SeObject(<<>>), SeNone) EXCEPT !.resolver = TRUE]}

-----------------------------------------------------------------------------
Parts ==
    {"spans", "trace", "rules", "metrics", "instruments", "failures",
     "dashboard", "list", "capture", "diagram", "schemas", "pages", "ai content", "secrets"}

vars == <<subject, spVars, ttVars, dbVars, ruVars, rtVars, cdVars, sdVars, lqVars, sgVars, icVars, pgVars,
          exVars, acVars, seVars>>

OneOf(set) == CHOOSE x \in set : TRUE

Init ==
    /\ subject \in Parts
    /\ IF subject = "spans" THEN SpInit ELSE SpStart(OneOf(SpScenarios))
    /\ IF subject = "trace" THEN TtInit
       ELSE TtStart(<<>>, OneOf(TtMarks), OneOf(TtDurations), {})
    /\ DbInit
    /\ IF subject = "rules" THEN RuInit ELSE RuStart(OneOf(RuProfiles), OneOf(RuCustom))
    /\ IF subject = "metrics" THEN RtInit ELSE RtStart("off")
    /\ IF subject = "capture" THEN CdInit
       ELSE CdStart(OneOf(CdValues), OneOf(CdRequests), OneOf(CdConfigs))
    /\ IF subject = "diagram" THEN SdInit ELSE SdStart("dark", FALSE)
    /\ LqInit
    /\ IF subject = "schemas" THEN SgInit ELSE SgStart(OneOf(SgApps))
    /\ IF subject = "instruments" THEN IcInit ELSE IcStart([providers |-> <<>>])
    /\ IF subject = "pages" THEN PgInit ELSE PgStart(PgNone)
    /\ IF subject = "failures" THEN ExInit ELSE ExStart(OneOf(ExOptions))
    /\ IF subject = "ai content" THEN AcInit ELSE AcStart(AcDefaults)
    /\ IF subject = "secrets" THEN SeInit ELSE SeStart(SeScenario(SeNone, SeNone, SeNone))

Rests(part) ==
    CASE part = "spans"     -> UNCHANGED spVars
      [] part = "trace"     -> UNCHANGED ttVars
      [] part = "dashboard" -> UNCHANGED dbVars
      [] part = "rules"     -> UNCHANGED ruVars
      [] part = "metrics"   -> UNCHANGED rtVars
      [] part = "capture"   -> UNCHANGED cdVars
      [] part = "diagram"   -> UNCHANGED sdVars
      [] part = "list"      -> UNCHANGED lqVars
      [] part = "schemas" -> UNCHANGED sgVars
      [] part = "instruments" -> UNCHANGED icVars
      [] part = "pages" -> UNCHANGED pgVars
      [] part = "failures" -> UNCHANGED exVars
      [] part = "ai content" -> UNCHANGED acVars
      [] part = "secrets" -> UNCHANGED seVars

Only(part) ==
    /\ subject = part /\ UNCHANGED subject
    /\ \A other \in Parts \ {part} : Rests(other)

Next ==
    \/ Only("spans") /\ SpNext
    \/ Only("trace") /\ TtNext
    \/ Only("dashboard") /\ DbNext
    \/ Only("rules") /\ RuNext
    \/ Only("metrics") /\ RtNext
    \/ Only("capture") /\ CdNext
    \/ Only("diagram") /\ SdNext
    \/ Only("list") /\ LqNext
    \/ Only("schemas") /\ SgNext
    \/ Only("instruments") /\ IcNext
    \/ Only("pages") /\ PgNext
    \/ Only("failures") /\ ExNext
    \/ Only("ai content") /\ AcNext
    \/ Only("secrets") /\ SeNext

Spec == Init /\ [][Next]_vars

-----------------------------------------------------------------------------
(* Types: what the variables of every part may hold, the Map of the memory *)
(* storage (memory-storage.adapter.ts) within maxProfiles included.        *)
CoreTypeOK ==
    CASE subject = "spans"       -> SpTypeOK
      [] subject = "trace"       -> TtTypeOK
      [] subject = "dashboard"   -> DbTypeOK
      [] subject = "rules"       -> RuTypeOK
      [] subject = "metrics"     -> RtTypeOK
      [] subject = "capture"     -> CdTypeOK
      [] subject = "diagram"     -> SdTypeOK
      [] subject = "list"        -> LqTypeOK
      [] subject = "schemas"     -> SgTypeOK
      [] subject = "instruments" -> IcTypeOK
      [] subject = "pages"       -> PgTypeOK
      [] subject = "failures" -> ExTypeOK
      [] subject = "ai content" -> AcTypeOK
      [] subject = "secrets" -> SeTypeOK

(* A trace is one tree of what the producers timed, and instrumenting an   *)
(* application for it changes nothing of how it runs (build-trace.ts,      *)
(* profiler-instrument.ts).                                                *)
TraceShowsTheCalls ==
    CASE subject = "trace"       -> TraceIsOneTree
      [] subject = "instruments" -> InstrumentationIsTransparent
      [] OTHER                   -> TRUE

(* What a section lists is a page, of the profiles its filters name        *)
(* (profiler.controller.ts buildSection, the storages' query).             *)
SectionsListWhatIsAsked ==
    CASE subject = "dashboard" -> RenderedListIsAPage
      [] subject = "list"      -> FiltersSelectWhatTheyName
      [] OTHER                 -> TRUE

(* A panel, a view, a plan or a diagram shows the data it stands for, whole*)
(* and in its own place: a diagram holds the schema, each thing once, drawn*)
(* in the theme in force (mermaid-er.ts, mermaid-diagram.ts).              *)
PagesShowTheirData ==
    CASE subject = "schemas" -> SchemaDrawnOnce
      [] subject = "diagram" -> DiagramFollowsTheTheme
      [] subject = "pages"   -> PagesShowWhatIsStored
      [] OTHER               -> TRUE

(* What is captured of a request, of a failure or of an AI call, or shown of*)
(* the configuration and of the user, can be stored, tells what it must and*)
(* gives nothing that is to be masked away (utils/, analysis/, ai-capture, *)
(* the config and auth collectors).                                        *)
CapturesAreSafeAndWhole ==
    CASE subject = "capture"  -> CapturedDataIsStorable /\ ListedDataIsMasked
      [] subject = "failures" -> FailuresAreKeptWhole
      [] subject = "ai content" -> AiKeepsWhatItsLevelAllows
      [] subject = "secrets" -> SecretPanelsTellTheTruth
      [] OTHER                -> TRUE
=============================================================================

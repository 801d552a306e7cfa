------------------------------- MODULE Discovery -------------------------------
(***************************************************************************)
(* The Discover views of the dashboard's home page: sources that scan the  *)
(* container at bootstrap, in whatever order the hooks run, and register   *)
(* with the core (routes, commander, event-emitter and rabbitmq packages), *)
(* one that waits for the GraphQL schema, an application's own, and the    *)
(* collector that turns their groups into views (routes.collector.ts).     *)
(***************************************************************************)
EXTENDS RabbitSurface, Naturals

CONSTANTS
    DsApps,      \* what applications declare
    DsWords,     \* every name and word, in localeCompare's order
    DsPathParams, \* those that are path parameters (":id")
    DsMaxNames   \* MAX_NAMES

ASSUME DsAssumption == DsMaxNames \in Nat \ {0}

BuiltinSources == {"http", "graphql", "rabbitmq", "command", "event"}
HookSources == BuiltinSources \ {"graphql"}

VARIABLES
    dsApp,
    dsGroups,   \* source -> its group
    dsSources,  \* the registered sources, in order
    dsSchema,   \* the GraphQL schema exists
    dsViews     \* the views just rendered, or RsNone

dsVars == <<dsApp, dsGroups, dsSources, dsSchema, dsViews>>

Rank(word) == CHOOSE i \in DOMAIN DsWords : DsWords[i] = word
Precedes(a, b) ==
    \E i \in DOMAIN b :
        /\ \A j \in 1 .. i - 1 : j \in DOMAIN a /\ a[j] = b[j]
        /\ i \notin DOMAIN a \/ Rank(a[i]) < Rank(b[i])
SortedOn(entries, Keys(_)) ==
    SortSeq(entries, LAMBDA a, b :
        \E k \in DOMAIN Keys(a) : /\ \A j \in 1 .. k - 1 : Keys(a)[j] = Keys(b)[j]
                                  /\ Precedes(Keys(a)[k], Keys(b)[k]))
ByPath(e) == <<e.path, <<e.method>>>>
ByMethod(e) == <<<<e.method>>, e.path>>

Group(source, entries, sections) ==
    [source |-> source, entries |-> entries, sections |-> sections]
NoGroup(source) == Group(source, <<>>, <<>>)
Entry(method, path, controller, handler, inputs) ==
    [method |-> method, path |-> path, controller |-> controller, handler |-> handler,
     inputs |-> inputs, marked |-> FALSE]

-----------------------------------------------------------------------------
(* REST controllers.                                                       *)
FullPath(route) == SelectSeq(route.prefix \o route.path, LAMBDA word : word # "")
ScanHttpRoutes(routes) == SelectSeq(routes, LAMBDA r : r.method # RsNone)
PathParamNames(path) == Unique(SelectSeq(path, LAMBDA word : word \in DsPathParams))
PushName(names, name) ==
    IF name = RsNone \/ Len(names) >= DsMaxNames \/ Contains(names, name) THEN names
    ELSE Append(names, name)

(* A body or query class: class-validator's metadata, one per rule.        *)
ValidatedProperties(metas) ==
    LET names == Unique([i \in DOMAIN metas |-> metas[i].property])
        of(name) == SelectSeq(metas, LAMBDA x : x.property = name)
        rules(name) == SelectSeq(of(name), LAMBDA x : ~x.conditional)
    IN  [i \in DOMAIN names |->
            [name |-> names[i], optional |-> Len(rules(names[i])) < Len(of(names[i])),
             rules |-> Unique([j \in DOMAIN rules(names[i]) |-> rules(names[i])[j].rule])]]
DescribeDto(metas) ==
    LET properties == IF dsApp.validator THEN ValidatedProperties(metas) ELSE <<>>
    IN  SubSeq(properties, 1, IF Len(properties) > DsMaxNames THEN DsMaxNames ELSE Len(properties))
QueryNames(args) ==
    FoldLeft(LAMBDA names, arg :
                 IF arg.kind # "query" THEN names
                 ELSE IF arg.data # RsNone THEN PushName(names, arg.data)
                 ELSE IF arg.dto = RsNone THEN names
                 ELSE FoldLeft(LAMBDA kept, p : PushName(kept, p.name), names,
                               DescribeDto(arg.dto)),
             <<>>, args)
HeaderNames(args) ==
    FoldLeft(LAMBDA names, arg : IF arg.kind = "headers" THEN PushName(names, arg.data) ELSE names,
             <<>>, args)
BodyOf(args) ==
    LET bodies == SelectSeq(args, LAMBDA arg : arg.kind = "body" /\ arg.dto # RsNone)
    IN  IF bodies = <<>> THEN <<>> ELSE DescribeDto(bodies[1].dto)
DescribeHandlerParams(route) ==
    [params |-> PathParamNames(FullPath(route)), query |-> QueryNames(route.args),
     headers |-> HeaderNames(route.args), body |-> BodyOf(route.args),
     guards |-> Unique(SelectSeq(route.guards, LAMBDA g : g # RsNone))]
HttpGroup ==
    LET own(r) == FullPath(r) = <<>> \/ FullPath(r)[1] # "_profiler"
        found == SelectSeq(ScanHttpRoutes(dsApp.routes), own)
        entries == [i \in DOMAIN found |->
                      Entry(found[i].method, FullPath(found[i]), found[i].class,
                            found[i].handler, DescribeHandlerParams(found[i]))]
    IN  Group("http", SortedOn(entries, ByPath), <<>>)

(* Commands: positional arguments, whose description is found by           *)
(* substring, and the options, each of its flags once.                     *)
CommandArguments(command) ==
    [i \in DOMAIN command.arguments |->
        LET token == command.arguments[i]
            keys == SelectSeq(command.described, LAMBDA key : key \in token.holds)
        IN  [name |-> token.name, required |-> token.required,
             description |-> IF keys = <<>> THEN RsNone ELSE keys[1]]]
CommandOptions(command) == Unique(SelectSeq(command.flags, LAMBDA f : f \notin {RsNone, RsEmpty}))
CommandGroup ==
    LET entry(c) == Entry("command", <<IF c.name = RsNone THEN c.class ELSE c.name>>, c.class, "run",
                          [arguments |-> CommandArguments(c), options |-> CommandOptions(c)])
    IN  Group("command", SortedOn([i \in DOMAIN dsApp.commands |-> entry(dsApp.commands[i])],
                                  LAMBDA e : <<e.path>>), <<>>)

(* Event listeners of providers and controllers: one per class, method and *)
(* event; an alias or an instance of the request's own scope has none.     *)
ListenersFound(holders) ==
    LET static == SelectSeq(holders, LAMBDA h : ~h.alias /\ ~h.perRequest)
        all == FlattenSeq([i \in DOMAIN static |->
                  [j \in DOMAIN static[i].listens |-> static[i].listens[j] @@ ("class" :> static[i].class)]])
        same(a, b) == a.class = b.class /\ a.method = b.method /\ a.event = b.event
    IN  FoldLeft(LAMBDA kept, l : IF \E i \in DOMAIN kept : same(kept[i], l) THEN kept
                                  ELSE Append(kept, l), <<>>, all)
EventGroup ==
    LET found == ListenersFound(dsApp.holders)
        entry(l) == Entry("on", <<l.event>>, l.class, l.method, [options |-> l.options])
    IN  Group("event", SortedOn([i \in DOMAIN found |-> entry(found[i])],
                                LAMBDA e : <<e.path, <<e.controller>>, <<e.handler>>>>), <<>>)

(* RabbitMQ: each registration of each handler, above it the topology.     *)
HandlerEntries(handler, connections) ==
    LET resolved == ResolveSubscriptions(handler.config, connections)
        entry(r) == [Entry(IF At(r.config, "type") = RsNone THEN "subscribe" ELSE r.config.type,
                           Locator(r.config), handler.class, handler.method,
                           DescribeSubscription(r.config, r.connection))
                       EXCEPT !.marked = ~r.registered]
    IN  [i \in DOMAIN resolved |-> entry(resolved[i])]
RabbitGroup ==
    LET connections == DiscoverConnections(dsApp.connections)
        entries == FlattenSeq([i \in DOMAIN dsApp.handlers |->
                                 HandlerEntries(dsApp.handlers[i], connections)])
    IN  Group("rabbitmq", SortedOn(entries, ByPath), DescribeTopology(connections))

(* GraphQL: nothing until the schema exists, and then kept.                *)
SchemaFields ==
    LET entry(f) == Entry(f.operation, <<f.field>>, f.operation, f.field, f.arguments)
    IN  SortedOn([i \in DOMAIN dsApp.fields |-> entry(dsApp.fields[i])], ByMethod)
Read(source) == IF dsSchema THEN Group(source, SchemaFields, <<>>) ELSE NoGroup(source)
Kept(group) == IF dsSchema THEN group ELSE RsNone

-----------------------------------------------------------------------------
DsStart(app) ==
    /\ dsApp = app
    /\ dsGroups = [s \in BuiltinSources |-> IF s = "graphql" THEN RsNone ELSE NoGroup(s)]
    /\ dsSources = <<>> /\ dsSchema = FALSE /\ dsViews = RsNone

DsInit == \E app \in DsApps : DsStart(app)

RegisterDiscoverSource(source) ==
    IF ~dsApp.core \/ Contains(dsSources, source) THEN dsSources ELSE Append(dsSources, source)

(* onApplicationBootstrap of one source; it may run again.                 *)
BootstrapSource(source) ==
    LET found == CASE source = "http" -> HttpGroup
                   [] source = "command" -> CommandGroup
                   [] source = "event" -> EventGroup
                   [] source = "rabbitmq" -> RabbitGroup
    IN  /\ dsGroups' = [dsGroups EXCEPT ![source] = found]
        /\ dsSources' = RegisterDiscoverSource(source)
        /\ dsViews' = RsNone
        /\ UNCHANGED <<dsApp, dsSchema>>

(* onModuleInit of the GraphQL package; an application's own registration. *)
Register(source) ==
    /\ dsSources' = RegisterDiscoverSource(source)
    /\ dsViews' = RsNone
    /\ UNCHANGED <<dsApp, dsGroups, dsSchema>>

BuildSchema ==
    /\ dsApp.fields # <<>> /\ ~dsSchema
    /\ dsSchema' = TRUE /\ dsViews' = RsNone
    /\ UNCHANGED <<dsApp, dsGroups, dsSources>>

SectionItemCount(group) == FoldLeft(LAMBDA n, s : n + Len(s.items), 0, group.sections)
(* A source's groups; a source that throws has none.                       *)
Collected(source) ==
    CASE source = "custom"  -> dsApp.custom
      [] source = "graphql" -> <<IF dsGroups[source] # RsNone THEN dsGroups[source] ELSE Read(source)>>
      [] OTHER              -> <<dsGroups[source]>>
HttpFirst(a, b) ==
    IF a.source = "http" \/ b.source = "http" THEN a.source = "http" /\ b.source # "http"
    ELSE Rank(a.source) < Rank(b.source)
CollectGroups ==
    LET collected == FlattenSeq([i \in DOMAIN dsSources |->
                        IF Collected(dsSources[i]) = RsNone THEN <<>> ELSE Collected(dsSources[i])])
    IN  SortSeq(SelectSeq(collected, LAMBDA g : g.entries # <<>> \/ SectionItemCount(g) > 0), HttpFirst)
ExpandGlobalPanels(groups) ==
    [i \in DOMAIN groups |->
        [name |-> groups[i].source, group |-> groups[i],
         badge |-> IF groups[i].entries # <<>> THEN Len(groups[i].entries)
                   ELSE SectionItemCount(groups[i])]]

RenderHome ==
    /\ dsViews' = ExpandGlobalPanels(CollectGroups)
    /\ dsGroups' = IF Contains(dsSources, "graphql") /\ dsGroups["graphql"] = RsNone
                   THEN [dsGroups EXCEPT !["graphql"] = Kept(Read("graphql"))] ELSE dsGroups
    /\ UNCHANGED <<dsApp, dsSources, dsSchema>>

DsNext ==
    \/ \E source \in HookSources : BootstrapSource(source)
    \/ \E source \in {"graphql", "custom"} : Register(source)
    \/ BuildSchema \/ RenderHome

DsSpec == DsInit /\ [][DsNext]_dsVars

-----------------------------------------------------------------------------
DsTypeOK ==
    /\ dsApp \in DsApps /\ dsSchema \in BOOLEAN
    /\ ToSet(dsSources) \subseteq BuiltinSources \cup {"custom"}
    /\ Len(dsSources) = Cardinality(ToSet(dsSources))
    /\ DOMAIN dsGroups = BuiltinSources

(* What golevelup does with a handler, and how often, on one connection.   *)
Registrations(config, connection) ==
    LET key == IF At(config, "name") # RsNone THEN config.name ELSE connection.defaultHandler
    IN  IF At(config, "connection") \notin {RsNone, connection.name} THEN 0
        ELSE IF key = RsNone THEN 1
        ELSE IF key \notin DOMAIN connection.handlers THEN 0 ELSE Len(connection.handlers[key])

ShownOf(view, class, method) ==
    SelectSeq(view.group.entries, LAMBDA e : e.controller = class /\ e.handler = method)
HandlersShown(view) ==
    \A i \in DOMAIN dsApp.handlers :
        LET handler == dsApp.handlers[i]
            connections == DiscoverConnections(dsApp.connections)
            times(c, marked) ==
                Len(SelectSeq(ShownOf(view, handler.class, handler.method),
                              LAMBDA e : /\ At(e.inputs[1].items, "connection") = c.name
                                         /\ e.marked = marked))
        IN  /\ ShownOf(view, handler.class, handler.method) # <<>>
            /\ \A j \in DOMAIN connections :
                 LET c == connections[j]
                     asked == At(handler.config, "connection") \in {RsNone, c.name}
                 IN  /\ times(c, FALSE) = Registrations(handler.config, c)
                     /\ times(c, TRUE) = IF asked /\ times(c, FALSE) = 0 THEN 1 ELSE 0
TopologyShown(view) ==
    LET connections == DiscoverConnections(dsApp.connections)
        items(label) == FlattenSeq([i \in DOMAIN view.group.sections |->
                            IF view.group.sections[i].label = label
                            THEN view.group.sections[i].items ELSE <<>>])
        total(field) == FoldLeft(LAMBDA n, c : n + Len(c[field]), 0, connections)
    IN  /\ Len(items("Exchanges")) = total("exchanges")
        /\ Len(items("Queues")) = total("queues")
        /\ Len(items("Exchange bindings")) = total("bindings")
        /\ Len(items("Connections")) = Len(connections)
        /\ \A i \in DOMAIN items("Connections") : \A j \in DOMAIN items("Connections")[i].detail :
             items("Connections")[i].detail[j].secret \in {RsNone, "masked"}
Internal(route) ==
    route.method = RsNone \/ (FullPath(route) # <<>> /\ FullPath(route)[1] = "_profiler")
RoutesShown(view) ==
    \A i \in DOMAIN dsApp.routes :
        LET route == dsApp.routes[i]
            shown == ShownOf(view, route.class, route.handler)
            declared == {route.args[j].data : j \in {k \in DOMAIN route.args :
                            route.args[k].kind = "query"}} \ {RsNone}
        IN  IF Internal(route) THEN shown = <<>>
            ELSE /\ Len(shown) = 1
                 /\ \/ declared \subseteq ToSet(shown[1].inputs.query)
                    \/ Len(shown[1].inputs.query) = DsMaxNames
Listening == {dsApp.holders[i] : i \in DOMAIN dsApp.holders}
ListenersShown(view) ==
    \A h \in Listening : ~h.alias /\ ~h.perRequest =>
        \A i \in DOMAIN h.listens :
            \E j \in DOMAIN view.group.entries :
                LET e == view.group.entries[j]
                IN  e.controller = h.class /\ e.handler = h.listens[i].method
                    /\ e.path = <<h.listens[i].event>>

NothingToShow(source) ==
    CASE source = "http"     -> \A i \in DOMAIN dsApp.routes : Internal(dsApp.routes[i])
      [] source = "rabbitmq" -> dsApp.handlers = <<>> /\ DiscoverConnections(dsApp.connections) = <<>>
      [] source = "graphql"  -> ~dsSchema
      [] source = "command"  -> dsApp.commands = <<>>
      [] source = "event"    -> \A h \in Listening : h.alias \/ h.perRequest \/ h.listens = <<>>
ShowsAll(source, view) ==
    CASE source = "http"     -> RoutesShown(view)
      [] source = "rabbitmq" -> HandlersShown(view) /\ TopologyShown(view)
      [] source = "graphql"  -> view.badge = Len(dsApp.fields)
      [] source = "command"  -> view.badge = Len(dsApp.commands)
      [] source = "event"    -> ListenersShown(view)

(* The home page shows the application's whole surface: each registered    *)
(* source with something to show is one view, HTTP first and the others by *)
(* label, whatever order the hooks ran in and whichever source threw; no   *)
(* handler is lost between the scan and the views, each RabbitMQ handler   *)
(* appears once per registration golevelup performs on each connection or  *)
(* once as not registered, broker credentials never appear, and a schema   *)
(* that came after the first page is on the next (routes.collector.ts,     *)
(* rabbitmq-discover-source.ts, graphql-discover-source.ts).               *)
EveryHandlerIsShown ==
    dsViews # RsNone =>
        /\ \A i \in DOMAIN dsViews : dsViews[i].badge > 0
        /\ \A i, j \in DOMAIN dsViews : i < j =>
             /\ dsViews[j].name # "http"
             /\ dsViews[i].name = "http" \/ Rank(dsViews[i].name) <= Rank(dsViews[j].name)
        /\ \A source \in ToSet(dsSources) \ {"custom"} :
             LET view == SelectSeq(dsViews, LAMBDA v : v.name = source)
             IN  /\ Len(view) = IF NothingToShow(source) THEN 0 ELSE 1
                 /\ view # <<>> => ShowsAll(source, view[1])
=============================================================================

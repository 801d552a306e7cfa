------------------------------- MODULE ListQuery -------------------------------
(***************************************************************************)
(* The list's filters, from the query string to the rows: each kind of     *)
(* entrypoint brings its filters and the attributes they test              *)
(* (list-filters/builtin-filters.ts, the packages' *-entrypoint.ts), the   *)
(* controller parses and translates them (list-filter.utils.ts,            *)
(* profiler.controller.ts), and a store answers the query over summaries   *)
(* (storage/profile-summary.ts): in memory (storage/profiler-query.ts) or  *)
(* as SQL (storage/sqlite/sqlite-storage.adapter.ts), a count and then a   *)
(* page, between which profiles come and go.                               *)
(*                                                                         *)
(* A text is a sequence of chunks; a chunk may be lowercased by JavaScript *)
(* and, if ASCII, by SQLite.  The chunk "_" stands for LIKE's wildcards.   *)
(***************************************************************************)
EXTENDS Naturals, Sequences, SequencesExt, FiniteSets, TLC

CONSTANTS
    LqProfiles,  \* profiles: [token, at, type, method, status, duration, tags, failures,
                 \* terms, data, custom]
    LqRequests,  \* requests for a section: [section, params: a set of [key, raw]]
    LqLower,     \* chunk -> its lower case
    LqForeign,   \* chunks SQLite's LOWER leaves alone
    LqTtl, LqPageSize,
    LqMaxRows, LqMaxTime,  \* bounds
    LqNone

ASSUME LqAssumption ==
    /\ LqTtl \in Nat \ {0} /\ LqPageSize \in Nat \ {0}
    /\ LqMaxRows \in Nat /\ LqMaxTime \in Nat

Text(chunks) == [is |-> "text", of |-> chunks]
Num(n) == [is |-> "number", of |-> n]
Truth(b) == [is |-> "boolean", of |-> b]
LowerCase(text) == [i \in DOMAIN text |-> LqLower[text[i]]]
SqlLower(text) == [i \in DOMAIN text |-> IF text[i] \in LqForeign THEN text[i] ELSE LqLower[text[i]]]
Occurs(part, text) ==
    \E i \in 0 .. Len(text) - Len(part) : \A j \in DOMAIN part : text[i + j] = part[j]

VARIABLES
    lqStore,   \* the stored profiles
    lqTime,    \* Date.now()
    lqQuery,   \* the query of the request at hand
    lqMemory,  \* its answer in memory
    lqSqlite,  \* ... and from SQLite
    lqOptions, \* a select filter's options: [key, section, memory, sqlite]
    lqMoved    \* the store changed since the count

lqVars == <<lqStore, lqTime, lqQuery, lqMemory, lqSqlite, lqOptions, lqMoved>>

-----------------------------------------------------------------------------
(* The filters: how a raw value is parsed, the field tested and how.       *)
Filter(key, types, parse, field, op, dynamic) ==
    [key |-> key, types |-> types, parse |-> parse, field |-> field, op |-> op,
     dynamic |-> dynamic]

BuiltinFilters ==
    { Filter("q", LqNone, "lower", "search", "contains", FALSE),
      Filter("status", {"http", "graphql"}, "int", "statusCode", "eq", FALSE),
      Filter("statusClass", {"http", "graphql"}, "class", "statusCode", "range", FALSE),
      Filter("minDuration", LqNone, "int", "duration", "gte", FALSE),
      Filter("maxDuration", LqNone, "int", "duration", "lte", FALSE),
      Filter("tag", LqNone, "tag", "tags", "contains", FALSE),
      Filter("exception", LqNone, "text", "exception", "eq", TRUE),
      Filter("error", LqNone, "box", "tags", "contains", FALSE) }
HttpFilters == {Filter("method", {"http"}, "text", "method", "eq", FALSE)}
GraphqlFilters == {Filter("operationType", {"graphql"}, "text", "operationType", "eq", FALSE)}
RabbitFilters ==
    { Filter("redelivered", {"rabbitmq"}, "choice", "redelivered", "eq", FALSE),
      Filter("exchange", {"rabbitmq"}, "text", "exchange", "eq", TRUE),
      Filter("handler", {"rabbitmq"}, "text", "handler", "eq", TRUE),
      Filter("routingKey", {"rabbitmq"}, "lower", "routingKey", "contains", FALSE) }
AiFilters ==
    { Filter("aiModel", {"ai"}, "text", "aiModel", "eq", TRUE),
      Filter("aiAgent", {"ai"}, "text", "aiAgent", "eq", TRUE) }
EventFilters ==
    { Filter("eventStatus", {"event"}, "choice", "success", "eq", FALSE),
      Filter("eventName", {"event"}, "text", "event", "eq", TRUE) }
CommandFilters == {Filter("commandStatus", {"command"}, "choice", "success", "eq", FALSE)}

ListFilters ==
    UNION {BuiltinFilters, HttpFilters, GraphqlFilters, RabbitFilters, AiFilters, EventFilters,
           CommandFilters}
LqSections == {"http", "graphql", "rabbitmq", "ai", "event", "command"}
HiddenFilters(section) == IF section \in {"event", "command"} THEN {"error"} ELSE {}
AppliesTo(f, section) ==
    f.key \notin HiddenFilters(section) /\ (f.types # LqNone => section \in f.types)
FilterOf(key) == CHOOSE f \in ListFilters : f.key = key

(* A raw value: [text, int] where int is what parseInt reads, if anything; *)
(* `chosen` is the first of a choice's two options.                        *)
ErrorTag == <<"error">>
Wrapped(tag) == <<" ">> \o tag \o <<" ">>
ParseFilter(f, raw) ==
    CASE raw.text = <<>> -> LqNone
      [] f.parse = "lower" -> Text(LowerCase(raw.text))
      [] f.parse = "text" -> Text(raw.text)
      [] f.parse = "tag" -> Text(Wrapped(raw.text))
      [] f.parse = "box" -> Text(Wrapped(ErrorTag))
      [] f.parse = "choice" -> Truth(raw.chosen)
      [] f.parse = "int" -> IF raw.int = LqNone THEN LqNone ELSE Num(raw.int)
      [] f.parse = "class" -> IF raw.int \in 1 .. 5 THEN Num(raw.int) ELSE LqNone
Criterion(f, value) ==
    [field |-> f.field, op |-> f.op,
     value |-> IF f.parse = "class" THEN <<value.of * 100, value.of * 100 + 99>> ELSE value]
(* parseFilterValues, buildCriteria: over the filters of the section.      *)
Criteria(section, params) ==
    {Criterion(f, ParseFilter(f, r.raw)) :
        <<f, r>> \in {<<f, r>> \in ListFilters \X params :
                        r.key = f.key /\ AppliesTo(f, section) /\ ParseFilter(f, r.raw) # LqNone}}

-----------------------------------------------------------------------------
(* The summary of a profile.                                               *)
Unhandled1(p) == SelectSeq(p.failures, LAMBDA e : ~e.handled)
TagHaystack(p) ==
    IF p.tags = <<>> THEN <<>>
    ELSE FlattenSeq([i \in DOMAIN p.tags |-> <<" ">> \o p.tags[i]]) \o <<" ">>
SearchHaystack(p) ==
    LowerCase(Tail(FlattenSeq([i \in DOMAIN p.terms |-> <<" ">> \o p.terms[i]])))

GraphqlAttributes(p) == "operationType" :> Text(p.data.operationType)
DefaultExchange == <<"(default)">>
RabbitAttributes(p) ==
    [redelivered |-> Truth(p.data.redelivered),
     exchange |-> Text(IF p.data.exchange = <<>> THEN DefaultExchange ELSE p.data.exchange),
     handler |-> Text(p.data.handler), routingKey |-> Text(LowerCase(p.data.routingKey))]
AiAttributes(p) ==
    ("aiModel" :> Text(IF p.data.models = <<>> THEN <<"unknown">> ELSE p.data.models[1]))
    @@ (IF p.data.agent = LqNone THEN <<>> ELSE "aiAgent" :> Text(p.data.agent))
EventAttributes(p) == [success |-> Truth(p.data.success), event |-> Text(p.data.event)]
CommandAttributes(p) == "success" :> Truth(p.data.success)
KindAttributes(p) ==
    CASE p.type = "graphql" -> GraphqlAttributes(p)
      [] p.type = "rabbitmq" -> RabbitAttributes(p)
      [] p.type = "ai" -> AiAttributes(p)
      [] p.type = "event" -> EventAttributes(p)
      [] p.type = "command" -> CommandAttributes(p)
      [] OTHER -> <<>>
(* getIndexAttributes: the kind's own win, the application's come last.    *)
IndexAttributes(p) ==
    KindAttributes(p)
    @@ (IF Unhandled1(p) = <<>> THEN <<>> ELSE "exception" :> Text(Unhandled1(p)[1].name))
    @@ p.custom

Summarize(p) ==
    IndexAttributes(p)
    @@ [method |-> IF p.method = LqNone THEN LqNone ELSE Text(p.method),
        statusCode |-> IF p.status = LqNone THEN LqNone ELSE Num(p.status),
        duration |-> Num(IF p.duration = LqNone THEN 0 ELSE p.duration),
        tags |-> Text(TagHaystack(p)), search |-> Text(SearchHaystack(p))]
ResolveField(p, field) ==
    LET summary == Summarize(p)
    IN  IF field \in DOMAIN summary THEN summary[field] ELSE LqNone

-----------------------------------------------------------------------------
(* In memory.                                                              *)
MatchesCriterion(p, c) ==
    LET actual == ResolveField(p, c.field)
    IN  /\ actual # LqNone
        /\ CASE c.op = "eq" ->
                  IF actual.is = "text" /\ c.value.is = "text"
                  THEN LowerCase(actual.of) = LowerCase(c.value.of)
                  ELSE actual = c.value
             [] c.op = "gte" -> actual.is = "number" /\ actual.of >= c.value.of
             [] c.op = "lte" -> actual.is = "number" /\ actual.of <= c.value.of
             [] c.op = "range" -> actual.is = "number" /\ actual.of \in c.value[1] .. c.value[2]
             [] c.op = "contains" ->
                  actual.is = "text" /\ Occurs(LowerCase(c.value.of), LowerCase(actual.of))

(* As SQL: booleans are stored as 0 and 1, a text is greater than any      *)
(* number, NULL is in no comparison, LIKE ignores ASCII case.              *)
Stored(v) == IF v.is = "boolean" THEN Num(IF v.of THEN 1 ELSE 0) ELSE v
AsText(v) == IF v.is = "text" THEN SqlLower(v.of) ELSE <<ToString(v.of)>>
LikePatternUnescaped(text) ==
    [i \in DOMAIN text |-> [chunk |-> LqLower[text[i]], any |-> text[i] = "_"]]
LikePattern(text) == [i \in DOMAIN text |-> [chunk |-> LqLower[text[i]], any |-> FALSE]]
Like(text, pattern) ==
    \E i \in 0 .. Len(text) - Len(pattern) :
        \A j \in DOMAIN pattern : pattern[j].any \/ text[i + j] = pattern[j].chunk
CriterionSql(p, c) ==
    LET value == ResolveField(p, c.field)
        column == Stored(value)
    IN  /\ value # LqNone
        /\ CASE c.op = "eq" ->
                  IF c.value.is = "text" THEN AsText(column) = SqlLower(c.value.of)
                  ELSE column = Stored(c.value)
             [] c.op = "gte" -> column.is = "text" \/ column.of >= c.value.of
             [] c.op = "lte" -> column.is # "text" /\ column.of <= c.value.of
             [] c.op = "range" -> column.is # "text" /\ column.of \in c.value[1] .. c.value[2]
             [] c.op = "contains" -> Like(AsText(column), LikePattern(c.value.of))

(* A profile is dropped once it is as old as the time to live, in memory   *)
(* and from files; SQLite still answers with it at that millisecond.       *)
InMemory == "memory"
InSqlite == "sqlite"
LiveAt(p, time, store) ==
    IF store = InSqlite THEN p.at >= time - LqTtl ELSE time - p.at < LqTtl
OfSection(p, section) ==
    IF section = "http" THEN p.type \notin LqSections \ {"http"} ELSE p.type = section
MatchedInMemory(rows, query) ==
    {p \in rows : /\ LiveAt(p, query.cutoff, InMemory) /\ OfSection(p, query.section)
                  /\ \A c \in query.criteria : MatchesCriterion(p, c)}
MatchedInSql(rows, query) ==
    {p \in rows : /\ LiveAt(p, query.cutoff, InSqlite) /\ OfSection(p, query.section)
                  /\ \A c \in query.criteria : CriterionSql(p, c)}
(* Newest first, by token within a millisecond.                            *)
Newest(rows) ==
    SetToSortSeq(rows, LAMBDA a, b : a.at > b.at \/ (a.at = b.at /\ a.token > b.token))
Sliced(rows, page) ==
    SubSeq(Newest(rows), (page - 1) * LqPageSize + 1,
           IF page * LqPageSize < Cardinality(rows) THEN page * LqPageSize ELSE Cardinality(rows))
(* sectionTypeConstraint: the catch-all excludes types and includes none,  *)
(* so its options are not narrowed.                                        *)
OfferedBy(p, section, store) ==
    LiveAt(p, lqTime, store) /\ (section # "http" => OfSection(p, section))
Distinct(field, section, store) ==
    {ResolveField(p, field) : p \in {q \in lqStore : OfferedBy(q, section, store)}}
        \ {LqNone, Text(<<>>)}

-----------------------------------------------------------------------------
LqStart ==
    /\ lqStore = {} /\ lqTime = 0 /\ lqMoved = FALSE
    /\ lqQuery = LqNone /\ lqMemory = LqNone /\ lqSqlite = LqNone /\ lqOptions = LqNone

LqInit == LqStart

Counting == lqSqlite # LqNone /\ lqSqlite.items = LqNone

(* What a store is asked while a page is built: else the answer is out.    *)
Moved ==
    /\ IF Counting THEN lqMoved' = TRUE /\ UNCHANGED <<lqQuery, lqMemory, lqSqlite>>
       ELSE /\ lqMoved' = FALSE /\ lqQuery' = LqNone
            /\ lqMemory' = LqNone /\ lqSqlite' = LqNone
    /\ lqOptions' = LqNone

SaveRow ==
    /\ Cardinality(lqStore) < LqMaxRows
    /\ \E p \in {p \in LqProfiles : p.at = lqTime} :
         /\ ~ \E other \in lqStore : other.token = p.token
         /\ lqStore' = lqStore \cup {p}
    /\ Moved /\ UNCHANGED lqTime

LqTick ==
    /\ lqTime < LqMaxTime /\ lqTime' = lqTime + 1
    /\ Moved /\ UNCHANGED lqStore

(* buildSection: the query of one section, sent to either store; SQLite    *)
(* counts first, with the cut-off it keeps for the page.                   *)
AskSection ==
    /\ lqQuery = LqNone
    /\ \E request \in LqRequests, page \in 1 .. 2 :
         LET query == [section |-> request.section, params |-> request.params, page |-> page,
                       criteria |-> Criteria(request.section, request.params),
                       cutoff |-> lqTime]
             found == MatchedInMemory(lqStore, query)
         IN  /\ lqQuery' = query
             /\ lqMemory' = [total |-> Cardinality(found), items |-> Sliced(found, page)]
             /\ lqSqlite' = [total |-> Cardinality(MatchedInSql(lqStore, query)),
                             items |-> LqNone]
    /\ lqMoved' = FALSE /\ lqOptions' = LqNone
    /\ UNCHANGED <<lqStore, lqTime>>

FetchPage ==
    /\ Counting
    /\ lqSqlite' = [lqSqlite EXCEPT
                      !.items = Sliced(MatchedInSql(lqStore, lqQuery), lqQuery.page)]
    /\ UNCHANGED <<lqStore, lqTime, lqQuery, lqMemory, lqOptions, lqMoved>>

(* resolveFilterOptions: the values the section has seen.                  *)
OfferOptions ==
    /\ lqQuery = LqNone /\ lqOptions = LqNone /\ lqStore # {}
    /\ \E f \in ListFilters, section \in LqSections :
         /\ f.dynamic /\ AppliesTo(f, section)
         /\ lqOptions' = [key |-> f.key, section |-> section,
                          memory |-> Distinct(f.field, section, InMemory),
                          sqlite |-> {Stored(v) : v \in Distinct(f.field, section, InSqlite)}]
    /\ UNCHANGED <<lqStore, lqTime, lqQuery, lqMemory, lqSqlite, lqMoved>>

LqNext == SaveRow \/ LqTick \/ AskSection \/ FetchPage \/ OfferOptions

LqSpec == LqInit /\ [][LqNext]_lqVars

-----------------------------------------------------------------------------
LqTypeOK ==
    /\ lqStore \subseteq LqProfiles /\ Cardinality(lqStore) <= LqMaxRows
    /\ lqTime \in 0 .. LqMaxTime /\ lqMoved \in BOOLEAN
    /\ Counting => lqQuery # LqNone

(* What the label of each filter promises of a profile.                    *)
Names(key, raw, p) ==
    CASE key = "q" -> \E i \in DOMAIN p.terms : Occurs(LowerCase(raw.text), LowerCase(p.terms[i]))
      [] key = "status" -> raw.int # LqNone => p.status = raw.int
      [] key = "statusClass" -> raw.int \in 1 .. 5 => p.status # LqNone /\ p.status \div 100 = raw.int
      [] key = "minDuration" ->
           raw.int # LqNone => (IF p.duration = LqNone THEN 0 ELSE p.duration) >= raw.int
      [] key = "maxDuration" ->
           raw.int # LqNone => (IF p.duration = LqNone THEN 0 ELSE p.duration) <= raw.int
      [] key = "tag" -> \E i \in DOMAIN p.tags : p.tags[i] = raw.text
      [] key = "error" -> \E i \in DOMAIN p.tags : p.tags[i] = ErrorTag
      [] key = "exception" ->
           \E i \in DOMAIN p.failures :
               /\ ~p.failures[i].handled /\ \A j \in 1 .. i - 1 : p.failures[j].handled
               /\ LowerCase(p.failures[i].name) = LowerCase(raw.text)
      [] key = "method" -> p.method # LqNone /\ LowerCase(p.method) = LowerCase(raw.text)
      [] key = "operationType" -> LowerCase(p.data.operationType) = LowerCase(raw.text)
      [] key = "redelivered" -> p.data.redelivered = raw.chosen
      [] key = "routingKey" -> Occurs(LowerCase(raw.text), LowerCase(p.data.routingKey))
      [] key = "exchange" ->
           LowerCase(raw.text) = IF p.data.exchange = <<>> THEN DefaultExchange
                                 ELSE LowerCase(p.data.exchange)
      [] key = "aiModel" -> p.data.models # <<>> /\ LowerCase(p.data.models[1]) = LowerCase(raw.text)
      [] key \in {"eventStatus", "commandStatus"} -> p.data.success = raw.chosen

Named(store) ==
    {p \in lqStore :
        /\ LiveAt(p, lqQuery.cutoff, store) /\ OfSection(p, lqQuery.section)
        /\ \A r \in lqQuery.params :
             LET f == FilterOf(r.key)
             IN  AppliesTo(f, lqQuery.section) /\ r.raw.text # <<>> => Names(r.key, r.raw, p)}
Expiring(time) == {p \in lqStore : time - p.at = LqTtl}

(* A list shows the profiles its filters name, whichever store answers:    *)
(* each row on a page is one of them, and while nothing is saved in        *)
(* between the total counts them all, and both stores give the same page   *)
(* and total, unless a profile is in the very millisecond of its expiry.   *)
(* Every value a select filter offers, by either store, is carried by a    *)
(* stored profile, one of the section's own unless the section is the      *)
(* catch-all, and selects that profile again in both stores                *)
(* (profiler-query.ts matchesCriterion, sqlite-storage.adapter.ts          *)
(* criterionSql).                                                          *)
FiltersSelectWhatTheyName ==
    /\ lqSqlite # LqNone /\ lqSqlite.items # LqNone =>
         /\ Range(lqSqlite.items) \subseteq Named(InSqlite)
         /\ ~lqMoved => /\ lqSqlite.total = Cardinality(Named(InSqlite))
                        /\ lqMemory.total = Cardinality(Named(InMemory))
                        /\ Range(lqMemory.items) \subseteq Named(InMemory)
                        /\ lqSqlite # lqMemory => Named(InSqlite) \cap Expiring(lqQuery.cutoff) # {}
    /\ lqOptions # LqNone =>
         LET f == FilterOf(lqOptions.key)
         IN  /\ lqOptions.memory \subseteq lqOptions.sqlite
             /\ lqOptions.memory # lqOptions.sqlite => Expiring(lqTime) # {}
             /\ \A value \in lqOptions.sqlite : \E p \in lqStore :
                  /\ lqOptions.section # "http" => OfSection(p, lqOptions.section)
                  /\ LET c == Criterion(f, ParseFilter(f, [text |-> value.of, int |-> LqNone,
                                                           chosen |-> FALSE]))
                     IN  MatchesCriterion(p, c) /\ CriterionSql(p, c)
=============================================================================

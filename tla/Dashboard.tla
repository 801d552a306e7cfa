------------------------------ MODULE Dashboard ------------------------------
(***************************************************************************)
(* The dashboard: a page request passes the guard chain                    *)
(* (guards/profiler.guard.ts) and renders a section of the profile list or *)
(* a profile (controllers/profiler.controller.ts).  One page takes several *)
(* storage queries, and profiles are saved, evicted, cleared and expire    *)
(* between them.  The storage is the in-memory one, queried through the    *)
(* shared fallback (storage/memory-storage.adapter.ts, profiler-query.ts). *)
(***************************************************************************)
EXTENDS Naturals, Integers, Sequences, FiniteSets, FiniteSetsExt, SequencesExt

CONSTANTS
    DbProfiles,   \* token -> the entrypoint type and the trace id of the profile
    DbSections,   \* the registered list sections, in registration order
    DbCap,        \* maxProfiles, 0 for no cap
    DbTtl,        \* ttl, 0 to keep profiles for ever
    DbPageSize, DbTraceLimit,
    DbGuards,     \* bound: guards of the security option
    DbMaxTime, DbMaxPage, DbNone

ASSUME DbAssumption ==
    /\ DbCap \in Nat /\ DbTtl \in Nat /\ DbMaxTime \in Nat /\ DbGuards \in Nat
    /\ DbPageSize \in Nat \ {0} /\ DbTraceLimit \in Nat \ {0} /\ DbMaxPage \in Nat
    /\ \A t \in DOMAIN DbProfiles : t \in Nat /\ DOMAIN DbProfiles[t] = {"type", "trace"}
    /\ \A i \in DOMAIN DbSections :
         DOMAIN DbSections[i] = {"key", "types", "isDefault", "order"}

VARIABLES
    dbStore,   \* the Map of profiles, in insertion order
    dbNow,     \* the clock
    dbView,    \* the page being rendered
    dbTouched, \* ghost: the store changed, or a profile expired, since the page was asked for
    dbBooting  \* types whose package has not registered its section yet

dbVars == <<dbStore, dbNow, dbView, dbTouched, dbBooting>>

NoView == [stage |-> "idle"]
DbStart ==
    /\ dbStore = <<>> /\ dbNow = 0 /\ dbView = NoView /\ dbTouched = FALSE
    /\ dbBooting = {DbSections[i].key : i \in {j \in DOMAIN DbSections : ~DbSections[j].isDefault}}
DbInit == DbStart

-----------------------------------------------------------------------------
(* The sections.                                                           *)

(* registerEntrypointType: once per type, with its own section; the core   *)
(* seeds the default one.                                                  *)
RegisterEntrypointType(type) ==
    /\ type \in dbBooting /\ dbView = NoView
    /\ dbBooting' = dbBooting \ {type}
    /\ UNCHANGED <<dbStore, dbNow, dbView, dbTouched>>

Sections == {DbSections[i] : i \in {j \in DOMAIN DbSections : DbSections[j].key \notin dbBooting}}

(* sectionTypeConstraint: the default section is the catch-all of every    *)
(* type no other one claims.                                               *)
Claimed == UNION {s.types : s \in {x \in Sections : ~x.isDefault}}
InSection(section, type) == IF section.isDefault THEN type \notin Claimed ELSE type \in section.types

-----------------------------------------------------------------------------
(* The store.                                                              *)

Expired(profile) == DbTtl > 0 /\ dbNow - profile.created >= DbTtl

FindAll == Reverse(SelectSeq(dbStore, LAMBDA p : ~Expired(p)))

Holds(store, token) == \E i \in DOMAIN store : store[i].token = token
Without(store, token) == SelectSeq(store, LAMBDA p : p.token # token)

SavedUnbounded(store, profile) ==
    IF Holds(store, profile.token)
    THEN [i \in DOMAIN store |-> IF store[i].token = profile.token THEN profile ELSE store[i]]
    ELSE Append(store, profile)

(* save: a new token evicts the oldest entry once the map is full; a token *)
(* saved again keeps its place.                                            *)
SavedIn(store, profile) ==
    IF Holds(store, profile.token)
    THEN [i \in DOMAIN store |-> IF store[i].token = profile.token THEN profile ELSE store[i]]
    ELSE Append(IF DbCap > 0 /\ Len(store) >= DbCap THEN Tail(store) ELSE store, profile)

(* A profile is saved; the same one, failed in the end, is saved again.    *)
SaveProfile(token, failed) ==
    LET created == IF Holds(dbStore, token)
                   THEN (CHOOSE p \in Range(dbStore) : p.token = token).created ELSE dbNow
    IN  /\ dbStore' = SavedIn(dbStore, [token |-> token, created |-> created, failed |-> failed])
        /\ dbStore' # dbStore
        /\ dbTouched' = TRUE
        /\ UNCHANGED <<dbNow, dbView, dbBooting>>

ClearStore ==
    /\ dbStore # <<>> /\ dbStore' = <<>> /\ dbTouched' = TRUE
    /\ UNCHANGED <<dbNow, dbView, dbBooting>>

DbTick ==
    /\ dbNow < DbMaxTime /\ dbNow' = dbNow + 1
    /\ dbTouched' = (dbTouched \/ DbTtl > 0)
    /\ UNCHANGED <<dbStore, dbView, dbBooting>>

-----------------------------------------------------------------------------
(* Queries: a section, the `error` filter or none, a page.                 *)

MatchesQuery(profile, query) ==
    /\ InSection(query.section, DbProfiles[profile.token].type)
    /\ query.onlyFailed => profile.failed

(* selectPage: newest first, the token deciding between equals.            *)
Matched(query) ==
    SetToSortSeq({p \in Range(FindAll) : MatchesQuery(p, query)},
                 LAMBDA a, b : \/ a.created > b.created
                               \/ a.created = b.created /\ a.token > b.token)

FirstRowLate(page) == page * DbPageSize
FirstRow(page) == (page - 1) * DbPageSize

Page(query, page) ==
    SubSeq(Matched(query), FirstRow(page) + 1,
           Min({FirstRow(page) + DbPageSize, Len(Matched(query))}))

PageCount(total) == Max({1, (total + DbPageSize - 1) \div DbPageSize})

-----------------------------------------------------------------------------
(* Rendering.                                                              *)

(* A request for a page of a section; below 1 is page 1.                   *)
RequestPage(section, onlyFailed, page) ==
    /\ dbView = NoView
    /\ dbView' = [stage |-> "guard", guards |-> DbGuards, section |-> section,
                  onlyFailed |-> onlyFailed, page |-> Max({1, page}),
                  pageCount |-> 1, items |-> <<>>, total |-> 0, all |-> 0]
    /\ dbTouched' = FALSE
    /\ UNCHANGED <<dbStore, dbNow, dbBooting>>

(* canActivate: the predicate, then each guard; the first that denies ends *)
(* the request with a 401.                                                 *)
PassGuard(allowed) ==
    /\ dbView.stage = "guard"
    /\ dbView' = IF dbView.guards = 0 THEN [dbView EXCEPT !.stage = "query"]
                 ELSE IF allowed THEN [dbView EXCEPT !.guards = @ - 1]
                 ELSE NoView
    /\ UNCHANGED <<dbStore, dbNow, dbTouched, dbBooting>>

(* querySection's result; a filtered list takes one more query for the     *)
(* section's own total.                                                    *)
Resolved(view, page) ==
    LET total == Len(Matched(view))
    IN  [view EXCEPT !.page = page, !.items = Page(view, page), !.total = total,
                     !.all = IF view.onlyFailed THEN @ ELSE total,
                     !.stage = IF view.onlyFailed THEN "count" ELSE "shown"]

(* The page asked for; past the last one, the last one is queried instead. *)
QueryPage ==
    /\ dbView.stage = "query"
    /\ LET counted == [dbView EXCEPT !.pageCount = PageCount(Len(Matched(dbView)))]
       IN  dbView' = IF counted.page > counted.pageCount
                     THEN [counted EXCEPT !.stage = "clamp"]
                     ELSE Resolved(counted, counted.page)
    /\ UNCHANGED <<dbStore, dbNow, dbTouched, dbBooting>>

QueryLastPage ==
    /\ dbView.stage = "clamp"
    /\ dbView' = Resolved(dbView, dbView.pageCount)
    /\ UNCHANGED <<dbStore, dbNow, dbTouched, dbBooting>>

CountAll ==
    /\ dbView.stage = "count"
    /\ dbView' = [dbView EXCEPT !.stage = "shown",
                                !.all = Len(Matched([dbView EXCEPT !.onlyFailed = FALSE]))]
    /\ UNCHANGED <<dbStore, dbNow, dbTouched, dbBooting>>

(* findOne: an expired profile is removed on sight; then the profiles that *)
(* share the trace id are looked up, oldest first.                         *)
OpenProfile(token) ==
    /\ dbView = NoView /\ Holds(dbStore, token)
    /\ LET found == CHOOSE p \in Range(dbStore) : p.token = token
       IN  IF Expired(found)
           THEN dbStore' = Without(dbStore, token) /\ UNCHANGED <<dbView, dbTouched>>
           ELSE /\ dbView' = [stage |-> "trace", token |-> token]
                /\ dbTouched' = FALSE /\ UNCHANGED dbStore
    /\ UNCHANGED <<dbNow, dbBooting>>

FindTraceProfiles ==
    /\ dbView.stage = "trace"
    /\ LET sharing == SetToSortSeq({p \in Range(FindAll) :
                                      DbProfiles[p.token].trace = DbProfiles[dbView.token].trace},
                                   LAMBDA a, b : \/ a.created < b.created
                                                 \/ a.created = b.created /\ a.token < b.token)
           related == SubSeq(sharing, 1, Min({DbTraceLimit, Len(sharing)}))
       IN  dbView' = [stage |-> "detail", token |-> dbView.token,
                      trace |-> IF Len(related) > 1 THEN related ELSE <<>>]
    /\ UNCHANGED <<dbStore, dbNow, dbTouched, dbBooting>>

Respond ==
    /\ dbView.stage \in {"shown", "detail"}
    /\ dbView' = NoView
    /\ UNCHANGED <<dbStore, dbNow, dbTouched, dbBooting>>

DbNext ==
    \/ \E t \in dbBooting : RegisterEntrypointType(t)
    \/ \E t \in DOMAIN DbProfiles : OpenProfile(t) \/ \E failed \in BOOLEAN : SaveProfile(t, failed)
    \/ ClearStore \/ DbTick
    \/ \E s \in Sections, f \in BOOLEAN, n \in 0..DbMaxPage : RequestPage(s, f, n)
    \/ \E allowed \in BOOLEAN : PassGuard(allowed)
    \/ QueryPage \/ QueryLastPage \/ CountAll \/ FindTraceProfiles \/ Respond

DbSpec == DbInit /\ [][DbNext]_dbVars

-----------------------------------------------------------------------------
(* Types: what the variables may hold.                                     *)
DbTypeOK ==
    /\ dbNow \in 0..DbMaxTime /\ dbTouched \in BOOLEAN
    /\ \A i \in DOMAIN dbStore : dbStore[i].token \in DOMAIN DbProfiles
    /\ IsInjective([i \in DOMAIN dbStore |-> dbStore[i].token])
    /\ DbCap > 0 => Len(dbStore) <= DbCap
    /\ dbView.stage \in {"idle", "guard", "query", "clamp", "count", "shown", "trace", "detail"}

(* Walking the pages of the sections shows every live profile exactly once *)
(* - whatever their number, types and timestamps, and whichever packages   *)
(* have registered: the sections partition the profiles, and the pages of  *)
(* a section its profiles.                                                 *)
EveryProfileListedOnce ==
    \A p \in Range(FindAll) :
        \E section \in Sections :
            LET query == [section |-> section, onlyFailed |-> FALSE]
                shownAt == {n \in 1..PageCount(Len(Matched(query))) :
                              p \in Range(Page(query, n))}
            IN  /\ Cardinality(shownAt) = 1
                /\ \A other \in Sections \ {section} :
                     ~InSection(other, DbProfiles[p.token].type)

(* "Clamping an out-of-range page to the last page": a rendered list is    *)
(* what its filters ask for, newest first, on an existing page, and when   *)
(* nothing changed while it was rendered it is empty only if there is      *)
(* nothing to show, and its badge is no smaller than its filtered total.   *)
RenderedListIsAPage ==
    dbView.stage = "shown" =>
        /\ dbView.page \in 1..dbView.pageCount
        /\ Len(dbView.items) <= DbPageSize
        /\ \A i \in DOMAIN dbView.items : MatchesQuery(dbView.items[i], dbView)
        /\ \A i, j \in DOMAIN dbView.items : i < j => dbView.items[i].created >= dbView.items[j].created
        /\ ~dbTouched => /\ dbView.total > 0 => dbView.items # <<>>
                         /\ dbView.all >= dbView.total
=============================================================================

------------------------------ MODULE TraceTree ------------------------------
(***************************************************************************)
(* buildTrace (trace/build-trace.ts): the spans recorded by hand, the      *)
(* lifecycle phases (trace/build-lifecycle.ts) and what every contributor  *)
(* projects from its entries (trace/entries-to-spans.ts) become one tree,  *)
(* once per profile.  A reported parent is exact; a span that reports none *)
(* goes to the tightest container its start falls into; a last pass widens *)
(* every parent onto its children.                                         *)
(*                                                                         *)
(* Times count in units of EPSILON, the tolerance of the containment test. *)
(***************************************************************************)
EXTENDS Naturals, Integers, Sequences, FiniteSets, FiniteSetsExt, SequencesExt

CONSTANTS
    TtEntries,    \* what one producer reports: a set of entries
    TtMaxEntries, \* bound: entries of one profile
    TtMarks,      \* lifecycle marks: [guards, controller, validation]
    TtDurations,  \* profile.performance.duration, TtNone when it is not known
    TtNone

ASSUME TtAssumption ==
    /\ TtMaxEntries \in Nat
    /\ \A e \in TtEntries :
         /\ DOMAIN e = {"start", "duration", "container", "id", "parent"}
         /\ e.start \in Nat \cup {TtNone} /\ e.duration \in Nat /\ e.container \in BOOLEAN
         /\ e.id = TtNone \/ e.id > 2 * TtMaxEntries + 3
         /\ e.container => e.parent = TtNone   \* a container is placed by time
    /\ \A d \in TtDurations : d = TtNone \/ d \in Nat

VARIABLES
    ttEntries,   \* by contributor order: the entries, timed or not
    ttMarks, ttDuration,
    ttFailing,   \* the contributors that throw
    ttTrace      \* profile.trace, <<>> before buildTrace

ttVars == <<ttEntries, ttMarks, ttDuration, ttFailing, ttTrace>>

TtStart(entries, marks, duration, failing) ==
    /\ ttEntries = entries /\ ttMarks = marks /\ ttDuration = duration /\ ttFailing = failing
    /\ ttTrace = <<>>

TtInit == \E n \in 0..TtMaxEntries : \E entries \in [1..n -> TtEntries] :
            \E marks \in TtMarks, duration \in TtDurations :
              \E failing \in {{}, {n}} : TtStart(entries, marks, duration, failing)

-----------------------------------------------------------------------------
(* What is gathered.                                                       *)

Root == 0   \* ids of producers are numbers above any position
EndOf(span) == span.start + span.duration

(* buildLifecycleSpans: guards end where the controller begins, or with    *)
(* the request; a phase too short to measure is dropped.                   *)
LifecycleSpans(marks, duration) ==
    LET end == IF duration = TtNone THEN 0 ELSE duration
        phase(from, to) == [start |-> from, duration |-> to - from, container |-> FALSE,
                            id |-> TtNone, parent |-> TtNone]
        guards == IF marks.guards = TtNone THEN {}
                  ELSE {phase(marks.guards, IF marks.controller = TtNone THEN end
                                            ELSE marks.controller)}
        controller == IF marks.controller = TtNone THEN {} ELSE {phase(marks.controller, end)}
        validation == IF marks.validation = TtNone THEN {}
                      ELSE {phase(marks.validation[1], marks.validation[2])}
    IN  SetToSortSeq({p \in guards \cup controller \cup validation : p.duration > 0},
                     LAMBDA a, b : a.start < b.start)

(* entriesToSpans drops an entry nobody timed; a contributor that throws   *)
(* contributes nothing.  Each entry here is a contributor of its own.      *)
Gathered ==
    LifecycleSpans(ttMarks, ttDuration)
    \o SelectSeq([i \in DOMAIN ttEntries |->
                    IF i \in ttFailing THEN [ttEntries[i] EXCEPT !.start = TtNone]
                    ELSE ttEntries[i]],
                 LAMBDA e : e.start # TtNone)

(* An id a producer reports is kept unless it is taken; any other span is  *)
(* given one of its own.                                                   *)
Identified(raw) ==
    [i \in DOMAIN raw |->
       [raw[i] EXCEPT !.id =
          IF @ = TtNone \/ \E j \in 1..(i - 1) : raw[j].id = @ THEN i ELSE @]]

RootSpan(raw, duration) ==
    LET observed == Max({EndOf(raw[i]) : i \in DOMAIN raw} \cup {0})
    IN  [id |-> Root, start |-> 0, container |-> TRUE, parent |-> TtNone,
         duration |-> IF duration = TtNone THEN observed ELSE duration]

-----------------------------------------------------------------------------
(* Parenting.                                                              *)

(* byContainment: containers first, then by start, the longest first, in   *)
(* order of emission.                                                      *)
PlacedBefore(spans, i, j) ==
    LET a == spans[i]
        b == spans[j]
    IN  \/ a.container /\ ~b.container
        \/ /\ a.container = b.container
           /\ \/ a.start < b.start
              \/ a.start = b.start /\ a.duration > b.duration
              \/ a.start = b.start /\ a.duration = b.duration /\ i < j

(* contains: on the start alone, within the tolerance.                     *)
Encloses(parent, child) == parent.start - 1 <= child.start /\ child.start <= EndOf(parent) + 1

DescendsFrom(parents, id, ancestor) ==
    LET up[k \in 0..Cardinality(DOMAIN parents), x \in DOMAIN parents \cup {Root}] ==
          \/ x = ancestor
          \/ k > 0 /\ x \in DOMAIN parents /\ up[k - 1, parents[x]]
    IN  up[Cardinality(DOMAIN parents), id]

(* The tightest enclosing container; between equals the one that starts    *)
(* later, or the deeper one.                                               *)
Tighter(parents, candidate, best) ==
    \/ candidate.duration < best.duration
    \/ /\ candidate.duration = best.duration
       /\ candidate.start > best.start \/ DescendsFrom(parents, candidate.id, best.id)

InferredParent(parents, placed, span) ==
    LET enclosing == SelectSeq(placed, LAMBDA c : c.container /\ Encloses(c, span))
        better(best, c) == IF best = TtNone \/ Tighter(parents, c, best) THEN c ELSE best
        best == FoldLeft(better, TtNone, enclosing)
    IN  IF best = TtNone THEN Root ELSE best.id

ReportsParent(spans, span) ==
    /\ span.parent \notin {TtNone, span.id}
    /\ \E i \in DOMAIN spans : spans[i].id = span.parent

(* id -> parent id, span after span in placing order.                      *)
Parents(spans, root) ==
    LET order == SetToSortSeq(DOMAIN spans, LAMBDA i, j : PlacedBefore(spans, i, j))
        place(acc, i) ==
          LET parent == IF ReportsParent(spans, spans[i]) THEN spans[i].parent
                        ELSE InferredParent(acc.parents, acc.placed, spans[i])
          IN  [parents |-> [x \in DOMAIN acc.parents \cup {spans[i].id} |->
                              IF x = spans[i].id THEN parent ELSE acc.parents[x]],
               placed |-> Append(acc.placed, spans[i])]
    IN  FoldLeft(place, [parents |-> <<>>, placed |-> <<root>>], order).parents

-----------------------------------------------------------------------------
(* reconcileWindows: the deepest first, each span widens its parent.       *)

DepthIn(parents, id) ==
    LET up[k \in 0..Cardinality(DOMAIN parents), x \in DOMAIN parents \cup {Root}] ==
          IF k = 0 \/ x \notin DOMAIN parents THEN 0 ELSE 1 + up[k - 1, parents[x]]
    IN  up[Cardinality(DOMAIN parents), id]

AsGathered(parents, spans) == spans

DeepestFirst(parents, spans) ==
    SortSeq(spans, LAMBDA a, b : DepthIn(parents, a.id) > DepthIn(parents, b.id))

Reconciled(parents, spans) ==
    LET window == [x \in {spans[i].id : i \in DOMAIN spans} |->
                     LET s == CHOOSE s \in Range(spans) : s.id = x
                     IN  [start |-> s.start, end |-> EndOf(s)]]
        widen(w, span) ==
          IF span.id = Root THEN w
          ELSE LET p == parents[span.id]
               IN  [w EXCEPT ![p] = [start |-> Min({@.start, w[span.id].start}),
                                     end |-> Max({@.end, w[span.id].end})]]
    IN  FoldLeft(widen, window, DeepestFirst(parents, spans))

(* buildTrace, once, after the collectors and before the save: the root,   *)
(* then the spans in order of their starts.                                *)
BuildTrace ==
    /\ ttTrace = <<>>
    /\ LET spans == Identified(Gathered)
           root == RootSpan(Gathered, ttDuration)
           parents == Parents(spans, root)
           window == Reconciled(parents, <<root>> \o spans)
           order == SetToSortSeq(DOMAIN spans, LAMBDA i, j :
                      \/ spans[i].start < spans[j].start
                      \/ spans[i].start = spans[j].start /\ i < j)
           drawn(span, parent) == [id |-> span.id, parent |-> parent,
                                   start |-> window[span.id].start, end |-> window[span.id].end]
       IN  ttTrace' = <<drawn(root, TtNone)>>
                      \o [k \in DOMAIN order |-> drawn(spans[order[k]], parents[spans[order[k]].id])]
    /\ UNCHANGED <<ttEntries, ttMarks, ttDuration, ttFailing>>

TtNext == BuildTrace

TtSpec == TtInit /\ [][TtNext]_ttVars

-----------------------------------------------------------------------------
(* Types: what the variables may hold.                                     *)
TtTypeOK ==
    /\ \A i \in DOMAIN ttEntries : ttEntries[i] \in TtEntries
    /\ ttMarks \in TtMarks /\ ttDuration \in TtDurations
    /\ ttFailing \subseteq DOMAIN ttEntries \cup {0}
    /\ \A i \in DOMAIN ttTrace : ttTrace[i].start <= ttTrace[i].end

(* "Causally-nested": whatever the producers report, every timed span of a *)
(* contributor that did not throw is in the trace once, under an id of its *)
(* own, hangs from the root through parents that exist, under the parent   *)
(* it reported when that one is known, and "every parent's window covers   *)
(* its children's", so no bar is longer than the one it hangs from.        *)
TraceIsOneTree ==
    ttTrace # <<>> =>
      LET ids == {ttTrace[i].id : i \in DOMAIN ttTrace}
          parentOf == [x \in ids \ {Root} |-> (CHOOSE s \in Range(ttTrace) : s.id = x).parent]
      IN  /\ Cardinality(ids) = Len(ttTrace) /\ Len(ttTrace) = Len(Gathered) + 1
          /\ Range(parentOf) \subseteq ids
          /\ \A x \in ids : DescendsFrom(parentOf, x, Root)
          /\ \A i \in DOMAIN ttTrace, j \in DOMAIN ttTrace :
               ttTrace[i].parent = ttTrace[j].id =>
                 ttTrace[j].start <= ttTrace[i].start /\ ttTrace[i].end <= ttTrace[j].end
          /\ \A e \in Range(Gathered) :
               e.id \in ids /\ e.parent \in ids \ {e.id} =>
                 \E s \in Range(ttTrace) : s.parent = e.parent
=============================================================================

--------------------------- MODULE PerformanceRules ---------------------------
(***************************************************************************)
(* The analysis pass (analysis/profiler-analyzer.ts): the built-in rules   *)
(* and the host's own run once over what the taggable collectors hold,     *)
(* each isolated from the others' failures, and the tags they leave are    *)
(* aggregated, one per id, on profile.tags.  The failure verdict comes     *)
(* from the layered classifiers of analysis/profiler-error.ts.             *)
(*                                                                         *)
(* Labels, details and sizes in words are left out; a fingerprint and a    *)
(* payload size are values of the entry.                                   *)
(***************************************************************************)
EXTENDS Naturals, Sequences, FiniteSets, SequencesExt

CONSTANTS
    RuProfiles,  \* profiles: their collectors in order, and what the kind's classifier reads
    RuCustom,    \* what a host's rule does: the tags it gives, whether it throws after them
    RuNone

ASSUME RuAssumption ==
    /\ \A p \in RuProfiles :
         /\ DOMAIN p = {"collectors", "classify", "status", "floor", "exceptions", "codes"}
         /\ p.classify \in {"none", "yes", "no", "throws"}
         /\ p.status \in Nat \cup {RuNone} /\ p.floor \in Nat \cup {RuNone}
         /\ \A c \in Range(p.collectors) :
              /\ c.taggable \in BOOLEAN /\ c.domain \in {"query", "http"}
              /\ {c.slow, c.nPlusOne, c.chatty, c.large, c.floor} \subseteq Nat \cup {RuNone}
              /\ \A e \in Range(c.entries) :
                   DOMAIN e = {"duration", "print", "classify", "error", "status", "size", "zero"}
    /\ \A r \in RuCustom :
         r.id \in STRING /\ r.severity \in 1 .. 3 /\ r.count \in Nat /\ r.throws \in BOOLEAN

VARIABLES
    ruProfile, ruCustom,
    ruRules,    \* the rules still to run
    ruGiven,    \* <<collector, entry>> -> its tags, a sequence
    ruOverall,  \* the tags given to the profile itself
    ruAsked,    \* history: every tag a rule asked for, with its target
    ruTags      \* profile.tags, RuNone before the pass ends

ruVars == <<ruProfile, ruCustom, ruRules, ruGiven, ruOverall, ruAsked, ruTags>>

BuiltinRules == <<"slow", "n-plus-one", "error", "chatty", "large-payload", "zero-rows">>

MoreOf(a, b) == IF a > b THEN a ELSE b

FirstTagWins(list, tag) ==
    IF \E i \in DOMAIN list : list[i].id = tag.id THEN list ELSE Append(list, tag)

(* One tag per id: the higher severity and the larger count are kept.      *)
(* A count of 0 stands for none.                                           *)
UpsertTag(list, tag) ==
    IF \E i \in DOMAIN list : list[i].id = tag.id
    THEN [i \in DOMAIN list |->
             IF list[i].id = tag.id
             THEN [id |-> tag.id, severity |-> MoreOf(list[i].severity, tag.severity),
                   count |-> MoreOf(list[i].count, tag.count)]
             ELSE list[i]]
    ELSE Append(list, tag)

-----------------------------------------------------------------------------
(* What the pass looks at: taggable collectors that hold entries.          *)
Analyzed(profile) ==
    {c \in DOMAIN profile.collectors :
        profile.collectors[c].taggable /\ profile.collectors[c].entries # <<>>}

Slots(profile) ==
    UNION {{<<c, i>> : i \in DOMAIN profile.collectors[c].entries} : c \in Analyzed(profile)}

(* Slots in the order the rules' loops meet them.                          *)
InOrder(slots) ==
    SetToSortSeq(slots, LAMBDA a, b : a[1] < b[1] \/ (a[1] = b[1] /\ a[2] < b[2]))

Matches(status, floor) == floor # RuNone /\ status # RuNone /\ status >= floor

(* resolveEntryErrorClassifier: the host's verdict, then the entry's own   *)
(* error, then its status.                                                 *)
EntryFails(e, floor) ==
    IF e.classify # "none" THEN e.classify = "yes"
    ELSE e.error \/ Matches(e.status, floor)

(* resolveProfileErrorClassifier: the first layer that applies decides; an *)
(* exception that was handled does not count, one without a code always    *)
(* does.                                                                   *)
ProfileFails(p) ==
    IF p.classify # "none" THEN p.classify = "yes"
    ELSE IF p.floor # RuNone /\ p.status # RuNone THEN p.status >= p.floor
    ELSE \E x \in p.exceptions :
            ~x.handled /\ (x.code = RuNone \/ p.codes = RuNone \/ x.code \in p.codes)

Unhandled(p) == Cardinality({x \in p.exceptions : ~x.handled})

Alike(c, i) == Cardinality({j \in DOMAIN c.entries : c.entries[j].print = c.entries[i].print})

Repeated(c, i) ==
    c.entries[i].print # RuNone /\ Alike(c, i) >= MoreOf(2, c.nPlusOne)

Tag(rule, severity, count) == [id |-> rule, severity |-> severity, count |-> count]

(* The tags a rule gives to an entry.                                      *)
EntryTags(rule, c, i) ==
    LET e == c.entries[i]
    IN  CASE rule = "slow" /\ e.duration >= c.slow -> {Tag(rule, 2, 0)}
          [] rule = "n-plus-one" /\ Repeated(c, i) -> {Tag(rule, 3, Alike(c, i))}
          [] rule = "error" /\ EntryFails(e, c.floor) -> {Tag(rule, 3, 0)}
          [] /\ rule = "large-payload" /\ c.domain = "http" /\ c.large \notin {RuNone, 0}
             /\ e.size >= c.large -> {Tag(rule, 2, e.size)}
          [] rule = "zero-rows" /\ c.domain = "query" /\ e.zero -> {Tag(rule, 2, 0)}
          [] OTHER -> {}

(* ... and to the profile, on its collectors' account or its own.          *)
ProfileTags(rule, p) ==
    CASE rule = "n-plus-one" ->
            {Tag(rule, 3, Alike(p.collectors[s[1]], s[2])) :
                s \in {t \in Slots(p) : Repeated(p.collectors[t[1]], t[2])}}
      [] rule = "chatty" ->
            {Tag(rule, 2, Len(p.collectors[c].entries)) :
                c \in {d \in Analyzed(p) :
                         Len(p.collectors[d].entries) >= p.collectors[d].chatty}}
      [] rule = "error" -> IF ProfileFails(p) THEN {Tag(rule, 3, Unhandled(p))} ELSE {}
      [] rule = "zero-rows" ->
            IF \E s \in Slots(p) :
                  EntryTags(rule, p.collectors[s[1]], s[2]) # {}
            THEN {Tag(rule, 2, 0)} ELSE {}
      [] OTHER -> {}

-----------------------------------------------------------------------------
RuStart(p, r) ==
    /\ ruProfile = p /\ ruCustom = r
    /\ ruRules = BuiltinRules \o <<"custom">>
    /\ ruGiven = [s \in Slots(p) |-> <<>>] /\ ruOverall = <<>>
    /\ ruAsked = {} /\ ruTags = RuNone

RuInit == \E p \in RuProfiles, r \in RuCustom : RuStart(p, r)

Give(slots, tagsOf(_), overall) ==
    /\ ruGiven' = [s \in DOMAIN ruGiven |->
                      IF s \in slots THEN FoldLeft(UpsertTag, ruGiven[s], SetToSeq(tagsOf(s)))
                      ELSE ruGiven[s]]
    /\ ruOverall' = FoldLeft(UpsertTag, ruOverall, SetToSeq(overall))
    /\ ruAsked' = ruAsked \cup overall \cup UNION {tagsOf(s) : s \in slots}
    /\ ruRules' = Tail(ruRules)
    /\ UNCHANGED <<ruProfile, ruCustom, ruTags>>

(* The slots a rule gets to before a classifier of the host throws: the    *)
(* loop is left there, what was tagged before stays.                       *)
Reached(rule, p) ==
    LET order == InOrder(Slots(p))
        fatal == {k \in DOMAIN order :
                    /\ rule = "error"
                    /\ p.collectors[order[k][1]].entries[order[k][2]].classify = "throws"}
    IN  {order[k] : k \in {n \in DOMAIN order : \A f \in fatal : n < f}}

Fails(rule, p) ==
    /\ rule = "error"
    /\ \/ p.classify = "throws"
       \/ Reached(rule, p) # Slots(p)

BuiltinRule ==
    /\ ruRules # <<>> /\ Head(ruRules) # "custom"
    /\ LET rule == Head(ruRules)
           TagsOf(s) == EntryTags(rule, ruProfile.collectors[s[1]], s[2])
       IN  Give(Reached(rule, ruProfile), TagsOf,
                IF Fails(rule, ruProfile) THEN {} ELSE ProfileTags(rule, ruProfile))

(* A host's rule tags every entry it sees and the profile, or throws after *)
(* its first entry; the analyzer logs it and goes on.                      *)
CustomRule ==
    /\ ruRules # <<>> /\ Head(ruRules) = "custom"
    /\ LET tag == Tag(ruCustom.id, ruCustom.severity, ruCustom.count)
           order == InOrder(DOMAIN ruGiven)
           TagsOf(s) == {tag}
       IN  Give(IF ruCustom.throws THEN {order[k] : k \in DOMAIN order \cap {1}}
                ELSE DOMAIN ruGiven,
                TagsOf, IF ruCustom.throws THEN {} ELSE {tag})

(* profile.tags: every entry's tags, then the profile's own.               *)
AggregateTags ==
    /\ ruRules = <<>> /\ ruTags = RuNone
    /\ LET lists == [k \in DOMAIN InOrder(DOMAIN ruGiven) |-> ruGiven[InOrder(DOMAIN ruGiven)[k]]]
       IN  ruTags' = FoldLeft(UpsertTag, <<>>, FlattenSeq(lists) \o ruOverall)
    /\ UNCHANGED <<ruProfile, ruCustom, ruRules, ruGiven, ruOverall, ruAsked>>

RuNext == BuiltinRule \/ CustomRule \/ AggregateTags

RuSpec == RuInit /\ [][RuNext]_ruVars

-----------------------------------------------------------------------------
(* Types: what the variables may hold.                                     *)
RuTypeOK ==
    /\ ruRules \in Seq({BuiltinRules[i] : i \in DOMAIN BuiltinRules} \cup {"custom"})
    /\ \A s \in DOMAIN ruGiven : \A i \in DOMAIN ruGiven[s] : ruGiven[s][i] \in ruAsked
                                    \/ ruGiven[s][i].id = ruCustom.id
    /\ ruTags = RuNone \/ Len(ruTags) <= 7

(* The list's pills, its filter and the header read profile.tags alone: it *)
(* carries each id once, for exactly the tags that were asked for anywhere,*)
(* at the worst severity and the largest count of them, whichever          *)
(* collector, entry or rule came first.  A rule that throws costs only its *)
(* own tags: what every other one gives is there.                          *)
TagsSummariseTheProfile ==
    ruTags # RuNone =>
        /\ {ruTags[i].id : i \in DOMAIN ruTags} = {t.id : t \in ruAsked}
        /\ \A i, j \in DOMAIN ruTags : ruTags[i].id = ruTags[j].id => i = j
        /\ \A i \in DOMAIN ruTags :
             LET same == {t \in ruAsked : t.id = ruTags[i].id}
             IN  /\ \A t \in same : t.severity <= ruTags[i].severity /\ t.count <= ruTags[i].count
                 /\ \E t \in same : t.severity = ruTags[i].severity
                 /\ \E t \in same : t.count = ruTags[i].count
        /\ \A k \in {n \in DOMAIN BuiltinRules : ~Fails(BuiltinRules[n], ruProfile)} :
             /\ ProfileTags(BuiltinRules[k], ruProfile) \subseteq ruAsked
             /\ \A s \in Slots(ruProfile) :
                  EntryTags(BuiltinRules[k], ruProfile.collectors[s[1]], s[2]) \subseteq ruAsked
=============================================================================

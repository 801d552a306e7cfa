----------------------------- MODULE CapturedData -----------------------------
(***************************************************************************)
(* What a captured value becomes before it is stored: toSafeData and       *)
(* normalizeBody (utils/safe-data.utils.ts) bound it and make it           *)
(* serialisable, redact (utils/redact.utils.ts) masks what its keys call   *)
(* secret, and captureBody, captureHeaders and the query redaction compose *)
(* them on the resolved configuration (utils/http-capture.util.ts,         *)
(* redact-headers.util.ts, redact-query.util.ts, redaction-config.ts).  A  *)
(* profile is stored by JSON.stringify, which throws on a BigInt or on a   *)
(* cycle and takes the whole profile with it.                              *)
(*                                                                         *)
(* A value is a rooted graph: an object refers to its members, twice or in *)
(* a circle if the program built it so.  What strings hold is left out:    *)
(* the value patterns of redactString change no shape.  A "map" is a Map   *)
(* with its keys, "pairs" the list of [key, value] toSafeData makes of it; *)
(* a "mask" is what redact writes, and "clear" a text in which a value     *)
(* that was under a secret key can be read.                                *)
(***************************************************************************)
EXTENDS Naturals, Sequences, FiniteSets

CONSTANTS
    CdValues,       \* values: [root, kind: node -> kind, next: node -> Seq([key, to])],
                    \* a node is a sequence of numbers
    CdRequests,     \* [headers, query]: sets of names a request carries
    CdSafeDepths,   \* bodyCaptureLimits.maxDepth, 0 for no cap
    CdItems,        \* maxItems
    CdMaxSize,      \* maxBodySize, in members
    CdRedactDepth,  \* redact's maxDepth
    CdDefaults,     \* the names the built-in lists hold
    CdNone

ASSUME CdAssumption ==
    /\ \A g \in CdValues :
         \A n \in DOMAIN g.kind : \A i \in DOMAIN g.next[n] :
             g.next[n][i].to \in DOMAIN g.kind /\ g.next[n][i].key \in {"plain", "secret"}
    /\ CdSafeDepths \subseteq Nat /\ CdRedactDepth \in Nat \ {0}
    /\ CdItems \in Nat /\ CdMaxSize \in Nat
    /\ \A d \in CdSafeDepths : d <= CdRedactDepth

Containers == {"object", "instance", "map", "pairs"}  \* "instance": one with a toJSON()

VARIABLES
    cdValue, cdRequest,
    cdConfig,   \* the redaction block: useDefaults and the names it adds; the depth cap
    cdBody,     \* the captured body
    cdLogged,   \* the same value as a log line's data
    cdBound,    \* ... and as a driver's parameters, redacted alone
    cdMasked,   \* the captured headers and query
    cdSaved     \* did JSON.stringify go through

cdVars == <<cdValue, cdRequest, cdConfig, cdBody, cdLogged, cdBound, cdMasked, cdSaved>>

-----------------------------------------------------------------------------
(* The walk both functions make.  A visit knows the way it came; a repeated*)
(* object on that way is circular.                                         *)
Top(g) == [path |-> <<>>, node |-> g.root, above |-> {}, depth |-> 0, masked |-> FALSE]

(* What the walk makes of the place it visits: text, a mask, itself,       *)
(* untouched, or opened.                                                   *)
Outcome(g, pass, v) ==
    LET kind == g.kind[v.node]
    IN  CASE v.masked -> "mask"
          [] ~v.masked /\ kind = "bigint" -> "text"
          [] ~v.masked /\ kind \notin Containers \cup {"bigint"} -> kind
          [] OTHER -> IF v.node \in v.above THEN "text"
                      ELSE IF pass.depth > 0 /\ v.depth >= pass.depth
                           THEN IF pass.raw THEN "raw" ELSE "text"
                      ELSE "open"

(* The members walked: the first maxItems of them; none of a Map where it  *)
(* counts as empty.                                                        *)
Members(g, pass, n) ==
    IF g.kind[n] = "map" /\ pass.maps = "empty" THEN {}
    ELSE IF pass.items = 0 THEN DOMAIN g.next[n] ELSE DOMAIN g.next[n] \cap 1 .. pass.items

(* How much deeper the members are: the pair counts.                       *)
Deeper(kind) == CASE kind = "instance" -> 0 [] kind = "pairs" -> 2 [] OTHER -> 1

Below(g, pass, v) ==
    {[path |-> Append(v.path, i), node |-> g.next[v.node][i].to,
      above |-> v.above \cup {v.node},
      depth |-> v.depth + Deeper(g.kind[v.node]),
      masked |-> pass.masks /\ g.next[v.node][i].key = "secret"]
        : i \in Members(g, pass, v.node)}

Visits(g, pass) ==
    LET level[n \in Nat] ==
          IF n = 0 THEN {Top(g)}
          ELSE UNION {Below(g, pass, v) : v \in {w \in level[n - 1] : Outcome(g, pass, w) = "open"}}
    IN  UNION {level[n] : n \in 0 .. Cardinality(DOMAIN g.kind) + 1}

(* What a walk makes of a container it opens, and of its keys: a Map is an *)
(* object to redact, and a list of pairs to toSafeData.                    *)
KindOf(kind, pass) == IF kind = "map" THEN pass.maps ELSE kind
KeyOf(kind, key, pass) == IF kind = "map" /\ pass.maps = "pairs" THEN "plain" ELSE key

(* The value a walk returns: its own copies, and below an object returned  *)
(* untouched the program's own.  A node is a sequence of numbers: <<0>> and*)
(* the path for a copy, <<1>> and the node for the program's.              *)
Walked(g, pass) ==
    LET visits == Visits(g, pass)
        At(p) == CHOOSE v \in visits : v.path = p
        copies == {<<0>> \o v.path : v \in visits}
        own == {<<1>> \o n : n \in DOMAIN g.kind}
        Out(x) == Outcome(g, pass, At(Tail(x)))
        Edges(n, Key(_), To(_)) ==
            [i \in DOMAIN g.next[n] |-> [key |-> Key(g.next[n][i].key), to |-> To(i)]]
        Same(n, To(_)) == Edges(n, LAMBDA key : key, To)
        Opened(n, To(_)) == Edges(n, LAMBDA key : KeyOf(g.kind[n], key, pass), To)
    IN  [root |-> <<0>>,
         kind |-> [x \in copies \cup own |->
                     IF x[1] = 1 THEN g.kind[Tail(x)]
                     ELSE IF Out(x) = "raw" THEN g.kind[At(Tail(x)).node]
                     ELSE IF Out(x) = "open" THEN KindOf(g.kind[At(Tail(x)).node], pass)
                     ELSE Out(x)],
         next |-> [x \in copies \cup own |->
                     IF x[1] = 1 THEN Same(Tail(x), LAMBDA i : <<1>> \o g.next[Tail(x)][i].to)
                     ELSE IF Out(x) = "raw"
                     THEN Same(At(Tail(x)).node,
                               LAMBDA i : <<1>> \o g.next[At(Tail(x)).node][i].to)
                     ELSE IF Out(x) = "open"
                     THEN SubSeq(Opened(At(Tail(x)).node, LAMBDA i : Append(x, i)), 1,
                                 Cardinality(Members(g, pass, At(Tail(x)).node)))
                     ELSE <<>>]]

SafePass(depth) ==
    [depth |-> depth, items |-> CdItems, masks |-> FALSE, raw |-> FALSE, maps |-> "pairs"]

SafeData(g, depth) == Walked(g, SafePass(depth))

Redacted(g) ==
    Walked(g, [depth |-> CdRedactDepth, items |-> 0, masks |-> TRUE, raw |-> TRUE,
               maps |-> "object"])

Held(g, maps) ==
    Visits(g, [depth |-> 0, items |-> 0, masks |-> FALSE, raw |-> FALSE, maps |-> maps])

(* What JSON.stringify meets in a value: a Map is {} to it.                *)
Met(g) == Held(g, "empty")

Stringifies(g) ==
    \A v \in Met(g) :
        /\ g.kind[v.node] # "bigint"
        /\ g.kind[v.node] \in Containers => v.node \notin v.above

(* Did anything that a walk keeps come from under a secret key?            *)
KeepsASecret(g, pass) ==
    \E v \in Visits(g, pass) :
        /\ Outcome(g, pass, v) = "open"
        /\ \E i \in Members(g, pass, v.node) : g.next[v.node][i].key = "secret"

(* The truncation marker: its preview is the start of the JSON text of the *)
(* value, which no key has masked yet.                                     *)
Truncated(preview) ==
    [root |-> <<0>>, kind |-> [n \in {<<0>>, <<1>>} |-> IF n = <<0>> THEN "object" ELSE preview],
     next |-> [n \in {<<0>>, <<1>>} |->
                 IF n = <<0>> THEN <<[key |-> "plain", to |-> <<1>>]>> ELSE <<>>]]

(* normalizeBody: bounded in depth and items, then replaced by the marker  *)
(* when what is left is still too long.                                    *)
NormalizeBody(g, depth) ==
    LET safe == SafeData(g, depth)
    IN  IF CdMaxSize > 0 /\ Cardinality(Met(safe)) > CdMaxSize
        THEN Truncated(IF KeepsASecret(g, SafePass(depth)) THEN "clear" ELSE "text")
        ELSE safe

(* captureBody: bounded first, redacted after.                             *)
CaptureBody(g, depth) == Redacted(NormalizeBody(g, depth))

MaskListReplaced(config) == IF config.adds # {} THEN config.adds ELSE CdDefaults

(* The names masked: the host's own on top of the built-in ones, which only*)
(* useDefaults: false drops.                                               *)
MaskList(config) == (IF config.useDefaults THEN CdDefaults ELSE {}) \cup config.adds

(* extractHeaders and redactQueryRecord: a listed name keeps its place, its*)
(* value does not; every other one is kept as it came.                     *)
Mask(names, config) == [n \in names |-> IF n \in MaskList(config) THEN "masked" ELSE "kept"]

-----------------------------------------------------------------------------
CdStart(value, request, config) ==
    /\ cdValue = value /\ cdRequest = request /\ cdConfig = config
    /\ cdBody = CdNone /\ cdLogged = CdNone /\ cdBound = CdNone /\ cdMasked = CdNone
    /\ cdSaved = CdNone

CdConfigs == [useDefaults : BOOLEAN, adds : SUBSET UNION {r.query : r \in CdRequests},
              depth : CdSafeDepths]

CdInit == \E value \in CdValues, request \in CdRequests, config \in CdConfigs :
            CdStart(value, request, config)

(* The capture of a request or a response.                                 *)
CaptureHttp ==
    /\ cdBody = CdNone /\ cdSaved = CdNone
    /\ cdBody' = CaptureBody(cdValue, cdConfig.depth)
    /\ cdMasked' = [headers |-> Mask(cdRequest.headers, cdConfig),
                    query |-> Mask(cdRequest.query, cdConfig)]
    /\ UNCHANGED <<cdValue, cdRequest, cdConfig, cdLogged, cdBound, cdSaved>>

(* A log line's data: made safe, on the built-in depth.                    *)
CaptureLog ==
    /\ cdLogged = CdNone /\ cdSaved = CdNone
    /\ cdLogged' = SafeData(cdValue, CdRedactDepth)
    /\ UNCHANGED <<cdValue, cdRequest, cdConfig, cdBody, cdBound, cdMasked, cdSaved>>

(* A driver's parameters, an event's payload: redacted alone.              *)
CaptureParameters ==
    /\ cdBound = CdNone /\ cdSaved = CdNone
    /\ cdBound' = Redacted(cdValue)
    /\ UNCHANGED <<cdValue, cdRequest, cdConfig, cdBody, cdLogged, cdMasked, cdSaved>>

Captured == {g \in {cdBody, cdLogged, cdBound} : g # CdNone}

(* The profile holds all of it, and one JSON.stringify stores it.          *)
SaveCaptured ==
    /\ cdSaved = CdNone
    /\ cdSaved' = \A g \in Captured : Stringifies(g)
    /\ UNCHANGED <<cdValue, cdRequest, cdConfig, cdBody, cdLogged, cdBound, cdMasked>>

CdNext == CaptureHttp \/ CaptureLog \/ CaptureParameters \/ SaveCaptured

CdSpec == CdInit /\ [][CdNext]_cdVars

-----------------------------------------------------------------------------
(* Types: what the variables may hold.                                     *)
CdTypeOK ==
    /\ cdSaved \in BOOLEAN \cup {CdNone}
    /\ \A g \in Captured : g.root \in DOMAIN g.kind

(* A value whose members lie within the depth redact walks.                *)
Shallow(g) ==
    \A v \in Held(g, "object") : g.kind[v.node] \in Containers /\ v.node \notin v.above
                         => v.depth < CdRedactDepth

(* Capturing a value cannot cost the profile: whatever the program holds   *)
(* and however the limits are set, cycles and BigInts at any depth, the    *)
(* body and the log lines can be stored; so can what is redacted alone, as *)
(* long as it is no deeper than redact walks.                              *)
CapturedDataIsStorable ==
    cdSaved = FALSE => cdBound # CdNone /\ ~Shallow(cdValue)

(* A body cut to a preview in which what was under a secret key shows.     *)
ShowsASecret(g) == \E n \in DOMAIN g.kind : g.kind[n] = "clear"

(* Bounded first and redacted after, what a member of an object held under *)
(* a secret key is masked in the body, wherever in it and within the depth *)
(* redact walks, but in the preview of a body too long to keep; a Map's    *)
(* entries have no key left to be masked by.  A header or a parameter is   *)
(* masked exactly when the lists name it: adding a name unmasks nothing.   *)
ListedDataIsMasked ==
    cdBody # CdNone =>
        /\ LET held == Held(cdValue, "object")
               kept == Met(cdBody)
           IN  \A v \in held : \A w \in {k \in kept : k.path = v.path} :
                 cdValue.kind[v.node] # "map" /\ w.depth < CdRedactDepth =>
                   \A i \in DOMAIN cdBody.next[w.node] :
                     cdValue.next[v.node][i].key = "secret" =>
                       \/ cdBody.kind[cdBody.next[w.node][i].to] = "mask"
                       \/ ShowsASecret(cdBody)
        /\ \A part \in {"headers", "query"} : \A n \in DOMAIN cdMasked[part] :
             /\ n \in cdConfig.adds => cdMasked[part][n] = "masked"
             /\ n \in CdDefaults => (cdMasked[part][n] = "masked" <=>
                                       cdConfig.useDefaults \/ n \in cdConfig.adds)
=============================================================================

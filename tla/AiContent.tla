------------------------------- MODULE AiContent -------------------------------
(***************************************************************************)
(* What the AI panel keeps of a text, a payload, a schema, a URL, a        *)
(* provider's error, body or headers (ai-capture.ts): each at its field's  *)
(* level, masked, scrubbed by the host, cut, under settings that modules   *)
(* merge into one set of the process.  AiSetup resolves the levels.        *)
(*                                                                         *)
(* Of the characters: "p" is personal data, "c" what a pattern of the host *)
(* matches, "x" what its scrubber knows, "s" what a secret key holds, "?"  *)
(* a sensitive query parameter; "m" stands for a description, "~" for the  *)
(* mark of a cut and "u" for what could not be serialised.                 *)
(***************************************************************************)
EXTENDS Masking

CONSTANTS
    AcDefaults,  \* the settings' defaults: [levels, pii, patterns, useDefaults, keys, sanitize,
                 \* maxTextLength, maxPayloadLength], sanitize the set of fields scrubbed
    AcUpdates,   \* what modules configure: records over some of these
    AcContents,  \* what is captured: [how, field, value], value a tree of Masking
    AcMargin,    \* REDACTION_MARGIN
    AcMaxUrl,    \* MAX_URL_LENGTH
    AcCounts,    \* the keys of token counts, which a provider body may show
    AcNone

VARIABLES
    acSettings,
    acKept      \* the last captured: [content, kept, settings], AcNone before

acVars == <<acSettings, acKept>>

AcFields == DOMAIN AcDefaults.levels
AcOptIn == {"runtimeContext", "providerPayload"}

-----------------------------------------------------------------------------
(* The settings as the hot path reads them.                                *)
Level(s, field) == s.levels[field]
StringPatterns(s) == s.patterns \cup (IF s.pii THEN {"p"} ELSE {})
ValueKeys(s) == s.keys \cup (IF s.useDefaults THEN MkBuiltIn ELSE {})
SchemaKeys(s) == s.keys
PayloadKeys(s) == s.keys \cup (IF s.useDefaults THEN MkBuiltIn \ AcCounts ELSE {})
RedactDiagnostics(s) == \E field \in AcFields \ AcOptIn : Level(s, field) # "full"

-----------------------------------------------------------------------------
Described == MkText(<<"m">>)
FirstOfText(text, n) == SubSeq(text, 1, Min({n, Len(text)}))
Cut(text, n) == IF Len(text) <= n THEN text ELSE FirstOfText(text, n) \o <<"~">>

BoundText(s, text) == Cut(text, s.maxTextLength)

BoundJson(value, n) ==
    IF HoldsBigInt(value) THEN MkText(<<"u">>)
    ELSE IF Len(Json(value)) > n THEN MkText(Cut(Json(value), n)) ELSE value

BoundValue(s, value) ==
    IF value.kind = "null" THEN value
    ELSE IF value.kind = "text" THEN MkText(BoundText(s, value.text))
    ELSE BoundJson(value, 2 * s.maxTextLength)

DescribeShape(value) == MkText(<<"m">> \o [i \in DOMAIN value.items |-> "k"])

Scrub(s, text, field) ==
    IF field \in s.sanitize THEN [i \in DOMAIN text |-> IF text[i] = "x" THEN "R" ELSE text[i]]
    ELSE text

(* Every string of a value changed, down to a depth, but for those that    *)
(* belong to an instance of a class: the host's scrubber is not given what *)
(* is as deep as the limit, a cut is made there too.                       *)
Rewritten(change, text) ==
    IF change.what = "cut" THEN Cut(text, change.to) ELSE Scrub(change.settings, text, change.field)

RECURSIVE EachString(_, _, _)
EachString(value, change, depth) ==
    IF value.kind = "text"
    THEN IF change.what = "scrub" /\ depth >= change.depth THEN value
         ELSE MkText(Rewritten(change, value.text))
    ELSE IF value.kind \notin {"list", "object"} \/ depth >= change.depth THEN value
    ELSE MkMembers(value.kind,
            [i \in DOMAIN value.items |->
               [value.items[i] EXCEPT !.value = EachString(@, change, depth + 1)]])

SanitizeDeep(s, value, field) ==
    EachString(value, [what |-> "scrub", settings |-> s, field |-> field, depth |-> MkDepth], 0)

TruncateStrings(value, n) == EachString(value, [what |-> "cut", to |-> n, depth |-> 2 * MkDepth], 0)

-----------------------------------------------------------------------------
CaptureText(s, text, field) ==
    LET level == Level(s, field)
        window == s.maxTextLength + AcMargin
    IN  IF text = <<>> \/ level = "none" THEN AcNone
        ELSE IF level = "metadata" THEN Described
        ELSE IF level = "full" THEN MkText(BoundText(s, Scrub(s, text, field)))
        ELSE MkText(BoundText(s, Scrub(s, RedactString(FirstOfText(text, window), StringPatterns(s)),
                                       field)))

CaptureValue(s, value, field) ==
    LET level == Level(s, field)
    IN  IF level = "none" THEN AcNone
        ELSE IF value.kind = "null" THEN value
        ELSE IF value.kind = "text"
             THEN IF value.text = <<>> THEN value ELSE CaptureText(s, value.text, field)
        ELSE IF level = "metadata" THEN DescribeShape(value)
        ELSE BoundValue(s, SanitizeDeep(s, IF level = "full" THEN value
                                           ELSE Redact(value, ValueKeys(s), StringPatterns(s)), field))

CaptureSchema(s, value, field) ==
    IF Level(s, field) \in {"none", "metadata"} THEN AcNone
    ELSE IF value.kind = "null" THEN value
    ELSE BoundValue(s, SanitizeDeep(s, IF Level(s, field) = "full" THEN value
                                       ELSE Redact(value, SchemaKeys(s), StringPatterns(s)), field))

CaptureUrl(s, url, field) ==
    CASE Level(s, field) = "none" -> AcNone
      [] Level(s, field) = "metadata" -> Described
      [] Level(s, field) = "full" -> MkText(FirstOfText(url, AcMaxUrl))
      [] OTHER -> MkText(FirstOfText(RedactString(url, StringPatterns(s) \cup {"?"}), AcMaxUrl))

CaptureDiagnostic(s, text) ==
    MkText(BoundText(s, Scrub(s, IF RedactDiagnostics(s) THEN RedactString(text, StringPatterns(s))
                                 ELSE text, "error")))

(* A body's strings are cut before they are masked and after.              *)
CapturePayload(s, value) ==
    LET level == Level(s, "providerPayload")
        masked == IF level = "full" THEN value
                  ELSE Redact(TruncateStrings(value, s.maxTextLength + AcMargin),
                              PayloadKeys(s), StringPatterns(s))
    IN  IF level = "none" \/ value.kind = "null" \/ value = MkText(<<>>) THEN AcNone
        ELSE IF value.kind = "text" THEN CaptureText(s, value.text, "providerPayload")
        ELSE IF level = "metadata" THEN DescribeShape(value)
        ELSE BoundJson(TruncateStrings(SanitizeDeep(s, masked, "providerPayload"), s.maxTextLength),
                       s.maxPayloadLength)

CapturePayloadHeaders(s, headers) ==
    IF Level(s, "providerPayload") = "none" \/ ~MkOpen(headers) \/ headers.items = <<>> THEN AcNone
    ELSE IF Level(s, "providerPayload") = "full" THEN headers
    ELSE MkMembers("object", [i \in DOMAIN headers.items |->
            [headers.items[i] EXCEPT !.value = IF headers.items[i].key \in MkBuiltIn
                                               THEN MkText(Replaced) ELSE @]])

CapturedContent(s, c) ==
    CASE c.how = "text"       -> CaptureText(s, c.value.text, c.field)
      [] c.how = "value"      -> CaptureValue(s, c.value, c.field)
      [] c.how = "schema"     -> CaptureSchema(s, c.value, c.field)
      [] c.how = "url"        -> CaptureUrl(s, c.value.text, c.field)
      [] c.how = "diagnostic" -> CaptureDiagnostic(s, c.value.text)
      [] c.how = "payload"    -> CapturePayload(s, c.value)
      [] c.how = "headers"    -> CapturePayloadHeaders(s, c.value)

-----------------------------------------------------------------------------
ConfigureAiCapture ==
    /\ \E update \in AcUpdates : acSettings' = [name \in DOMAIN acSettings |->
            IF name \in DOMAIN update THEN update[name] ELSE acSettings[name]]
    /\ acKept' = AcNone

ResetAiCapture == acSettings' = AcDefaults /\ acKept' = AcNone

CaptureContent ==
    /\ acKept = AcNone
    /\ \E c \in AcContents :
         acKept' = [content |-> c, kept |-> CapturedContent(acSettings, c), settings |-> acSettings]
    /\ UNCHANGED acSettings

AcStart(settings) == acSettings = settings /\ acKept = AcNone
AcInit == AcStart(AcDefaults)
AcNext == ConfigureAiCapture \/ ResetAiCapture \/ CaptureContent

-----------------------------------------------------------------------------
AcTypeOK ==
    /\ DOMAIN acSettings = DOMAIN AcDefaults
    /\ acKept = AcNone \/ acKept.kept = AcNone \/ MkOpen(acKept.kept)
       \/ acKept.kept.kind \in {"text", "null", "number", "bigint"}

KeptAt(level) ==
    /\ acKept # AcNone
    /\ acKept.kept # AcNone
    /\ acKept.content.how # "diagnostic"
    /\ Level(acKept.settings, acKept.content.field) = level

(* None keeps nothing, metadata no character of the content but the names  *)
(* of its keys (and a provider's headers, which count as metadata).        *)
LevelsDropContent ==
    /\ ~KeptAt("none")
    /\ KeptAt("metadata") /\ acKept.content.how # "headers" =>
         Characters(acKept.kept) \subseteq {"m", "k"}

(* The window that is scanned holds every credential that can be kept, as  *)
(* long as the masks before it do not draw in what is past the cut.        *)
WindowHolds(s, text) ==
    LET scanned == FirstOfText(text, s.maxTextLength + AcMargin)
    IN  Len(scanned) = Len(text)
        \/ Len(scanned) - Len(RedactString(scanned, StringPatterns(s))) <= AcMargin - MkLongest + 1

RECURSIVE WindowHoldsIn(_, _)
WindowHoldsIn(s, value) ==
    IF value.kind = "text" THEN WindowHolds(s, value.text)
    ELSE \A i \in DOMAIN value.items : WindowHoldsIn(s, value.items[i].value)

KeysOf(how, s) ==
    s.keys \cup (IF how = "schema" \/ ~s.useDefaults THEN {}
                ELSE IF how = "payload" THEN MkBuiltIn \ AcCounts ELSE MkBuiltIn)

(* What redacted keeps shows no credential nor a part of one that a cut    *)
(* left, nothing the other patterns match and nothing below a secret key;  *)
(* of a payload kept whole the rest is there, a schema's fields that are   *)
(* named like a secret and a body's counts of tokens with it.              *)
RedactedShowsNoSecret ==
    LET c == acKept.content
        s == acKept.settings
        shown == Characters(acKept.kept)
    IN  KeptAt("redacted") /\ c.how # "headers" /\ Nesting(c.value) <= MkDepth
        /\ WindowHoldsIn(s, c.value) =>
           /\ shown \cap (CredentialCharacters \cup StringPatterns(s)) = {}
           /\ c.how = "url" => "?" \notin shown
           /\ MkOpen(c.value) =>
                shown \subseteq CharactersBut(c.value, KeysOf(c.how, s))
                                \cup {"R", "~", "q", "{", "}", "k", "a"}
           /\ MkOpen(acKept.kept) /\ c.how \in {"value", "schema"} =>
                CharactersBut(c.value, KeysOf(c.how, s))
                \ (CredentialCharacters \cup StringPatterns(s) \cup {"x"}) \subseteq shown
           /\ c.how = "payload" /\ MkOpen(acKept.kept) =>
                \A i \in DOMAIN c.value.items :
                   LET item == c.value.items[i]
                   IN  item.key \in AcCounts \ s.keys =>
                         acKept.kept.items[i].value = item.value

(* A provider's error is masked as soon as one field of what was said is,  *)
(* and verbatim when none is, whatever the two opt-in fields say.          *)
DiagnosticsFollowTheFields ==
    acKept # AcNone /\ acKept.content.how = "diagnostic" =>
        LET s == acKept.settings
            text == acKept.content.value.text
            verbatim == \A field \in {"messages", "toolResults"} : s.levels[field] = "full"
        IN  IF verbatim THEN s.sanitize = {} => acKept.kept = MkText(Cut(text, s.maxTextLength))
            ELSE Characters(acKept.kept) \cap (CredentialCharacters \cup StringPatterns(s)) = {}

(* Full keeps what was there, or the beginning of it; what cannot be       *)
(* serialised is told, and only full ever meets it: what is kept can       *)
(* always be stored.                                                       *)
FullIsVerbatim ==
    LET c == acKept.content
        text == IF c.value.kind = "text" THEN c.value.text ELSE Json(c.value)
        kept == acKept.kept
    IN  /\ KeptAt("full") /\ acKept.settings.sanitize = {} =>
             \/ kept = c.value
             \/ kept = MkText(<<"u">>) /\ HoldsBigInt(c.value)
             \/ kept.kind = "text" /\ kept.text # <<>> /\ IsPrefix(Front(kept.text), text)
             \/ c.how = "payload" /\ (MkOpen(kept) \/ kept.kind = "text")
        /\ (acKept # AcNone /\ kept = MkText(<<"u">>)) =>
             KeptAt("full") \/ Nesting(c.value) > MkDepth
        /\ acKept # AcNone /\ kept # AcNone => ~HoldsBigInt(kept)

(* Nothing kept is larger than its bound, and a failure keeps its message. *)
KeptIsBounded ==
    acKept # AcNone =>
        LET c == acKept.content
            s == acKept.settings
            kept == acKept.kept
            size == IF kept.kind = "text" THEN Len(kept.text) ELSE Len(Json(kept))
        IN  /\ c.how = "diagnostic" => kept # AcNone /\ (c.value.text # <<>> => kept.text # <<>>)
            /\ kept # AcNone =>
                 /\ c.how \in {"text", "diagnostic"} => size <= s.maxTextLength + 1
                 /\ c.how = "url" => size <= AcMaxUrl
                 /\ c.how \in {"value", "schema"} => size <= 2 * s.maxTextLength + 1
                      \/ kept = DescribeShape(c.value)
                 /\ c.how = "payload" /\ MkOpen(c.value) => size <= s.maxPayloadLength + 1
                      \/ kept = DescribeShape(c.value)

(* The host's scrubber sees every text that is kept, but a URL, one as     *)
(* deep as the limit and one in an instance of a class kept whole.         *)
RECURSIVE HoldsInstance(_)
HoldsInstance(value) ==
    value.kind = "instance" \/ \E i \in DOMAIN value.items : HoldsInstance(value.items[i].value)

ScrubberSeesWhatIsKept ==
    (acKept # AcNone /\ acKept.kept # AcNone) =>
        LET c == acKept.content
            field == IF c.how = "diagnostic" THEN "error" ELSE c.field
        IN  field \in acKept.settings.sanitize /\ c.how \notin {"url", "headers"}
            /\ Nesting(c.value) < MkDepth /\ ~HoldsInstance(c.value)
            => "x" \notin Characters(acKept.kept)

(* The whole of it.                                                        *)
AiKeepsWhatItsLevelAllows ==
    /\ LevelsDropContent
    /\ RedactedShowsNoSecret
    /\ DiagnosticsFollowTheFields
    /\ FullIsVerbatim
    /\ KeptIsBounded
    /\ ScrubberSeesWhatIsKept
==============================================================================

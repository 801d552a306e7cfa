--------------------------- MODULE ExceptionEntries ---------------------------
(***************************************************************************)
(* What is kept of a failure: toExceptionEntry and its chain of causes     *)
(* (analysis/to-exception-entry.ts), the stack taken apart frame by frame  *)
(* with a piece of the source around the application's own lines           *)
(* (utils/source-context.util.ts), and what the Exceptions tab makes of    *)
(* the entry (views/template-engine.ts, views/editor-link.ts).  A stack is *)
(* text anybody may have written a part of, so what is read off the disk   *)
(* because of it is the concern, beside the order and the wholeness of     *)
(* what is kept.                                                           *)
(*                                                                         *)
(* A path is [scheme, steps], its steps a sequence of names; a file's text *)
(* is its number of lines and the edit it is of.                           *)
(***************************************************************************)
EXTENDS Naturals, Sequences, SequencesExt, FiniteSets

CONSTANTS
    ExThrown,       \* thrown value -> [kind, code, cause, payload, stack]
    ExOptions,      \* module options: [source, context, frames, capture, editor]
    ExDisk,         \* steps of a file -> its number of lines, when the program starts
    ExRoot,         \* steps of projectRoot
    ExSources,      \* the names with one of ALLOWED_EXTENSIONS
    ExSecret,       \* the keys of a payload redact takes for secret
    ExMaxStack,     \* MAX_STACK_FRAMES
    ExMaxCause,     \* MAX_CAUSE_DEPTH
    ExMaxCached,    \* MAX_CACHED_FILES
    ExCaptures,     \* bound: failures captured
    ExEdits,        \* bound: sources edited or removed
    ExNone

ASSUME ExAssumption ==
    /\ \A e \in DOMAIN ExThrown :
         /\ ExThrown[e].kind \in {"error", "http", "plain"}
         /\ ExThrown[e].cause \in DOMAIN ExThrown \cup {ExNone}
    /\ \A f \in DOMAIN ExDisk : ExDisk[f] \in Nat \ {0}
    /\ {ExMaxStack, ExMaxCause, ExMaxCached, ExCaptures, ExEdits} \subseteq Nat

VARIABLES
    exOptions,
    exDisk,     \* steps -> [lines, edit]
    exCache,    \* fileLinesCache: steps -> [lines, edit], or ExNone for a failed read
    exReads,    \* the files a capture has read or tried to
    exEntries   \* profile.exceptions: [handled, chain], the cause of an entry after it

exVars == <<exOptions, exDisk, exCache, exReads, exEntries>>

-----------------------------------------------------------------------------
(* A line of the stack, taken apart.                                       *)
Positioned(line) ==
    /\ line.at
    /\ line.call = ExNone \/ line.opened
    /\ Len(line.position) = 2 /\ \A i \in 1..2 : line.position[i] \in Nat

CleanFunctionName(call) == IF call = ExNone \/ call.name = "" THEN ExNone ELSE call.name

ToFilePath(path) ==
    IF path.scheme = "file url" THEN [path EXCEPT !.scheme = "absolute"] ELSE path

ParseStackFrame(line) ==
    [function |-> CleanFunctionName(line.call), isAsync |-> line.async,
     path |-> ToFilePath(line.path), line |-> line.position[1], column |-> line.position[2]]

ParseStackFrames(stack) ==
    LET parsed == SelectSeq(stack, Positioned)
    IN  [i \in DOMAIN parsed |-> ParseStackFrame(parsed[i])]

(* resolve(): the steps up taken.                                          *)
Resolve(steps) ==
    FoldLeft(LAMBDA done, step : IF step = ".." THEN IF done = <<>> THEN done ELSE Front(done)
                                 ELSE Append(done, step),
             <<>>, steps)

InDependency(path) ==
    \E i \in 1..(Len(path.steps) - 1) :
        path.steps[i] = "node_modules" /\ (i > 1 \/ path.scheme = "absolute")

ToPackageRelativePath(steps) ==
    LET marker == CHOOSE i \in DOMAIN steps :
                     /\ steps[i] = "node_modules" /\ i < Len(steps)
                     /\ \A j \in (i + 1)..(Len(steps) - 1) : steps[j] # "node_modules"
    IN  SubSeq(steps, marker + 1, Len(steps))

Beneath(root, steps) == Len(steps) > Len(root) /\ SubSeq(steps, 1, Len(root)) = root

ProjectRoot == Resolve(ExRoot)

(* A path and what resolve() makes of its steps.                           *)
InApplication(path, resolved) ==
    /\ path.scheme = "absolute" /\ ~InDependency(path)
    /\ Beneath(ProjectRoot, resolved)

FileShown(path, resolved) ==
    IF path.scheme # "node" /\ InDependency(path) THEN ToPackageRelativePath(path.steps)
    ELSE IF InApplication(path, resolved) THEN SubSeq(resolved, Len(ProjectRoot) + 1, Len(resolved))
    ELSE path.steps

Placed(path, resolved) ==
    [isApplication |-> InApplication(path, resolved), file |-> FileShown(path, resolved),
     absoluteFile |-> IF InApplication(path, resolved) THEN resolved ELSE ExNone]

ClassifyFrame(path) == Placed(path, Resolve(path.steps))

(* The source, read once and kept while there is room.                     *)
OnDisk(file) == IF file \in DOMAIN exDisk THEN exDisk[file] ELSE ExNone

GetFileLines(cache, file) == IF file \in DOMAIN cache THEN cache[file] ELSE OnDisk(file)

Cached(cache, file) ==
    IF file \in DOMAIN cache \/ Cardinality(DOMAIN cache) >= ExMaxCached THEN cache
    ELSE [f \in DOMAIN cache \cup {file} |-> IF f = file THEN OnDisk(file) ELSE cache[f]]

ReadExcerpt(text, line, context) ==
    IF text = ExNone \/ line > text.lines THEN ExNone
    ELSE LET start == IF line > context THEN line - context ELSE 1
             end == IF line + context < text.lines THEN line + context ELSE text.lines
         IN  IF end < start THEN ExNone
             ELSE [edit |-> text.edit, rows |-> [i \in 1..(end - start + 1) |->
                      [number |-> start + i - 1, isFaultLine |-> start + i - 1 = line]]]

ReadsSource(placed, annotated) ==
    /\ exOptions.source /\ placed.absoluteFile # ExNone
    /\ annotated < exOptions.frames

Readable(file) == Last(file) \in ExSources

(* One frame added to what is kept so far: the loop of analyzeStack.       *)
WithFrame(done, raw, placed, reads, excerpt) ==
    [ done EXCEPT
      !.frames = Append(@, [function |-> raw.function, isAsync |-> raw.isAsync, line |-> raw.line,
                            column |-> raw.column, file |-> placed.file,
                            absoluteFile |-> placed.absoluteFile,
                            isApplication |-> placed.isApplication, lines |-> excerpt]),
      !.annotated = IF excerpt = ExNone THEN @ ELSE @ + 1,
      !.cache = IF reads THEN Cached(@, placed.absoluteFile) ELSE @,
      !.reads = IF reads THEN @ \cup {placed.absoluteFile} ELSE @ ]

Excerpted(done, raw, placed, reads) ==
    WithFrame(done, raw, placed, reads,
         IF reads THEN ReadExcerpt(GetFileLines(done.cache, placed.absoluteFile), raw.line,
                                   exOptions.context)
         ELSE ExNone)

Classified(done, raw, placed) ==
    Excerpted(done, raw, placed,
              ReadsSource(placed, done.annotated) /\ Readable(placed.absoluteFile))

Annotate(done, raw) ==
    IF Len(done.frames) >= ExMaxStack THEN done
    ELSE Classified(done, raw, ClassifyFrame(raw.path))

AnalyzeStack(done, stack) ==
    FoldLeft(Annotate, [done EXCEPT !.frames = <<>>, !.annotated = 0], ParseStackFrames(stack))

-----------------------------------------------------------------------------
(* The entry of one thrown value.                                          *)
ReadCode(e) == IF ExThrown[e].code \in {"none", "number", "empty"} THEN ExNone ELSE ExThrown[e].code

Informative(payload) == payload.own # {} \/ payload.message \notin {"none", "same"}

(* captureBody: a payload too long is cut to a preview of its JSON text,   *)
(* and the keys are gone when it is redacted.  "clear" are the keys whose  *)
(* value what is stored may still show.                                    *)
CaptureDetails(payload) ==
    IF payload.big
    THEN [own |-> {"_truncated", "_preview"}, message |-> "none", clear |-> payload.own]
    ELSE [own |-> payload.own, message |-> payload.message, clear |-> payload.own \ ExSecret]

ReadDetails(e) ==
    IF /\ exOptions.capture /\ ExThrown[e].kind = "http"
       /\ ExThrown[e].payload # ExNone /\ Informative(ExThrown[e].payload)
    THEN CaptureDetails(ExThrown[e].payload)
    ELSE ExNone

(* What was thrown without being an Error becomes one, without its cause.  *)
CauseOf(e) == IF ExThrown[e].kind = "plain" THEN ExNone ELSE ExThrown[e].cause

Unseen(chain, e) == ~Contains(chain, e)

Causes(thrown) ==
    LET chain[depth \in 0..ExMaxCause] ==
          IF depth = 0 THEN <<thrown>>
          ELSE LET above == chain[depth - 1]
                   cause == CauseOf(Last(above))
               IN  IF cause # ExNone /\ Unseen(above, cause) THEN Append(above, cause) ELSE above
    IN  chain[ExMaxCause]

Build(done, e) ==
    LET analyzed == AnalyzeStack(done, ExThrown[e].stack)
    IN  [analyzed EXCEPT !.chain =
            Append(@, [of |-> e, code |-> ReadCode(e), frames |-> analyzed.frames,
                       details |-> ReadDetails(e)])]

ToExceptionEntry(thrown) ==
    FoldLeft(Build,
             [chain |-> <<>>, frames |-> <<>>, annotated |-> 0, cache |-> exCache, reads |-> exReads],
             Causes(thrown))

Record(thrown, handled) ==
    LET built == ToExceptionEntry(thrown)
    IN  /\ Len(exEntries) < ExCaptures
        /\ exEntries' = Append(exEntries, [handled |-> handled, chain |-> built.chain])
        /\ exCache' = built.cache
        /\ exReads' = built.reads
        /\ UNCHANGED <<exOptions, exDisk>>

(* A failure that reached a filter, and one the application reports itself.*)
RecordHttpException(thrown) == Record(thrown, FALSE)
ReportHandled(thrown) == Record(thrown, TRUE)

(* A source is edited, or removed, while the program runs.                 *)
Changed == {f \in DOMAIN ExDisk : f \notin DOMAIN exDisk \/ exDisk[f].edit > 0}

EditSource(file) ==
    /\ Cardinality(Changed) < ExEdits
    /\ exDisk' \in { [exDisk EXCEPT ![file] = [lines |-> @.lines + 1, edit |-> @.edit + 1]],
                     [f \in DOMAIN exDisk \ {file} |-> exDisk[f]] }
    /\ UNCHANGED <<exOptions, exCache, exReads, exEntries>>

-----------------------------------------------------------------------------
(* The page of an entry.                                                   *)
ResolveEditorTemplate(editor) == IF editor = "unknown" THEN ExNone ELSE editor

EditorLink(frame) ==
    IF frame.absoluteFile = ExNone \/ ResolveEditorTemplate(exOptions.editor) = ExNone THEN ExNone
    ELSE [file |-> frame.absoluteFile, line |-> frame.line]

ExceptionDetails(details) ==
    IF details = ExNone THEN [lines |-> "none", rest |-> {}, clear |-> {}]
    ELSE [lines |-> IF details.message \in {"list", "other"} THEN details.message ELSE "none",
          rest |-> details.own, clear |-> details.clear]

-----------------------------------------------------------------------------
ExStart(options) ==
    /\ exOptions = options
    /\ exDisk = [f \in DOMAIN ExDisk |-> [lines |-> ExDisk[f], edit |-> 0]]
    /\ exCache = [f \in {} |-> ExNone]
    /\ exReads = {}
    /\ exEntries = <<>>

ExInit == \E options \in ExOptions : ExStart(options)

ExNext ==
    \/ \E e \in DOMAIN ExThrown : RecordHttpException(e) \/ ReportHandled(e)
    \/ \E file \in DOMAIN exDisk : EditSource(file)

-----------------------------------------------------------------------------
ExTypeOK ==
    /\ exOptions \in ExOptions
    /\ DOMAIN exDisk \subseteq DOMAIN ExDisk
    /\ Cardinality(DOMAIN exCache) <= ExMaxCached
    /\ Len(exEntries) <= ExCaptures

ChainsKept == {exEntries[i].chain : i \in DOMAIN exEntries}
EntriesKept == UNION {ToSet(chain) : chain \in ChainsKept}
FramesKept == UNION {ToSet(entry.frames) : entry \in EntriesKept}

(* Whatever a stack says, only a source of the application is opened       *)
(* because of it (source-context.util.ts).                                 *)
OnlySourcesAreRead ==
    \A file \in exReads :
        /\ ".." \notin ToSet(file) /\ "node_modules" \notin ToSet(file)
        /\ Beneath(ExRoot, file) /\ Last(file) \in ExSources

(* An excerpt holds the line the frame points at, once, in consecutive     *)
(* lines; and while a file is held, all its excerpts are of one text.      *)
ExcerptsShowTheFault ==
    \A frame \in {f \in FramesKept : f.lines # ExNone} :
        LET rows == frame.lines.rows
        IN  /\ frame.line > 0 => {i \in DOMAIN rows : rows[i].isFaultLine}
                                 = {i \in DOMAIN rows : rows[i].number = frame.line}
            /\ frame.line > 0 => \E i \in DOMAIN rows : rows[i].isFaultLine
            /\ \A i \in DOMAIN rows : rows[i].number = rows[1].number + i - 1
            /\ rows[1].number = 1 \/ rows[1].number + exOptions.context = frame.line
            /\ Last(rows).number <= frame.line + exOptions.context
            /\ frame.absoluteFile \in DOMAIN exCache =>
                 /\ exCache[frame.absoluteFile] # ExNone
                 /\ frame.lines.edit = exCache[frame.absoluteFile].edit

(* The frames kept are those the stack has, in its order, as many as are   *)
(* allowed; the first that can be read are the ones shown with source.     *)
StacksAreKeptInOrder ==
    \A entry \in EntriesKept :
        LET stack == SelectSeq(ExThrown[entry.of].stack, Positioned)
            kept == entry.frames
            shown == {i \in DOMAIN kept : kept[i].lines # ExNone}
        IN  /\ Len(kept) = (IF Len(stack) < ExMaxStack THEN Len(stack) ELSE ExMaxStack)
            /\ \A i \in DOMAIN kept : <<kept[i].line, kept[i].column>> = stack[i].position
            /\ Cardinality(shown) <= exOptions.frames
            /\ \A i \in DOMAIN kept :
                 /\ (i \in shown => kept[i].isApplication /\ exOptions.source)
                 /\ /\ i \notin shown /\ exOptions.source /\ Cardinality(shown) < exOptions.frames
                    /\ kept[i].line > 0
                    /\ kept[i].isApplication /\ kept[i].absoluteFile \in DOMAIN exCache
                    /\ exCache[kept[i].absoluteFile] # ExNone
                    => kept[i].line > exCache[kept[i].absoluteFile].lines
            /\ \A i \in DOMAIN kept :
                 EditorLink(kept[i]) # ExNone => Beneath(ExRoot, EditorLink(kept[i]).file)

(* A chain is what wrapped what, each value once, and it ends where the    *)
(* causes do, comes back on itself or is as long as it may be.             *)
CausesAreKeptOnce ==
    \A chain \in ChainsKept :
        /\ Len(chain) \in 1..(ExMaxCause + 1)
        /\ \A i, j \in DOMAIN chain : chain[i].of = chain[j].of => i = j
        /\ \A i \in 1..(Len(chain) - 1) :
             /\ ExThrown[chain[i].of].kind # "plain"
             /\ ExThrown[chain[i].of].cause = chain[i + 1].of
        /\ LET last == ExThrown[Last(chain).of]
           IN  \/ Len(chain) = ExMaxCause + 1 \/ last.kind = "plain" \/ last.cause = ExNone
               \/ \E i \in DOMAIN chain : chain[i].of = last.cause

(* What a response said beside its message reaches the page, unless it is  *)
(* an object where a message should be; the message is not repeated, and   *)
(* what is under a secret key is not shown, but in the preview of a payload*)
(* too long to keep.                                                       *)
DetailsReachThePage ==
    \A entry \in EntriesKept :
        LET payload == ExThrown[entry.of].payload
            page == ExceptionDetails(entry.details)
        IN  exOptions.capture /\ ExThrown[entry.of].kind = "http" /\ payload # ExNone =>
              /\ payload.own # {} \/ payload.message \in {"list", "other"} =>
                    page.lines # "none" \/ page.rest # {}
              /\ payload.own = {} /\ payload.message \in {"none", "same"} => entry.details = ExNone
              /\ payload.message = "same" => page.lines = "none"
              /\ ~payload.big => page.clear \cap ExSecret = {}

(* The whole of it.                                                        *)
FailuresAreKeptWhole ==
    /\ OnlySourcesAreRead
    /\ ExcerptsShowTheFault
    /\ StacksAreKeptInOrder
    /\ CausesAreKeptOnce
    /\ DetailsReachThePage
==============================================================================

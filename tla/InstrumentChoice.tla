--------------------------- MODULE InstrumentChoice ---------------------------
(***************************************************************************)
(* What the automatic instrumentation wraps, and what it hands back: the   *)
(* instanceDecorator Nest calls on every instance it builds, and the `get` *)
(* trap of the Proxy it may answer with (instrument/profiler-instrument.ts,*)
(* skip-instrumentation.ts, exclude-matcher.ts, internal-marker.ts).       *)
(* MethodSpans has the spans of the calls and their interleavings; here a  *)
(* call matters for the receiver it runs on and the frame it leaves in an  *)
(* error.                                                                  *)
(*                                                                         *)
(* A name is a sequence of words: <<"Product", "Repository">>; a method's  *)
(* label is its class, a dot and its name.                                 *)
(***************************************************************************)
EXTENDS Naturals, Sequences, SequencesExt, FiniteSets, TLC

CONSTANTS
    IcApps,       \* providers with their members, and the decorator's options
    IcMinimum,    \* MINIMUM_NEST_VERSION
    IcMaxReads,   \* bound: properties read off providers
    IcMaxStack,   \* bound: calls in progress
    IcNone

ASSUME IcAssumption ==
    /\ IcMaxReads \in Nat /\ IcMaxStack \in Nat
    /\ \A app \in IcApps : app.maxDepth \in Nat

VARIABLES
    icApp,
    icWarned,  \* said that Nest is too old
    icGiven,   \* provider -> what Nest holds: "undecorated", "raw", "proxy"
    icCache,   \* provider -> function -> what its Proxy handed out for it
    icReads,   \* every property read
    icStack,   \* the reads being called, the innermost last
    icError    \* the error on its way out: its frames and their calls, innermost first

icVars == <<icApp, icWarned, icGiven, icCache, icReads, icStack, icError>>

IcStart(app) ==
    /\ icApp = app /\ icWarned = IcNone
    /\ icGiven = [p \in DOMAIN app.providers |-> "undecorated"]
    /\ icCache = [p \in DOMAIN app.providers |-> <<>>]
    /\ icReads = <<>> /\ icStack = <<>> /\ icError = IcNone

IcInit == \E app \in IcApps : IcStart(app)

Provider(p) == icApp.providers[p]
MemberOf(p, m) == Provider(p).members[m]

-----------------------------------------------------------------------------
(* The exclude option.                                                     *)

(* toRegExp: a string matches in full, `*` a run of words within a name.   *)
GlobMatches(pattern, name) ==
    LET from[i \in 1 .. Len(pattern) + 1, j \in 1 .. Len(name) + 1] ==
          IF i > Len(pattern) THEN j > Len(name)
          ELSE IF pattern[i] = "*"
               THEN from[i + 1, j] \/ (j <= Len(name) /\ name[j] # "." /\ from[i, j + 1])
               ELSE j <= Len(name) /\ pattern[i] = name[j] /\ from[i + 1, j + 1]
    IN  from[1, 1]

(* A RegExp looks anywhere in the name, and without its `g` and `y` flags  *)
(* answers the same whenever it is asked.                                  *)
PatternMatches(pattern, name) ==
    IF pattern.regexp THEN IsPrefix(pattern.words, name) \/ \E i \in DOMAIN name :
                            IsPrefix(pattern.words, SubSeq(name, i, Len(name)))
    ELSE GlobMatches(pattern.words, name)

(* A string with a dot is about methods, one without about classes; a      *)
(* RegExp about both; a blank string about nothing.                        *)
ClassTests == {t \in icApp.exclude : t.regexp \/ (t.words # <<>> /\ ~Contains(t.words, "."))}
MethodTests == {t \in icApp.exclude : t.regexp \/ Contains(t.words, ".")}
MatchesClass(name) == \E t \in ClassTests : PatternMatches(t, name)
MatchesMethod(label) == \E t \in MethodTests : PatternMatches(t, label)

-----------------------------------------------------------------------------
(* The version of Nest.                                                    *)

(* isOlderThanMinimum: a part that is no number says nothing.              *)
IsOlderThanMinimum(version) ==
    LET part(i) == IF i <= Len(version) THEN version[i] ELSE 0
    IN  /\ \A i \in DOMAIN version : version[i] \in Nat
        /\ \E i \in DOMAIN IcMinimum :
             part(i) < IcMinimum[i] /\ \A j \in 1 .. i - 1 : part(j) = IcMinimum[j]

CreateProfilerInstrument ==
    /\ icWarned = IcNone
    /\ icWarned' = (icApp.version # IcNone /\ IsOlderThanMinimum(icApp.version))
    /\ UNCHANGED <<icApp, icGiven, icCache, icReads, icStack, icError>>

-----------------------------------------------------------------------------
(* Which instances are wrapped.                                            *)

(* The brand sits on a constructor and its subclasses inherit it.          *)
IsInternal(p) == \E c \in Provider(p).chain : c.internal
IsClsService(p) == Provider(p).name = <<"ClsService">>
IsAnonymous(p) == Provider(p).name \in {<<>>, <<"Object">>}

LeftAlone(p) ==
    \/ ~icApp.includeInternals /\ (IsInternal(p) \/ IsClsService(p))
    \/ ~icApp.includeAnonymous /\ IsAnonymous(p)
    \/ MatchesClass(Provider(p).name)
    \/ p \in icApp.skip

(* Somewhere up the prototype chain a Map, a Set, a Date ...; or a class   *)
(* whose text holds a `#`, a private name's or not.                        *)
IsSlotBacked(p) == \E c \in Provider(p).chain : c.slots
UsesPrivateMembers(p) == \E c \in Provider(p).chain : c.hash
IsBareBuiltIn(p) == IsSlotBacked(p) /\ Provider(p).native
RequiresRawReceiver(p) == UsesPrivateMembers(p) \/ IsSlotBacked(p)

(* instanceDecorator: an instance that cannot be inspected comes back as   *)
(* it is, and so does one with no user code.                               *)
Decorate(p) ==
    /\ icWarned = FALSE   \* an older Nest never calls it
    /\ icGiven[p] = "undecorated"
    /\ icGiven' = [icGiven EXCEPT ![p] =
                     IF LeftAlone(p) \/ Provider(p).hostile \/ IsBareBuiltIn(p)
                     THEN "raw" ELSE "proxy"]
    /\ UNCHANGED <<icApp, icWarned, icCache, icReads, icStack, icError>>

-----------------------------------------------------------------------------
(* What reading a property gives: the function, whose receiver is decided  *)
(* here or left to the call; `made` is the read that created it, 0 for the *)
(* application's own.                                                      *)
Handed(fn, how, receiver, name, made, meta, statics) ==
    [fn |-> fn, how |-> how, receiver |-> receiver, name |-> name, made |-> made,
     meta |-> meta, statics |-> statics]
AsItIs(p, m) ==
    LET v == MemberOf(p, m)
    IN  Handed(v.fn, "own", "caller", m, 0, v.meta, v.statics)

(* Every key is carried to the wrapper; `bind` carries none.               *)
CopyMetadata(p, m) == MemberOf(p, m).meta
Unwrapped(p, m, made) ==
    IF RequiresRawReceiver(p)
    THEN Handed(MemberOf(p, m).fn, "own", "target", m, made, {}, {})
    ELSE AsItIs(p, m)
TracedBy(p, m, made) ==
    Handed(MemberOf(p, m).fn, "traced", IF RequiresRawReceiver(p) THEN "target" ELSE "proxy",
           m, made, CopyMetadata(p, m), {})

(* Whether the trap leaves a value alone: data, a class, a function with   *)
(* statics of its own.                                                     *)
NotTraced(p, m) ==
    \/ MemberOf(p, m).kind \in {"data", "class"} \/ m = "constructor"
    \/ MemberOf(p, m).statics # {}

(* The cache is keyed by the function: another name of it finds it too.    *)
TrapGet(p, m, made) ==
    IF NotTraced(p, m) THEN AsItIs(p, m)
    ELSE IF MemberOf(p, m).fn \in DOMAIN icCache[p] THEN icCache[p][MemberOf(p, m).fn]
    ELSE IF MatchesMethod(Provider(p).name \o <<".", m>>) THEN Unwrapped(p, m, made)
    ELSE TracedBy(p, m, made)

(* Frozen: the engine checks that the trap answers a read-only own property *)
(* with its very value.                                                    *)
Refused(p, m, got) == MemberOf(p, m).frozen /\ got.made # 0

ReadMember(p, m) ==
    LET made == Len(icReads) + 1
        got == IF icGiven[p] = "proxy" THEN TrapGet(p, m, made) ELSE AsItIs(p, m)
    IN  /\ icGiven[p] # "undecorated" /\ Len(icReads) < IcMaxReads
        /\ icReads' = Append(icReads, [on |-> p, member |-> m, got |-> got,
                                       refused |-> icGiven[p] = "proxy" /\ Refused(p, m, got)])
        /\ icCache' = IF icGiven[p] = "proxy" /\ ~NotTraced(p, m)
                      THEN [icCache EXCEPT ![p] = (MemberOf(p, m).fn :> got) @@ @] ELSE icCache
        /\ UNCHANGED <<icApp, icWarned, icGiven, icStack, icError>>

-----------------------------------------------------------------------------
(* Calls, and the error of one.                                            *)
ReceiverOf(read) ==
    IF read.got.receiver # "caller" THEN read.got.receiver
    ELSE IF icGiven[read.on] = "proxy" THEN "proxy" ELSE "target"

(* The wrapper traces this call: the method is not already being traced    *)
(* for this provider, and the tree is not deep enough.                     *)
Traces(read) ==
    LET live == SelectSeq(icStack, LAMBDA call : call.traced)
    IN  /\ read.got.how = "traced"
        /\ Len(live) < icApp.maxDepth
        /\ \A i \in DOMAIN live : <<live[i].on, live[i].name>> # <<read.on, read.got.name>>

CallMember(r) ==
    LET read == icReads[r]
    IN  /\ icError = IcNone /\ Len(icStack) < IcMaxStack
        /\ MemberOf(read.on, read.member).kind = "method" /\ ~read.refused
        /\ icStack' = Append(icStack, [on |-> read.on, fn |-> read.got.fn, name |-> read.got.name,
                                       receiver |-> ReceiverOf(read), traced |-> Traces(read)])
        /\ UNCHANGED <<icApp, icWarned, icGiven, icCache, icReads, icError>>

(* V8 types a frame whose receiver is a Proxy "Proxy".                     *)
FrameType(call) == IF call.receiver = "proxy" THEN <<"Proxy">> ELSE Provider(call.on).name
Throw ==
    /\ icStack # <<>> /\ icError = IcNone
    /\ LET calls == Reverse(icStack)
       IN  icError' = [calls |-> calls,
                       frames |-> [i \in DOMAIN calls |-> [type |-> FrameType(calls[i]),
                                                           fn |-> calls[i].fn]]]
    /\ UNCHANGED <<icApp, icWarned, icGiven, icCache, icReads, icStack>>

(* relabelProxyFrame: the first frame of that method still typed "Proxy".  *)
Relabelled(frames, className, methodName) ==
    LET hits == {i \in DOMAIN frames : frames[i] = [type |-> <<"Proxy">>, fn |-> methodName]}
    IN  [i \in DOMAIN frames |->
           IF i \in hits /\ \A j \in hits : i <= j THEN [frames[i] EXCEPT !.type = className]
           ELSE frames[i]]

(* The error, thrown or rejected with, leaves the innermost call.          *)
Unwind ==
    /\ icError # IcNone /\ icStack # <<>>
    /\ LET call == Last(icStack)
       IN  icError' = IF call.traced
                      THEN [icError EXCEPT
                              !.frames = Relabelled(@, Provider(call.on).name, call.name)]
                      ELSE icError
    /\ icStack' = Front(icStack)
    /\ UNCHANGED <<icApp, icWarned, icGiven, icCache, icReads>>

Return ==
    /\ icError = IcNone /\ icStack # <<>>
    /\ icStack' = Front(icStack)
    /\ UNCHANGED <<icApp, icWarned, icGiven, icCache, icReads, icError>>

IcNext ==
    \/ CreateProfilerInstrument
    \/ \E p \in DOMAIN icApp.providers : Decorate(p) \/ \E m \in DOMAIN Provider(p).members :
                                            ReadMember(p, m)
    \/ \E r \in DOMAIN icReads : CallMember(r)
    \/ Throw \/ Unwind \/ Return

IcSpec == IcInit /\ [][IcNext]_icVars

-----------------------------------------------------------------------------
(* Types: what the variables may hold.                                     *)
IcTypeOK ==
    /\ icApp \in IcApps /\ icWarned \in BOOLEAN \cup {IcNone}
    /\ \A p \in DOMAIN icGiven : icGiven[p] \in {"undecorated", "raw", "proxy"}
    /\ Len(icReads) <= IcMaxReads /\ Len(icStack) <= IcMaxStack

(* "Would a Proxy around this break it?": whatever is read and in whatever *)
(* order, a method that touches a private field or an internal slot runs   *)
(* on the instance itself, a callable keeps what hangs off it, a method    *)
(* that was wrapped keeps the metadata Nest reads, and reading a property  *)
(* again gives the very same function.                                     *)
InstrumentedCodeWorks ==
    /\ \A i \in DOMAIN icReads :
         LET read == icReads[i]
             v == MemberOf(read.on, read.member)
         IN  /\ v.kind = "method" /\ v.branded => ReceiverOf(read) = "target"
             /\ v.statics \subseteq read.got.statics
             /\ v.meta \subseteq read.got.meta
                  \/ (read.got.how = "own" /\ read.got.receiver = "target")
             /\ \A j \in DOMAIN icReads :
                  <<icReads[j].on, icReads[j].member>> = <<read.on, read.member>>
                     => icReads[j].got = read.got

(* A name reads as a pattern when its words fall to the pattern's in       *)
(* order, one to each that is not a `*`, to a `*` any but the dot.         *)
ReadsAs(pattern, name) ==
    \E at \in [DOMAIN name -> DOMAIN pattern] :
        /\ \A i \in DOMAIN name, j \in DOMAIN name : i < j => at[i] <= at[j]
        /\ \A i \in DOMAIN name :
             IF pattern[at[i]] = "*" THEN name[i] # "." ELSE name[i] = pattern[at[i]]
        /\ \A k \in DOMAIN pattern :
             pattern[k] # "*" => Cardinality({i \in DOMAIN name : at[i] = k}) = 1

(* "'Product' does not take ProductRepository with it": a method excluded  *)
(* by its label, or with its class, opens no span, and neither does the    *)
(* profiler's own code; every other method of a provider that was wrapped  *)
(* does, whatever was read before it: only another name of the same        *)
(* function changes that.                                                  *)
ExclusionsHold ==
    \A i \in DOMAIN icReads :
        LET read == icReads[i]
            m == read.member
            class == Provider(read.on).name
            label == class \o <<".", m>>
            excluded == \E t \in icApp.exclude :
                IF t.regexp
                THEN \E from \in DOMAIN label : IsPrefix(t.words, SubSeq(label, from, Len(label)))
                ELSE ReadsAs(t.words, label) \/ ReadsAs(t.words, class)
            alias == read.got.name # m
        IN  /\ read.got.how = "traced" =>
                 /\ ~excluded \/ alias
                 /\ ~icApp.includeInternals => ~IsInternal(read.on)
            /\ \/ excluded \/ alias \/ read.got.how = "traced" \/ NotTraced(read.on, m)
               \/ IsInternal(read.on) \/ IsClsService(read.on) \/ IsAnonymous(read.on)
               \/ read.on \in icApp.skip \/ Provider(read.on).native \/ Provider(read.on).hostile

(* "Two classes sharing a method name each end up right": once an error    *)
(* is out of every call, the frame of a traced call names the class its    *)
(* method belongs to, unless a call of that name left a frame nothing      *)
(* relabels (excluded, too deep, recursive, read by another name), or ran  *)
(* on the instance itself: its wrapper then relabels a frame of another.   *)
FramesNameTheirClass ==
    icError # IcNone /\ icStack = <<>> =>
        LET calls == icError.calls
            proxied(i) == calls[i].receiver = "proxy"
            relabels(i) == calls[i].traced /\ calls[i].name = calls[i].fn
            confuses(j, fn) ==
                \/ proxied(j) /\ ~relabels(j) /\ calls[j].fn = fn
                \/ ~proxied(j) /\ calls[j].traced /\ calls[j].name = fn
        IN  \A i \in DOMAIN calls :
              /\ relabels(i)
              /\ \A j \in DOMAIN calls \ {i} : ~confuses(j, calls[i].fn)
              => icError.frames[i].type = Provider(calls[i].on).name

(* The instrumented application behaves, is shown, and fails as the bare   *)
(* one would.                                                              *)
InstrumentationIsTransparent == InstrumentedCodeWorks /\ ExclusionsHold /\ FramesNameTheirClass
=============================================================================

------------------------------ MODULE SecretPanels ------------------------------
(***************************************************************************)
(* The Config panel, read from the application's configuration once at     *)
(* bootstrap (config.collector.ts), and the Security panel, read from the  *)
(* request when the profile is collected (auth.collector.ts): whatever the *)
(* guards and the handler made of req.user by then is what it shows.       *)
(***************************************************************************)
EXTENDS Masking

CONSTANTS
    SeScenarios,   \* [config: value or SeThrows or SeNone, maskKeys: sets of keys and paths; user,
                   \* header, maskUserFields, badge, resolver]
    SeSecretKeys,  \* the words SECRET_RE matches in a key
    SeValidated,   \* the key of the validated environment
    SeRank,        \* namespace -> its rank by localeCompare
    SeThrows, SeNone

VARIABLES
    seScenario,
    seConfig,    \* the configuration the application holds now
    seGroups,    \* [groups, keyCount, warned, from: what was read], SeNone before bootstrap
    seUser,      \* req.user, SeNone if none
    seSecurity   \* profile.security, SeNone before collection

seVars == <<seScenario, seConfig, seGroups, seUser, seSecurity>>

-----------------------------------------------------------------------------
(* The Config panel.                                                       *)
ShouldMaskKey(key, fullKey) ==
    (\E i \in DOMAIN key : key[i] \in SeSecretKeys) \/ key \in seScenario.maskKeys \/ fullKey \in seScenario.maskKeys

MaskLeaf(key, fullKey, value) ==
    IF ShouldMaskKey(key, fullKey) THEN MkText(Replaced)
    ELSE IF value.kind = "text" THEN MkText(RedactString(value.text, {})) ELSE value

(* Entries by the key they show, the last one of two that show the same.   *)
Assigned(entries) ==
    [shown \in {entries[i].key : i \in DOMAIN entries} |->
       entries[Max({i \in DOMAIN entries : entries[i].key = shown})].value]

RECURSIVE FlattenAndMask(_, _, _)
FlattenAndMask(value, displayPrefix, maskPrefix) ==
    FlattenSeq([i \in DOMAIN value.items |->
        LET item == value.items[i]
            display == displayPrefix \o item.key
            full == maskPrefix \o item.key
        IN  IF item.value.kind = "object" THEN FlattenAndMask(item.value, display, full)
            ELSE <<[key |-> display, value |-> MaskLeaf(item.key, full, item.value)]>>])

(* Namespaces sorted by name; of two values of one rank the one that came  *)
(* first stays first.                                                      *)
BuildGroups(config) ==
    LET items == SelectSeq(config.items, LAMBDA item : item.key # SeValidated)
        spaces == SelectSeq(items, LAMBDA item : item.value.kind = "object")
        general == SelectSeq(items, LAMBDA item : item.value.kind # "object")
        Group(item) == [name |-> item.key,
                        entries |-> Assigned(FlattenAndMask(item.value, <<>>, item.key))]
        General == [name |-> <<"General">>,
                    entries |-> Assigned([i \in DOMAIN general |->
                        [key |-> general[i].key,
                         value |-> MaskLeaf(general[i].key, general[i].key, general[i].value)]])]
    IN  (IF general = <<>> THEN <<>> ELSE <<General>>)
        \o SortSeq([i \in DOMAIN spaces |-> Group(spaces[i])],
                   LAMBDA a, b : SeRank[a.name] < SeRank[b.name])

ConfigKeyCount(groups) ==
    FoldSeq(LAMBDA group, sum : sum + Cardinality(DOMAIN group.entries), 0, groups)

ReadConfig ==
    LET config == IF seConfig.kind = "object" THEN seConfig ELSE MkMembers("object", <<>>)
        groups == IF seConfig \in {SeNone, SeThrows} THEN <<>> ELSE BuildGroups(config)
    IN  /\ seGroups = SeNone
        /\ seGroups' = [groups |-> groups, keyCount |-> ConfigKeyCount(groups), from |-> seConfig,
                        warned |-> seConfig \notin {SeNone, SeThrows} /\ ConfigKeyCount(groups) = 0]
        /\ UNCHANGED <<seScenario, seConfig, seUser, seSecurity>>

(* ConfigService.set() at any time.                                        *)
HostSets ==
    /\ seConfig \notin {SeNone, SeThrows} /\ seConfig.kind = "object" /\ seConfig.items # <<>>
    /\ seConfig' = MkMembers("object", <<seConfig.items[1]>>)
    /\ UNCHANGED <<seScenario, seGroups, seUser, seSecurity>>

ConfigBadge == IF seGroups.keyCount > 0 THEN seGroups.keyCount ELSE SeNone

-----------------------------------------------------------------------------
(* The Security panel.  Texts are sequences of characters; String() of an  *)
(* object or a list is the one character "o".                              *)
MemberAt(value, key) ==
    LET at == {i \in DOMAIN value.items : value.items[i].key = <<key>>}
    IN  IF value.kind \notin {"object", "instance"} \/ at = {} THEN SeNone
        ELSE IF value.items[Min(at)].value.kind = "null" THEN SeNone ELSE value.items[Min(at)].value

FirstThere(value, keys) ==
    LET there == SelectSeq(keys, LAMBDA key : MemberAt(value, key) # SeNone)
    IN  IF there = <<>> THEN SeNone ELSE MemberAt(value, there[1])

AsString(value) == IF value.kind = "text" THEN value.text ELSE IF MkOpen(value) THEN <<"o">> ELSE <<"1">>

RoleToString(role) ==
    LET label == IF role.kind = "object" THEN FirstThere(role, <<"name", "role", "id">>) ELSE SeNone
    IN  IF role.kind = "text" \/ label = SeNone THEN AsString(role)
        ELSE IF label.kind \in {"text", "number"} THEN AsString(label) ELSE AsString(role)

ExtractRoles(user) ==
    LET raw == IF user = SeNone THEN SeNone ELSE FirstThere(user, <<"roles", "role">>)
    IN  IF raw = SeNone THEN SeNone
        ELSE IF raw.kind = "list" THEN [i \in DOMAIN raw.items |-> RoleToString(raw.items[i].value)]
        ELSE IF raw.kind = "text" THEN <<raw.text>> ELSE SeNone

(* The Authorization header: its segments, the second one holding what     *)
(* decodes to a value, or nothing.                                         *)
DecodeJwt(header) ==
    IF header = SeNone \/ Len(header) # 3 THEN SeNone
    ELSE IF header[2] = SeNone THEN SeNone
    ELSE IF header[2].kind = "object" THEN header[2] ELSE SeNone

MaskUser(user) == Redact(user, MkBuiltIn \cup seScenario.maskUserFields, {})

CollectSecurity ==
    LET claims == DecodeJwt(seScenario.header)
    IN  /\ seSecurity = SeNone
        /\ seSecurity' = [isAuthenticated |-> seUser # SeNone,
                          user |-> IF seUser = SeNone THEN SeNone ELSE MaskUser(seUser),
                          roles |-> ExtractRoles(seUser),
                          jwtClaims |-> IF claims = SeNone THEN SeNone ELSE Redact(claims, MkBuiltIn, {})]
        /\ UNCHANGED <<seScenario, seConfig, seGroups, seUser>>

GuardAuthenticates ==
    /\ seUser = SeNone /\ seSecurity = SeNone /\ seScenario.user # SeNone
    /\ seUser' = seScenario.user
    /\ UNCHANGED <<seScenario, seConfig, seGroups, seSecurity>>

HandlerLogsOut ==
    /\ seUser # SeNone
    /\ seUser' = SeNone
    /\ UNCHANGED <<seScenario, seConfig, seGroups, seSecurity>>

IdentifierBadge(security) ==
    LET identifier == IF security.user = SeNone THEN SeNone
                      ELSE FirstThere(security.user, <<"username", "email", "sub", "id">>)
    IN  IF identifier = SeNone THEN <<"auth">>
        ELSE IF identifier.kind \in {"text", "number"} THEN AsString(identifier) ELSE <<"auth">>

SecurityBadge ==
    IF seSecurity = SeNone THEN SeNone
    ELSE IF ~seSecurity.isAuthenticated THEN <<"anon">>
    ELSE IF seScenario.resolver THEN <<"custom">>
    ELSE CASE seScenario.badge = "identifier" -> IdentifierBadge(seSecurity)
           [] seScenario.badge = "role" ->
                IF seSecurity.roles = SeNone \/ seSecurity.roles = <<>> THEN <<"auth">>
                ELSE seSecurity.roles[1]
           [] seScenario.badge = "status" -> <<"auth">>

-----------------------------------------------------------------------------
SeStart(scenario) ==
    /\ seScenario = scenario
    /\ seConfig = scenario.config
    /\ seGroups = SeNone
    /\ seUser = SeNone
    /\ seSecurity = SeNone

SeInit == \E scenario \in SeScenarios : SeStart(scenario)
SeNext ==
    \/ ReadConfig \/ HostSets
    \/ GuardAuthenticates \/ HandlerLogsOut \/ CollectSecurity

-----------------------------------------------------------------------------
SeTypeOK ==
    /\ seGroups = SeNone \/ seGroups.keyCount \in Nat
    /\ seUser = SeNone \/ seUser.kind = "object"
    /\ seSecurity = SeNone \/ seSecurity.isAuthenticated \in BOOLEAN

(* Where the leaves of plain objects are, with the key they are under.     *)
RECURSIVE LeavesFrom(_, _)
LeavesFrom(value, path) ==
    UNION {LET item == value.items[i]
           IN  IF item.value.kind = "object" THEN LeavesFrom(item.value, Append(path, item.key))
               ELSE {[path |-> Append(path, item.key), value |-> item.value]} : i \in DOMAIN value.items}

ConfigWasRead ==
    seGroups # SeNone /\ seGroups.from \notin {SeNone, SeThrows} /\ seGroups.from.kind = "object"

LeavesRead == {leaf \in LeavesFrom(seGroups.from, <<>>) : leaf.path[1] # SeValidated}
ShownAs(leaf) == FlattenSeq(IF Len(leaf.path) = 1 THEN leaf.path ELSE Tail(leaf.path))
GroupOf(leaf) == IF Len(leaf.path) = 1 THEN <<"General">> ELSE leaf.path[1]
ShownAlone(leaf) ==
    \A other \in LeavesRead :
        GroupOf(other) = GroupOf(leaf) /\ ShownAs(other) = ShownAs(leaf) => other = leaf

(* What a reader may see of a leaf: nothing if its own key is secret or is *)
(* asked to be masked by its name or its path; a text without credentials; *)
(* anything else as it is.                                                 *)
Presentable(leaf, shown) ==
    LET key == Last(leaf.path)
    IN  IF (\E i \in DOMAIN key : key[i] \in SeSecretKeys)
           \/ {key, FlattenSeq(leaf.path)} \cap seScenario.maskKeys # {}
        THEN shown = MkText(Replaced)
        ELSE IF leaf.value.kind = "text" THEN Characters(shown) \cap CredentialCharacters = {}
        ELSE shown = leaf.value

(* Every value the configuration held at bootstrap is listed once, in its  *)
(* namespace and under its path there, masked as its full path asks; two   *)
(* paths that read the same are one entry.  The validated environment, the *)
(* same secrets again, is never listed, and the badge counts what is.      *)
ConfigIsListedAndMasked ==
    ConfigWasRead =>
        LET groups == seGroups.groups
        IN  /\ \A leaf \in LeavesRead :
                 \E g \in DOMAIN groups :
                    /\ groups[g].name = GroupOf(leaf) /\ ShownAs(leaf) \in DOMAIN groups[g].entries
                    /\ ShownAlone(leaf) => Presentable(leaf, groups[g].entries[ShownAs(leaf)])
            /\ seGroups.keyCount = Cardinality({<<GroupOf(leaf), ShownAs(leaf)>> : leaf \in LeavesRead})
            /\ \A g \in DOMAIN groups : groups[g].name # SeValidated
            /\ \A g, h \in DOMAIN groups : groups[g].name = <<"General">> /\ g # h => g < h
            /\ \A g \in DOMAIN groups : groups[g].name = <<"General">> => DOMAIN groups[g].entries # {}
            /\ seGroups.warned <=> ConfigBadge = SeNone

(* The Security panel is of the request as it was at collection: a session *)
(* the handler ended is anonymous, whatever its token still claims.  It    *)
(* shows no credential, nothing under a secret key nor in a field asked to *)
(* be masked, and neither does the badge, a role's name aside; every role  *)
(* has its name.                                                           *)
SecurityTellsTheRequest ==
    seSecurity # SeNone =>
        LET user == seScenario.user
            masked == MkBuiltIn \cup seScenario.maskUserFields
        IN  /\ seSecurity.isAuthenticated <=> SecurityBadge # <<"anon">>
            /\ ~seSecurity.isAuthenticated => seSecurity.user = SeNone /\ seSecurity.roles = SeNone
            /\ seSecurity.isAuthenticated /\ Nesting(user) <= MkDepth =>
                 /\ Characters(seSecurity.user) \subseteq
                      (CharactersBut(user, masked) \ CredentialCharacters) \cup {"R"}
                 /\ seScenario.badge # "role" /\ ~seScenario.resolver =>
                      \/ SecurityBadge = <<"auth">>
                      \/ ToSet(SecurityBadge) \subseteq Characters(seSecurity.user) \cup {"1"}
            /\ seSecurity.jwtClaims # SeNone =>
                 Characters(seSecurity.jwtClaims) \cap (CredentialCharacters \cup {"s"}) = {}
            /\ seSecurity.isAuthenticated =>
                 \A i \in DOMAIN user.items :
                    user.items[i].key = <<"roles">> /\ user.items[i].value.kind = "list" =>
                      /\ Len(seSecurity.roles) = Len(user.items[i].value.items)
                      /\ \A r \in DOMAIN seSecurity.roles :
                           seSecurity.roles[r] = <<"o">> =>
                             LET role == user.items[i].value.items[r].value
                             IN  \A j \in DOMAIN role.items :
                                   role.items[j].key = <<"name">> => role.items[j].value.kind # "text"

(* Both panels.                                                            *)
SecretPanelsTellTheTruth == ConfigIsListedAndMasked /\ SecurityTellsTheRequest
==============================================================================

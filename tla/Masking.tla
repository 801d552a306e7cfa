-------------------------------- MODULE Masking --------------------------------
(***************************************************************************)
(* What redact and redactString (utils/redact.utils.ts) make of the texts  *)
(* a value holds.  CapturedData follows the same function over the shapes  *)
(* of values, shared and circular ones included; here a value is a tree    *)
(* and it is its texts that matter.                                        *)
(*                                                                         *)
(* A text is a sequence of characters: "<", "=" and ">" are those of a     *)
(* credential the built-in patterns match, from "<" to ">"; a character of *)
(* another pattern stands for all that pattern matches; "R" replaces a     *)
(* match.  A key is a sequence of words, more than one where it has dots.  *)
(***************************************************************************)
EXTENDS Naturals, Sequences, SequencesExt, FiniteSets, FiniteSetsExt

CONSTANTS
    MkDepth,    \* redact's maxDepth
    MkLongest,  \* the longest credential a pattern matches, in characters
    MkBuiltIn   \* the keys of DEFAULT_SECRET_KEY_RE

ASSUME MkAssumption == MkDepth \in Nat \ {0} /\ MkLongest \in Nat \ {0, 1}

MkText(text) == [kind |-> "text", text |-> text, items |-> <<>>]
MkLeaf(kind) == [kind |-> kind, text |-> <<>>, items |-> <<>>]  \* "null", "number", "bigint"
MkList(values) ==
    [kind |-> "list", text |-> <<>>,
     items |-> [i \in DOMAIN values |-> [key |-> <<>>, value |-> values[i]]]]
MkMembers(kind, items) == [kind |-> kind, text |-> <<>>, items |-> items]  \* "object", "instance"

MkOpen(value) == value.kind \in {"list", "object", "instance"}
Replaced == <<"R">>

(* Where the credential that starts at i ends, 0 if none starts there.     *)
CredentialEnd(text, i) ==
    LET ends == {j \in (i + 1)..Len(text) :
                   text[i] = "<" /\ text[j] = ">" /\ \A k \in (i + 1)..(j - 1) : text[k] = "="}
    IN  IF ends = {} \/ Min(ends \cup {Len(text)}) - i >= MkLongest THEN 0 ELSE Min(ends)

RedactString(text, patterns) ==
    LET From[i \in 1..(Len(text) + 1)] ==
            IF i > Len(text) THEN <<>>
            ELSE IF CredentialEnd(text, i) > 0 THEN Replaced \o From[CredentialEnd(text, i) + 1]
            ELSE (IF text[i] \in patterns THEN Replaced ELSE <<text[i]>>) \o From[i + 1]
    IN  From[1]

(* A container too deep is returned untouched; an instance becomes a plain *)
(* object of its own properties.                                           *)
RECURSIVE RedactInner(_, _, _, _)
RedactInner(value, depth, keys, patterns) ==
    IF value.kind = "text" THEN MkText(RedactString(value.text, patterns))
    ELSE IF value.kind = "bigint" THEN MkText(<<"a">>)
    ELSE IF ~MkOpen(value) \/ depth >= MkDepth THEN value
    ELSE MkMembers(IF value.kind = "list" THEN "list" ELSE "object",
            [i \in DOMAIN value.items |->
               [key |-> value.items[i].key,
                value |-> IF value.items[i].key \in keys THEN MkText(Replaced)
                          ELSE RedactInner(value.items[i].value, depth + 1, keys, patterns)]])

Redact(value, keys, patterns) == RedactInner(value, 0, keys, patterns)

(* The JSON text of a value, a character for each of its marks and keys.   *)
RECURSIVE Json(_)
Json(value) ==
    IF value.kind = "text" THEN <<"q">> \o value.text \o <<"q">>
    ELSE IF ~MkOpen(value) THEN <<"a">>
    ELSE <<"{">> \o FlattenSeq([i \in DOMAIN value.items |->
                                  <<"k">> \o Json(value.items[i].value)]) \o <<"}">>

(* JSON.stringify throws on a BigInt.                                      *)
RECURSIVE HoldsBigInt(_)
HoldsBigInt(value) ==
    value.kind = "bigint" \/ \E i \in DOMAIN value.items : HoldsBigInt(value.items[i].value)

RECURSIVE Nesting(_)
Nesting(value) ==
    IF ~MkOpen(value) THEN 0
    ELSE 1 + Max({0} \cup {Nesting(value.items[i].value) : i \in DOMAIN value.items})

(* The characters a value holds, a mask's aside, but for what is under the *)
(* keys.                                                                   *)
RECURSIVE CharactersBut(_, _)
CharactersBut(value, keys) ==
    ToSet(value.text) \cup
    UNION {CharactersBut(value.items[i].value, keys) :
             i \in {j \in DOMAIN value.items : value.items[j].key \notin keys}}
Characters(value) == CharactersBut(value, {})

CredentialCharacters == {"<", "=", ">"}
==============================================================================

------------------------------ MODULE SchemaGraph ------------------------------
(***************************************************************************)
(* The Schema panels: what each ORM registered, read once at bootstrap     *)
(* into one normal form (typeorm-schema.collector.ts,                      *)
(* mikro-orm-schema.collector.ts, mongoose-schema.collector.ts), and the   *)
(* diagram drawn of it (mermaid-er.ts, mermaid-document.ts).               *)
(*                                                                         *)
(* A name is a sequence of words; SgUnsafe stands in it for characters     *)
(* Mermaid does not take.  A path is a sequence of names.                  *)
(***************************************************************************)
EXTENDS Sequences, SequencesExt, FiniteSets, Naturals, TLC

CONSTANTS
    SgNone, SgUnsafe, SgFailed,
    SgWords,       \* every word, in the order of string comparison
    SgApps,        \* what applications declare of each ORM
    SgMaxDepth     \* MAX_DEPTH

ASSUME SgAssumption == SgMaxDepth \in Nat \ {0}

SgOrms == {"typeorm", "mikroorm", "mongoose"}

VARIABLES
    sgApp,
    sgReady,    \* the ORMs whose connection is open
    sgEntities, \* ORM -> its entities
    sgMermaid   \* ORM -> its diagram, or SgNone

sgVars == <<sgApp, sgReady, sgEntities, sgMermaid>>

-----------------------------------------------------------------------------
(* A column's declared default, as text: literals as they are, a factory   *)
(* named for what it is, an object as JSON, which may refuse.              *)
DefaultText(default) == IF default = "factory" THEN "() => ..." ELSE default
DefaultThrows(default) == default = "cyclic"

SgColumn(name, type, nullable, primary, generated, default, length) ==
    [name |-> name, type |-> type, nullable |-> nullable, primary |-> primary,
     generated |-> generated, default |-> default, length |-> length, depth |-> 0,
     embedded |-> SgNone, shape |-> SgNone]
SgRelation(property, kind, target, inverse) ==
    [property |-> property, kind |-> kind, target |-> target, inverse |-> inverse]
PathOf(property) == IF property = SgNone THEN SgNone ELSE <<property>>
SgEntity(name, columns, relations, indexes) ==
    [name |-> name, columns |-> columns, relations |-> relations, indexes |-> indexes]

(* TypeORM: its metadata has the normal form's fields.                     *)
TypeOrmEntity(e) ==
    SgEntity(e.name,
        [i \in DOMAIN e.columns |->
            LET c == e.columns[i]
            IN  SgColumn(<<c.property>>, c.type, c.nullable, c.primary, c.generated,
                         DefaultText(c.default), c.length)],
        [i \in DOMAIN e.relations |->
            LET r == e.relations[i]
            IN  SgRelation(<<r.property>>, r.kind, r.target, PathOf(r.inverse))],
        e.indexes)

(* MikroORM: a class that is not abstract; scalar properties are columns,  *)
(* and either side of a relation may name the other.                       *)
RelationKind(kind) ==
    CASE kind = "1:1" -> "one-to-one" [] kind = "1:m" -> "one-to-many"
      [] kind = "m:1" -> "many-to-one" [] kind = "m:n" -> "many-to-many"
      [] OTHER -> kind
MikroOrmEntity(e) ==
    LET scalars == SelectSeq(e.props, LAMBDA p : p.kind = "scalar")
        inverse(p) == IF p.mappedBy # SgNone THEN p.mappedBy ELSE p.inversedBy
    IN  SgEntity(e.name,
            [i \in DOMAIN scalars |->
                LET p == scalars[i]
                IN  SgColumn(<<p.name>>, p.type, p.nullable, p.primary,
                             p.autoincrement \/ p.generated, p.default, p.length)],
            [i \in DOMAIN e.relations |->
                LET p == e.relations[i]
                IN  SgRelation(<<p.name>>, RelationKind(p.kind), p.target, PathOf(inverse(p)))],
            e.indexes \o e.uniques)
MikroOrmEntities(metas) ==
    LET real == SelectSeq(metas, LAMBDA e : ~e.abstract /\ e.name # SgNone)
    IN  [i \in DOMAIN real |-> MikroOrmEntity(real[i])]

(* Mongoose: dotted paths folded back into a tree, embedded schemas opened *)
(* in place, unless they embed their own kind.                             *)
RelationRef(p) ==
    IF p.ref # SgNone THEN [target |-> p.ref, many |-> p.instance = "Array"]
    ELSE IF p.element.ref # SgNone THEN [target |-> p.element.ref, many |-> TRUE] ELSE SgNone
PathTypeOf(p) ==
    IF p.instance # "Array" \/ p.element.instance = SgNone THEN <<p.instance>>
    ELSE <<p.element.instance, "[]">>

FieldNode(path, type, required, default, ref, embedded, children) ==
    [path |-> path, type |-> type, required |-> required, default |-> default, ref |-> ref,
     embedded |-> embedded, children |-> children]

RECURSIVE FieldsOf(_, _, _)
FieldOf(path, p, ancestors) ==
    LET many == p.instance = "Array"
        opens == p.schema \notin ancestors /\ Cardinality(ancestors) < SgMaxDepth
        below == sgApp.schemas[p.schema]
    IN  IF p.schema = SgNone
        THEN FieldNode(path, PathTypeOf(p), p.required, DefaultText(p.default), RelationRef(p),
                       SgNone, <<>>)
        ELSE FieldNode(path, IF many THEN <<"Subdocument", "[]">> ELSE <<"Subdocument">>, p.required,
                       DefaultText(p.default), RelationRef(p), IF many THEN "many" ELSE "one",
                       IF opens THEN FieldsOf(below, path, ancestors \cup {p.schema}) ELSE <<>>)
(* A node for each path that ends here, and one for all that go on below   *)
(* the same name: a Map, m and m.$*, has both.                             *)
FieldsOf(paths, prefix, ancestors) ==
    LET node(p) == [name |-> p.key[1], leaf |-> Len(p.key) = 1]
        nodes == FoldLeft(LAMBDA seen, p : IF Contains(seen, node(p)) THEN seen
                                           ELSE Append(seen, node(p)), <<>>, paths)
        of(n) == SelectSeq(paths, LAMBDA p : node(p) = n)
        below(n) == [j \in DOMAIN of(n) |-> [of(n)[j] EXCEPT !.key = Tail(of(n)[j].key)]]
    IN  [i \in DOMAIN nodes |->
            LET path == Append(prefix, nodes[i].name)
            IN  IF nodes[i].leaf THEN FieldOf(path, of(nodes[i])[1], ancestors)
                ELSE FieldNode(path, <<"Object">>, FALSE, SgNone, SgNone, "one",
                               FieldsOf(below(nodes[i]), path, ancestors))]

RECURSIVE ShapeKey(_), Flattened(_, _)
ShapeKey(field) ==
    [i \in DOMAIN field.children |->
        LET child == field.children[i]
        IN  <<Last(child.path), child.type, child.required,
              IF child.ref = SgNone THEN SgNone ELSE child.ref.target, child.embedded,
              ShapeKey(child)>>]
Flattened(fields, depth) ==
    FlattenSeq([i \in DOMAIN fields |->
        <<[field |-> fields[i], depth |-> depth]>> \o Flattened(fields[i].children, depth + 1)])

IdName == <<"_id">>
MapModel(model) ==
    LET fields == Flattened(FieldsOf(sgApp.schemas[model.schema], <<>>, {model.schema}), 0)
        column(f, depth) ==
            [SgColumn(f.path, f.type, ~f.required, f.path = <<IdName>>, Last(f.path) = IdName,
                      f.default, SgNone)
               EXCEPT !.depth = depth, !.embedded = f.embedded,
                      !.shape = IF f.embedded # SgNone /\ f.type # <<"Object">>
                                THEN ShapeKey(f) ELSE SgNone]
        refs == SelectSeq(fields, LAMBDA x : x.field.ref # SgNone)
    IN  SgEntity(model.name,
            [i \in DOMAIN fields |-> column(fields[i].field, fields[i].depth)],
            [i \in DOMAIN refs |->
                SgRelation(refs[i].field.path, IF refs[i].field.ref.many THEN "ref[]" ELSE "ref",
                           refs[i].field.ref.target, SgNone)],
            model.indexes)

-----------------------------------------------------------------------------
(* Both diagrams: blocks with attributes, and lines between them.          *)
Token(name) == SelectSeq(name, LAMBDA word : word # SgUnsafe)
UniqueColumns(e) ==
    {e.indexes[i].columns[1] : i \in {j \in DOMAIN e.indexes :
        e.indexes[j].unique /\ Len(e.indexes[j].columns) = 1}}
Attribute(e, c, root, ref) ==
    [name |-> Token(Last(c.name)), type |-> <<c.type, c.length>>, ref |-> ref,
     keys |-> (IF root /\ c.primary THEN {"PK"} ELSE {})
              \cup (IF c.name \in UniqueColumns(e) THEN {"UK"} ELSE {})]
Block(id, label, shared, attributes) ==
    [id |-> id, label |-> label, shared |-> shared, attributes |-> attributes]

(* Relational: one line for both declarations of a relation.               *)
Cardinalities == {"many-to-one", "one-to-one", "many-to-many"}
Drawn(left, right, kind, leftProperty, rightProperty) ==
    [left |-> left, right |-> right, kind |-> kind, leftProperty |-> leftProperty,
     rightProperty |-> rightProperty]
WordRank(word) == CHOOSE i \in DOMAIN SgWords : SgWords[i] = word
Above(a, b) ==
    \E i \in DOMAIN a :
        /\ \A j \in 1 .. i - 1 : j \in DOMAIN b /\ a[j] = b[j]
        /\ i \notin DOMAIN b \/ WordRank(a[i]) > WordRank(b[i])
EndKey(name, property) == name \o (IF property = SgNone THEN <<>> ELSE Last(property))
EdgeOf(owner, r) ==
    IF r.kind = "one-to-many" THEN Drawn(r.target, owner, "many-to-one", r.inverse, r.property)
    ELSE IF r.kind = "many-to-one" THEN Drawn(owner, r.target, r.kind, r.property, r.inverse)
    ELSE IF Above(EndKey(owner, r.property), EndKey(r.target, r.inverse))
    THEN Drawn(r.target, owner, r.kind, r.inverse, r.property)
    ELSE Drawn(owner, r.target, r.kind, r.property, r.inverse)
InverseOf(entities, owner, r) ==
    LET others == SelectSeq(entities, LAMBDA e : e.name = r.target)
        naming == IF others = <<>> THEN <<>>
                  ELSE SelectSeq(Last(others).relations,
                                 LAMBDA o : o.target = owner /\ o.inverse = r.property)
    IN  IF r.inverse # SgNone THEN r.inverse
        ELSE IF naming = <<>> THEN SgNone ELSE naming[1].property
EntityBlock(e) ==
    Block(Token(e.name), e.name, FALSE,
          [i \in DOMAIN e.columns |-> Attribute(e, e.columns[i], TRUE, SgNone)])
ToMermaidErDiagram(entities) ==
    LET edges(e) == {EdgeOf(e.name, [r EXCEPT !.inverse = InverseOf(entities, e.name, r)]) :
                       r \in ToSet(e.relations)}
    IN  [blocks |-> [i \in DOMAIN entities |-> EntityBlock(entities[i])], embeds |-> {},
         lines |-> {edge \in UNION {edges(entities[i]) : i \in DOMAIN entities} :
                      edge.kind \in Cardinalities}]

(* Documents: blocks for what is embedded, a shape embedded in several     *)
(* places drawn once.                                                      *)
EmbedsOf(entities) ==
    SelectSeq(FlattenSeq([i \in DOMAIN entities |-> entities[i].columns]),
              LAMBDA c : c.embedded # SgNone /\ c.shape # SgNone)
SharedShapes(entities) ==
    {EmbedsOf(entities)[i].shape : i \in {j \in DOMAIN EmbedsOf(entities) :
        \E k \in DOMAIN EmbedsOf(entities) : k # j /\ EmbedsOf(entities)[k].shape = EmbedsOf(entities)[j].shape}}
SharedLabel(entities, shape) ==
    LET same == SelectSeq(EmbedsOf(entities), LAMBDA c : c.shape = shape)
    IN  {Last(same[i].name) : i \in DOMAIN same}
(* idAllocator                                                             *)
Allocated(wanted, used) ==
    IF wanted \notin used THEN wanted
    ELSE LET numbered(n) == Append(wanted, ToString(n))
         IN  numbered(CHOOSE n \in 2 .. Cardinality(used) + 2 :
                          numbered(n) \notin used /\ \A k \in 2 .. n - 1 : numbered(k) \in used)

NoDrawing(entities) ==
    [blocks |-> <<>>, embeds |-> {}, used |-> {Token(entities[i].name) : i \in DOMAIN entities},
     shapes |-> <<>>, lines |-> {}]
Opened(entity, at) ==
    [d |-> [at EXCEPT !.blocks = Append(@, Block(Token(entity.name), entity.name, FALSE, <<>>))],
     blockOf |-> <<>>, stack |-> <<Len(at.blocks) + 1>>, recording |-> <<>>, reused |-> SgNone]
Relative(c, prefix) == SubSeq(c.name, Len(prefix) + 1, Len(c.name))
Least(a, b) == IF a < b THEN a ELSE b

Skipped(s, c) ==
    LET known == s.d.shapes[s.reused.shape].blockOf
        relative == Relative(c, s.reused.prefix)
        block == IF relative \in DOMAIN known THEN known[relative]
                 ELSE s.d.shapes[s.reused.shape].id
    IN  [s EXCEPT !.blockOf = (c.name :> block) @@ @]
Listed(entity, s, c) ==
    LET depth == Least(c.depth, Len(s.stack) - 1)
        owner == s.stack[depth + 1]
        id == s.d.blocks[owner].id
        ref == SelectSeq(entity.relations, LAMBDA r : r.property = c.name)
        open == SelectSeq(s.recording, LAMBDA r : depth > r.depth)
        recorded == [shape \in DOMAIN s.d.shapes |->
            LET mine == SelectSeq(open, LAMBDA r : r.shape = shape)
            IN  IF mine = <<>> THEN s.d.shapes[shape]
                ELSE [s.d.shapes[shape] EXCEPT !.blockOf = (Relative(c, mine[1].prefix) :> id) @@ @]]
    IN  [s EXCEPT !.reused = SgNone, !.stack = SubSeq(@, 1, depth + 1), !.recording = open,
                  !.blockOf = (c.name :> id) @@ @, !.d.shapes = recorded,
                  !.d.blocks[owner].attributes =
                      Append(@, Attribute(entity, c, c.depth = 0,
                                          IF ref = <<>> THEN SgNone ELSE Last(ref).target))]
Embedded(entities, entity, s, c) ==
    LET owner == s.d.blocks[Last(s.stack)]
        shared == c.shape # SgNone /\ c.shape \in SharedShapes(entities)
        marker == IF c.embedded = "many" THEN "many" ELSE IF c.nullable THEN "maybe" ELSE "one"
        line(target) == [from |-> owner.id, to |-> target, leaf |-> Last(c.name), marker |-> marker]
        id == Allocated(Token(entity.name) \o FlattenSeq([i \in DOMAIN c.name |-> Token(c.name[i])]),
                        s.d.used)
        label == IF shared THEN SharedLabel(entities, c.shape) ELSE <<owner.label, Last(c.name)>>
        opened == [s EXCEPT !.d.used = @ \cup {id}, !.d.embeds = @ \cup {line(id)},
                            !.d.blocks = Append(@, Block(id, label, shared, <<>>)),
                            !.stack = Append(@, Len(s.d.blocks) + 1)]
    IN  IF shared /\ c.shape \in DOMAIN s.d.shapes
        THEN [s EXCEPT !.d.embeds = @ \cup {line(s.d.shapes[c.shape].id)},
                       !.reused = [depth |-> c.depth, prefix |-> c.name, shape |-> c.shape]]
        ELSE IF ~shared THEN opened
        ELSE [opened EXCEPT
                !.d.shapes = (c.shape :> [id |-> id, blockOf |-> <<>>]) @@ @,
                !.recording = Append(@, [depth |-> Len(s.stack) - 1, prefix |-> c.name,
                                         shape |-> c.shape])]
DrawColumn(entities, entity, s, c) ==
    IF s.reused # SgNone /\ c.depth > s.reused.depth THEN Skipped(s, c)
    ELSE IF c.embedded = SgNone THEN Listed(entity, s, c)
    ELSE Embedded(entities, entity, Listed(entity, s, c), c)
DrawEntity(entities, at, entity) ==
    LET s == FoldLeft(LAMBDA x, c : DrawColumn(entities, entity, x, c), Opened(entity, at),
                      entity.columns)
        from(r) == IF r.property \in DOMAIN s.blockOf THEN s.blockOf[r.property]
                   ELSE Token(entity.name)
    IN  [s.d EXCEPT !.lines = @ \cup {Drawn(from(r), Token(r.target), r.kind, Last(r.property), SgNone) :
                                        r \in ToSet(entity.relations)}]
ToMermaidDocumentDiagram(entities) ==
    FoldLeft(LAMBDA at, entity : DrawEntity(entities, at, entity), NoDrawing(entities), entities)

-----------------------------------------------------------------------------
(* AbstractSchemaCollector                                                 *)
Introspect(orm) ==
    LET metas == sgApp.metas[orm]
        paths == UNION {{sgApp.schemas[s][i] : i \in DOMAIN sgApp.schemas[s]} : s \in DOMAIN sgApp.schemas}
    IN  IF metas = SgNone THEN SgNone
        ELSE IF orm = "typeorm"
        THEN IF orm \notin sgReady THEN SgNone
             ELSE IF \E i \in DOMAIN metas : \E c \in ToSet(metas[i].columns) : DefaultThrows(c.default)
             THEN SgFailed ELSE [i \in DOMAIN metas |-> TypeOrmEntity(metas[i])]
        ELSE IF orm = "mikroorm" THEN MikroOrmEntities(metas)
        ELSE IF \E p \in paths : DefaultThrows(p.default) THEN SgFailed
        ELSE [i \in DOMAIN metas |-> MapModel(metas[i])]
RedactDefaults(entities) ==
    [i \in DOMAIN entities |->
        [entities[i] EXCEPT !.columns = [j \in DOMAIN @ |->
            IF @[j].default = "secret" THEN [@[j] EXCEPT !.default = "masked"] ELSE @[j]]]]
DiagramOf(orm, entities) ==
    IF entities = <<>> THEN SgNone
    ELSE IF orm = "mongoose" THEN ToMermaidDocumentDiagram(entities)
    ELSE ToMermaidErDiagram(entities)

SgStart(app) ==
    /\ sgApp = app /\ sgReady = {}
    /\ sgEntities = [orm \in SgOrms |-> <<>>] /\ sgMermaid = [orm \in SgOrms |-> SgNone]
SgInit == \E app \in SgApps : SgStart(app)

OpenConnection(orm) ==
    /\ sgReady' = sgReady \cup {orm}
    /\ UNCHANGED <<sgApp, sgEntities, sgMermaid>>

SchemaBootstrap(orm) ==
    LET found == Introspect(orm)
        entities == IF found = SgFailed THEN <<>> ELSE RedactDefaults(found)
    IN  /\ found # SgNone
        /\ sgEntities' = [sgEntities EXCEPT ![orm] = entities]
        /\ sgMermaid' = [sgMermaid EXCEPT ![orm] = DiagramOf(orm, entities)]
        /\ UNCHANGED <<sgApp, sgReady>>

SgNext == \E orm \in SgOrms : OpenConnection(orm) \/ SchemaBootstrap(orm)

SgSpec == SgInit /\ [][SgNext]_sgVars

-----------------------------------------------------------------------------
SgTypeOK ==
    /\ sgApp \in SgApps /\ sgReady \subseteq SgOrms
    /\ \A orm \in SgOrms : (sgMermaid[orm] = SgNone) = (sgEntities[orm] = <<>>)

Ends(line) ==
    {<<line.left, line.leftProperty>>, <<line.right, line.rightProperty>>} \ {<<line.left, SgNone>>, <<line.right, SgNone>>}
Declared(entities) ==
    UNION {{<<entities[i].name, r>> : r \in ToSet(entities[i].relations)} : i \in DOMAIN entities}
SameRelation(a, b) ==
    \/ a = b
    \/ /\ a[1] = b[2].target /\ b[1] = a[2].target
       /\ a[2].inverse = b[2].property \/ b[2].inverse = a[2].property
RelationsDrawnOnce(entities, diagram) ==
    LET drawn == {d \in Declared(entities) : d[2].kind \in Cardinalities \cup {"one-to-many"}}
    IN  /\ \A d \in drawn : Cardinality({l \in diagram.lines : <<d[1], d[2].property>> \in Ends(l)}) = 1
        /\ \A d, e \in drawn :
             SameRelation(d, e) <=>
                \E l \in diagram.lines : {<<d[1], d[2].property>>, <<e[1], e[2].property>>} \subseteq Ends(l)

(* Where a walk along the embeddings from the model's own block leads.     *)
RECURSIVE ShownIn(_, _, _)
ShownIn(diagram, block, path) ==
    IF Len(path) = 1
    THEN {b.id : b \in {x \in ToSet(diagram.blocks) :
            x.id = block /\ \E i \in DOMAIN x.attributes : x.attributes[i].name = Token(path[1])}}
    ELSE UNION {ShownIn(diagram, line.to, Tail(path)) :
                  line \in {l \in diagram.embeds : l.from = block /\ l.leaf = path[1]}}
RECURSIVE Within(_, _)
Within(diagram, block) ==
    LET next == {l.to : l \in {x \in diagram.embeds : x.from = block}}
    IN  next \cup UNION {Within(diagram, id) : id \in next}
(* A shape that was drawn already when another shape embeds it, before the *)
(* other or earlier in it: what a second embedding of the other refers to  *)
(* there is also drawn from the other's own block.                         *)
DrawnAlready(diagram, outer, inner) ==
    \E i, j \in DOMAIN diagram.blocks :
        /\ diagram.blocks[i].shared /\ diagram.blocks[j].shared
        /\ diagram.blocks[i].id = inner /\ diagram.blocks[j].id = outer
        /\ inner \in Within(diagram, outer)
        /\ \/ i < j
           \/ Cardinality({l \in diagram.embeds :
                l.to = inner /\ l.from \in Within(diagram, outer) \cup {outer}}) > 1
(* How often a block lists a name, and a schema declares it: a Map is twice*)
(* there, as the field it is and as the object its values are in.          *)
Listings(diagram, id, name) ==
    LET block == CHOOSE b \in ToSet(diagram.blocks) : b.id = id
    IN  Cardinality({i \in DOMAIN block.attributes : block.attributes[i].name = Token(name)})
Declarations(e, path) == Cardinality({i \in DOMAIN e.columns : e.columns[i].name = path})
DocumentsDrawn(entities, diagram) ==
    LET at(e, path) == ShownIn(diagram, Token(e.name), path)
        shows(l) == UNION {{at(e, r.property) : r \in {x \in ToSet(e.relations) :
                        Last(x.property) = l.leftProperty /\ Token(x.target) = l.right}}
                      : e \in ToSet(entities)}
    IN  /\ Cardinality({b.id : b \in ToSet(diagram.blocks)}) = Len(diagram.blocks)
        /\ \A e \in ToSet(entities) : \A c \in ToSet(e.columns) :
             \E id \in at(e, c.name) :
                 /\ at(e, c.name) = {id}
                 /\ Listings(diagram, id, Last(c.name)) = Declarations(e, c.name)
        /\ \A e \in ToSet(entities) : \A r \in ToSet(e.relations) :
             \E l \in diagram.lines : /\ l.left \in at(e, r.property) /\ l.kind = r.kind
                                      /\ l.right = Token(r.target)
        /\ \A l \in diagram.lines : \E ids \in shows(l) : \E id \in ids :
             l.left = id \/ DrawnAlready(diagram, l.left, id)
        /\ \A b \in ToSet(diagram.blocks) : ~b.shared =>
             Cardinality({l \in diagram.embeds : l.to = b.id}) <= 1

(* A schema's diagram shows the whole schema once: each relation of the    *)
(* relational ORMs is one line whichever of its sides names the other, and *)
(* every field of a document, however deep and however often its shape is  *)
(* embedded, is found in exactly one block along the embeddings, once but  *)
(* for a Map, where the reference it holds starts; and no secret in a      *)
(* default is shown (mermaid-er.ts, mermaid-document.ts,                   *)
(* abstract-schema.collector.ts).                                          *)
SchemaDrawnOnce ==
    \A orm \in SgOrms : sgEntities[orm] # <<>> =>
        /\ IF orm = "mongoose" THEN DocumentsDrawn(sgEntities[orm], sgMermaid[orm])
           ELSE RelationsDrawnOnce(sgEntities[orm], sgMermaid[orm])
        /\ \A e \in ToSet(sgEntities[orm]) : \A c \in ToSet(e.columns) : c.default # "secret"
=============================================================================

---------------------------- MODULE DslDocument ----------------------------
(***************************************************************************)
(* Rule documents after decoding (dsl.DSL) and the two validations: the    *)
(* strict one of publish and evaluate, the lenient one of drafts.          *)
(*                                                                         *)
(* A Go map is a function, absent and empty maps are the same.  A value of *)
(* type any is a pair of its kind and what it is; numbers are integers,    *)
(* and a JSON object has no content, for nothing looks into one.           *)
(***************************************************************************)
EXTENDS Integers, Sequences, FiniteSetsExt

CONSTANTS
    Fields,   \* the keys of facts, schemas and outputs
    Numbers,
    Strings

ASSUME DocumentAssumption ==
    /\ Numbers \subseteq Int
    /\ 0 \in Numbers
    /\ "" \in Strings
    /\ "" \notin Fields

Nil == <<"nil">>
Number(n) == <<"number", n>>
String(s) == <<"string", s>>
Boolean(b) == <<"boolean", b>>
Array(s) == <<"array", s>>
Object == <<"object">>

Kind(v) == v[1]
Is(v) == v[2]

Scalars == {Nil, Object} \cup {Number(n) : n \in Numbers}
               \cup {String(s) : s \in Strings} \cup {Boolean(b) : b \in BOOLEAN}

Values == Scalars \cup {"array"} \X Seq(Scalars)

\* A map with keys in Fields, map[string]any among them.
IsMap(m, elements) == DOMAIN m \subseteq Fields /\ m \in [DOMAIN m -> elements]

IsFacts(m) == IsMap(m, Values)

FieldTypes == {"number", "string", "boolean", "enum"}

\* Options in any order.
FieldDefs == [type : STRING, direction : STRING, options : SUBSET Strings]

Conditions == [field : Fields \cup {""}, op : STRING, value : Values]

IsRule(r) ==
    /\ r \in [id : STRING, when : Seq(Conditions), then : {r.then}]
    /\ IsFacts(r.then)

IsNode(n) ==
    /\ n \in [id : STRING, strategy : STRING, rules : Seq(Range(n.rules)), default : {n.default}]
    /\ IsFacts(n.default)
    /\ \A i \in DOMAIN n.rules : IsRule(n.rules[i])

\* "map" leads from output keys of the source to inputs of the destination.
IsEdge(e) ==
    /\ e \in [from : STRING, to : STRING, map : {e.map}]
    /\ IsMap(e.map, Fields)

\* What the decoder makes of JSON that it accepts.
IsDSL(d) ==
    /\ d \in [dsl_version : STRING, schema : {d.schema}, entry : STRING,
              nodes : Seq(Range(d.nodes)), edges : Seq(Range(d.edges))]
    /\ IsMap(d.schema, FieldDefs)
    /\ \A i \in DOMAIN d.nodes : IsNode(d.nodes[i])
    /\ \A i \in DOMAIN d.edges : IsEdge(d.edges[i])

-----------------------------------------------------------------------------
(* The parts both validations check *)

validOps ==
    [number  |-> {"eq", "ne", "gt", "gte", "lt", "lte"},
     string  |-> {"eq", "ne", "contains", "starts_with", "ends_with"},
     boolean |-> {"eq", "ne"},
     enum    |-> {"eq", "ne", "in"}]

validateFieldDef(fd) ==
    /\ fd.type \in FieldTypes
    /\ fd.type = "enum" => fd.options # {}
    /\ fd.direction \in {"input", "output"}

containsOption(fd, v) == Kind(v) = "string" /\ Is(v) \in fd.options

\* Mutant of validateConditionValue: "in" is not told from the other operators
\* of an enum.
validateConditionScalar(cond, fd) ==
    /\ cond.value # Nil
    /\ fd.type # "enum" => Kind(cond.value) = fd.type
    /\ fd.type = "enum" => containsOption(fd, cond.value)

validateConditionValue(cond, fd) ==
    /\ cond.value # Nil
    /\ fd.type # "enum" => Kind(cond.value) = fd.type
    /\ fd.type = "enum" /\ cond.op # "in" => containsOption(fd, cond.value)
    /\ fd.type = "enum" /\ cond.op = "in" =>
          /\ Kind(cond.value) = "array"
          /\ \A i \in DOMAIN Is(cond.value) : containsOption(fd, Is(cond.value)[i])

\* extraInputs: the fields that edges bring to the node.
validateCondition(cond, schema, extraInputs) ==
    /\ cond.field # ""
    /\ cond.field \in DOMAIN schema
    /\ schema[cond.field].direction = "input" \/ cond.field \in extraInputs
    /\ cond.op \in validOps[schema[cond.field].type]
    /\ validateConditionValue(cond, schema[cond.field])

\* The fields an edge may bring: without a map, every output.
CarriedFields(edge, schema) ==
    IF DOMAIN edge.map = {}
    THEN {f \in DOMAIN schema : schema[f].direction = "output"}
    ELSE Range(edge.map)

buildNodeIncomingFields(d, id) ==
    UNION {CarriedFields(d.edges[i], d.schema) : i \in {j \in DOMAIN d.edges : d.edges[j].to = id}}

\* Nodes of a document and rules of a node: named, and not twice the same.
ProperIds(s) ==
    \A i \in DOMAIN s : s[i].id # "" /\ \A j \in DOMAIN s : s[i].id = s[j].id => i = j

NodeIds(d) == {d.nodes[i].id : i \in DOMAIN d.nodes}

\* Edges connect different nodes; longer cycles are not looked for.
ProperEdges(d) ==
    \A i \in DOMAIN d.edges :
        LET edge == d.edges[i] IN
        /\ edge.from \in NodeIds(d)
        /\ edge.to \in NodeIds(d)
        /\ edge.from # edge.to
        /\ Range(edge.map) \subseteq DOMAIN d.schema

ProperFields(d) == \A f \in DOMAIN d.schema : validateFieldDef(d.schema[f])

\* What both say about a node.
ProperNode(d, node) ==
    /\ node.strategy \in {"first_match", "all_matches"}
    /\ ProperIds(node.rules)
    /\ \A i \in DOMAIN node.rules : \A j \in DOMAIN node.rules[i].when :
          validateCondition(node.rules[i].when[j], d.schema, buildNodeIncomingFields(d, node.id))

-----------------------------------------------------------------------------
(* The validations *)

\* Rules have conditions, and set output fields only.
validateNode(d, node) ==
    /\ ProperNode(d, node)
    /\ \A i \in DOMAIN node.rules :
          LET rule == node.rules[i] IN
          /\ rule.when # <<>>
          /\ DOMAIN rule.then # {}
          /\ \A k \in DOMAIN rule.then :
                k \in DOMAIN d.schema /\ d.schema[k].direction = "output"

\* Mutant of Validate: edges are not looked at.
ValidateNodesOnly(d) ==
    /\ d.dsl_version = "v1"
    /\ DOMAIN d.schema # {}
    /\ d.nodes # <<>>
    /\ ProperFields(d)
    /\ ProperIds(d.nodes)
    /\ d.entry \in NodeIds(d)
    /\ \A i \in DOMAIN d.nodes : validateNode(d, d.nodes[i])

\* The entry is a node's, so neither it nor the nodes are empty.
Validate(d) ==
    /\ d.dsl_version = "v1"
    /\ DOMAIN d.schema # {}
    /\ ProperFields(d)
    /\ ProperIds(d.nodes)
    /\ d.entry \in NodeIds(d)
    /\ ProperEdges(d)
    /\ \A i \in DOMAIN d.nodes : validateNode(d, d.nodes[i])

ValidateDraft(d) ==
    /\ d.dsl_version = "v1"
    /\ ProperFields(d)
    /\ ProperIds(d.nodes)
    /\ d.entry # "" => d.entry \in NodeIds(d)
    /\ ProperEdges(d)
    /\ \A i \in DOMAIN d.nodes : ProperNode(d, d.nodes[i])
=============================================================================

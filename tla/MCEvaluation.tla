---------------------------- MODULE MCEvaluation ----------------------------
(***************************************************************************)
(* Documents and facts for TLC: all conditions of a kind on one node, all  *)
(* graphs of a kind on four, and documents with one defect each.           *)
(***************************************************************************)
EXTENDS EvaluationReference

SomeFields == {"n", "s", "e", "q", "o", "x"}
SomeNumbers == 0..4
SomeStrings == {"", "a", "b", "z"}

\* "a" is part of itself, and "" of everything.
SomeRelations ==
    [op \in {"contains", "starts_with", "ends_with"} |->
        {p \in SomeStrings \X SomeStrings : p[2] \in {"", p[1]}}]

Field(type, direction) ==
    [type |-> type, direction |-> direction,
     options |-> IF type = "enum" THEN {"a", "b"} ELSE {}]

SomeSchema ==
    [n |-> Field("number", "input"), s |-> Field("string", "input"),
     e |-> Field("enum", "input"), q |-> Field("boolean", "input"),
     o |-> Field("number", "output"), x |-> Field("enum", "output")]

On(field, op, value) == [field |-> field, op |-> op, value |-> value]
Rule(id, when, then) == [id |-> id, when |-> when, then |-> then]
Node(id, strategy, rules, default) ==
    [id |-> id, strategy |-> strategy, rules |-> rules, default |-> default]
Document(nodes, edges) ==
    [dsl_version |-> "v1", schema |-> SomeSchema, entry |-> "n1", nodes |-> nodes, edges |-> edges]

-----------------------------------------------------------------------------
(* One node, one condition *)

SomeValues ==
    {Nil, Number(1), String("a"), String("z"), Boolean(TRUE), Array(<<>>),
     Array(<<String("a"), String("b")>>), Array(<<String("z")>>), Array(<<String("a"), Number(1)>>)}

ConditionDocuments ==
    {Document(<<Node("n1", "first_match",
                     <<Rule("r1", <<On(f, op, v)>>, [o |-> Number(1)])>>, [o |-> Number(2)])>>,
              <<>>) :
        f \in SomeFields \cup {""},
        op \in {"eq", "gt", "lte", "contains", "in"},
        v \in SomeValues}

-----------------------------------------------------------------------------
(* Four nodes that read what others put out *)

FourNodes ==
    <<Node("n1", "first_match",
           <<Rule("r1", <<On("n", "eq", Number(1)), On("e", "ne", String("b"))>>,
                  [o |-> Number(1), x |-> String("a")]),
             Rule("r2", <<On("n", "gt", Number(0))>>, [o |-> Number(2)])>>,
           [x |-> String("b")]),
      Node("n2", "all_matches",
           <<Rule("r1", <<On("n", "gte", Number(1))>>, [o |-> Number(3)]),
             Rule("r2", <<On("e", "in", Array(<<String("a")>>))>>,
                  [o |-> Number(4), x |-> String("b")])>>,
           Empty),
      Node("n3", "first_match",
           <<Rule("r1", <<On("n", "lt", Number(3)), On("e", "eq", String("b"))>>,
                  [o |-> Number(0)])>>,
           [o |-> Number(1), x |-> String("a")]),
      Node("n4", "all_matches",
           <<Rule("r1", <<On("n", "eq", Number(3))>>, [x |-> String("a")])>>,
           [o |-> Number(2)])>>

Forward == {<<"n1", "n2">>, <<"n1", "n3">>, <<"n2", "n3">>, <<"n2", "n4">>, <<"n3", "n4">>}

\* To an input, to the output of an edge, and two outputs to one field.
SomeMaps == {Empty, [o |-> "n", x |-> "e"], [o |-> "n", x |-> "n"]}

\* All sequences of at most two edges; of three and of four different ones
\* with one map.
EdgeLists ==
    LET One == {[from |-> p[1], to |-> p[2], map |-> m] : p \in Forward, m \in SomeMaps}
        Plain == {[from |-> p[1], to |-> p[2], map |-> [o |-> "n", x |-> "e"]] : p \in Forward}
    IN UNION {[1..k -> One] : k \in 0..2} \cup UNION {Injection(1..k, Plain) : k \in 3..4}

\* As deep as a path through all of the four nodes.
GraphDepth == {4}

GraphDocuments == {Document(FourNodes, edges) : edges \in EdgeLists}

-----------------------------------------------------------------------------
(* Documents with a defect *)

Sound ==
    Document(FourNodes, <<[from |-> "n1", to |-> "n2", map |-> Empty]>>)

DefectiveDocuments ==
    {[Sound EXCEPT !.dsl_version = "v2"],
     [Sound EXCEPT !.entry = ""],
     [Sound EXCEPT !.entry = "n5"],
     [Sound EXCEPT !.nodes = <<>>],
     [Sound EXCEPT !.schema = [f \in {} |-> Field("number", "input")]],
     [Sound EXCEPT !.schema.e.options = {}],
     [Sound EXCEPT !.schema.n.type = "date"],
     [Sound EXCEPT !.schema.n.direction = ""],
     [Sound EXCEPT !.nodes[2].id = "n1"],
     [Sound EXCEPT !.nodes[2].id = ""],
     [Sound EXCEPT !.nodes[2].strategy = "any"],
     [Sound EXCEPT !.nodes[2].rules[2].id = "r1"],
     [Sound EXCEPT !.nodes[2].rules[1].when = <<>>],
     [Sound EXCEPT !.nodes[2].rules[1].then = Empty],
     [Sound EXCEPT !.nodes[2].rules[1].then = [n |-> Number(1)]],
     [Sound EXCEPT !.nodes[3].rules[1].when = <<On("o", "eq", Number(1))>>],
     [Sound EXCEPT !.nodes[2].rules[1].when = <<On("o", "eq", Number(1))>>],
     [Sound EXCEPT !.edges[1].to = "n5"],
     [Sound EXCEPT !.edges[1].from = "n5"],
     [Sound EXCEPT !.edges[1].to = "n1"]}

SomeDocuments == ConditionDocuments \cup GraphDocuments \cup DefectiveDocuments \cup {Sound}

-----------------------------------------------------------------------------
(* Facts *)

SomeInputs ==
    {[n |-> n, e |-> e] : n \in {Nil, Number(1), Number(3)}, e \in {Nil, String("a"), String("b")}}
        \cup {Empty, [n |-> String("a")], [e |-> Number(1)], [s |-> String("a"), q |-> Boolean(TRUE)]}

-----------------------------------------------------------------------------
(* Two nodes in a cycle *)

CyclicDocuments ==
    {Document(FourNodes, <<[from |-> "n1", to |-> "n2", map |-> Empty],
                           [from |-> "n2", to |-> "n1", map |-> Empty]>>)}

OneInput == {[n |-> Number(1), e |-> String("a")]}
=============================================================================

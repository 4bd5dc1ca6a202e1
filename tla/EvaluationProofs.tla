-------------------------- MODULE EvaluationProofs --------------------------
(***************************************************************************)
(* Theorems about the evaluation of every document the decoder accepts,    *)
(* with any facts.                                                         *)
(***************************************************************************)
EXTENDS EvaluationReference, NumberLemmas, FiniteSetTheorems, FunctionTheorems, SequenceTheorems, TLAPS

-----------------------------------------------------------------------------
(* First and last of some indices *)

LEMMA MinIsLeast ==
    ASSUME NEW T, T \subseteq Nat, T # {}
    PROVE  Min(T) \in T /\ \A y \in T : Min(T) =< y
  <1> PICK x \in T : \A y \in T : x =< y
    BY LeastExists
  <1> QED
    BY Zenon DEF Min

LEMMA MaxIsGreatest ==
    ASSUME NEW n \in Nat, NEW T, T \subseteq 1..n, T # {}
    PROVE  Max(T) \in T /\ \A y \in T : Max(T) >= y
  <1>1. T \in SUBSET (0..n)
    OBVIOUS
  <1> PICK x \in T : \A y \in T : y =< x
    BY <1>1, GreatestExists
  <1>2. \A y \in T : x >= y
    OBVIOUS
  <1> QED
    BY <1>2, Zenon DEF Max

-----------------------------------------------------------------------------
(* The validations *)

\* Whatever Validate accepts, ValidateDraft accepts.
LEMMA ValidIsDraft ==
    ASSUME NEW d, Validate(d)
    PROVE  ValidateDraft(d)
  BY DEF Validate, ValidateDraft, validateNode

\* What can be published can be saved as a draft: service.Rollback writes the
\* one into the other without a validation.
THEOREM PublishableSavable == Spec => []PublishableIsSavable
  <1>1. PublishableIsSavable
    BY ValidIsDraft DEF PublishableIsSavable
  <1> QED
    BY <1>1, PTL

\* What validateNode and validateFieldDef say of a condition and its field.
ValidCondition(cond, schema) ==
    /\ cond.field \in DOMAIN schema
    /\ validateFieldDef(schema[cond.field])
    /\ cond.op \in validOps[schema[cond.field].type]
    /\ validateConditionValue(cond, schema[cond.field])

LEMMA ValidConditions ==
    ASSUME NEW d, Validate(d), NEW i \in DOMAIN d.nodes, NEW j \in DOMAIN d.nodes[i].rules,
           NEW k \in DOMAIN d.nodes[i].rules[j].when
    PROVE  ValidCondition(d.nodes[i].rules[j].when[k], d.schema)
  BY DEF Validate, ProperFields, validateNode, ProperNode, validateCondition, ValidCondition

-----------------------------------------------------------------------------
(* Conditions *)

LEMMA VerdictIs ==
    ASSUME NEW b
    PROVE  Verdict(b) \in {"true", "false"}
  BY DEF Verdict

\* Of a valid condition, evalEnum's type assertions hold.
LEMMA EnumDecides ==
    ASSUME NEW cond, NEW schema, NEW x, ValidCondition(cond, schema),
           schema[cond.field].type = "enum"
    PROVE  evalEnum(cond, x) \in {"true", "false"}
  <1> DEFINE fd == schema[cond.field]
  <1>1. cond.op \in validOps.enum
    BY DEF ValidCondition, validOps
  <1>2. CASE cond.op = "in"
    <2>1. Kind(cond.value) = "array" /\ \A i \in DOMAIN Is(cond.value) : Kind(Is(cond.value)[i]) = "string"
      BY <1>2 DEF ValidCondition, validateConditionValue, containsOption
    <2>2. evalIn(Is(cond.value), x) \in {"true", "false"}
      BY <2>1, VerdictIs DEF evalIn
    <2> QED
      BY <1>1, <1>2, <2>1, <2>2 DEF evalEnum
  <1>3. CASE cond.op # "in"
    <2>1. Kind(cond.value) = "string"
      BY <1>3 DEF ValidCondition, validateConditionValue, containsOption
    <2> QED
      BY <1>1, <1>3, <2>1, VerdictIs DEF evalEnum
  <1> QED
    BY <1>2, <1>3

LEMMA ScalarVerdicts ==
    ASSUME NEW cond, NEW x
    PROVE  /\ evalNumber(cond, x) \in {"true", "false", "error"}
           /\ evalString(cond, x) \in {"true", "false", "error"}
           /\ evalBool(cond, x) \in {"true", "false", "error"}
  BY VerdictIs DEF evalNumber, evalString, evalBool

\* Of a valid condition, neither value nor operator is refused.
LEMMA ScalarDecides ==
    ASSUME NEW cond, NEW schema, NEW x, ValidCondition(cond, schema)
    PROVE  /\ schema[cond.field].type = "number" => evalNumber(cond, x) \in {"true", "false"}
           /\ schema[cond.field].type = "string" => evalString(cond, x) \in {"true", "false"}
           /\ schema[cond.field].type = "boolean" => evalBool(cond, x) \in {"true", "false"}
  <1>1. cond.value # Nil
    BY DEF ValidCondition, validateConditionValue
  <1>2. schema[cond.field].type # "enum" => Kind(cond.value) = schema[cond.field].type
    BY DEF ValidCondition, validateConditionValue
  <1>3. schema[cond.field].type = "number" => cond.op \in validOps.number
    BY DEF ValidCondition, validOps
  <1>4. schema[cond.field].type = "string" => cond.op \in validOps.string
    BY DEF ValidCondition, validOps
  <1>5. schema[cond.field].type = "boolean" => cond.op \in validOps.boolean
    BY DEF ValidCondition, validOps
  <1> QED
    BY <1>1, <1>2, <1>3, <1>4, <1>5, VerdictIs DEF evalNumber, evalString, evalBool

LEMMA ConditionNeverPanics ==
    ASSUME NEW cond, NEW schema, NEW facts, ValidCondition(cond, schema)
    PROVE  evalCondition(cond, schema, facts) \in {"true", "false", "error"}
  BY EnumDecides, ScalarVerdicts DEF evalCondition, ValidCondition, validateFieldDef, FieldTypes

\* A fact that is null or of the field's type lets the condition be decided.
LEMMA NilIs ==
    ASSUME NEW v \in Values, Kind(v) = "nil"
    PROVE  v = Nil
  BY DEF Values, Scalars, Kind, Nil, Number, String, Boolean, Object

LEMMA ZeroIs ==
    ASSUME NEW type \in FieldTypes
    PROVE  Kind(Zero[type]) = KindOf[type]
  <1>1. CASE type = "number"
    BY <1>1 DEF Zero, KindOf, Kind, Number
  <1>2. CASE type = "string"
    BY <1>2 DEF Zero, KindOf, Kind, String
  <1>3. CASE type = "boolean"
    BY <1>3 DEF Zero, KindOf, Kind, Boolean
  <1>4. CASE type = "enum"
    BY <1>4 DEF Zero, KindOf, Kind, String
  <1> QED
    BY <1>1, <1>2, <1>3, <1>4 DEF FieldTypes

LEMMA ConditionDecides ==
    ASSUME NEW cond, NEW schema, NEW facts, ValidCondition(cond, schema),
           IsFacts(facts), Fitting(schema, facts)
    PROVE  evalCondition(cond, schema, facts) \in {"true", "false"}
  <1> DEFINE type == schema[cond.field].type
             raw == IF cond.field \in DOMAIN facts THEN facts[cond.field] ELSE Nil
             x == IF raw = Nil THEN Zero[type] ELSE raw
  <1>1. type \in FieldTypes /\ cond.field \in DOMAIN schema
    BY DEF ValidCondition, validateFieldDef
  <1>2. Kind(x) = KindOf[type]
    <2>1. CASE raw = Nil
      BY <1>1, <2>1, ZeroIs
    <2>2. CASE raw # Nil
      BY <1>1, <2>2, NilIs DEF Fitting, IsFacts, IsMap
    <2> QED
      BY <2>1, <2>2
  <1> HIDE DEF x
  <1>3. evalCondition(cond, schema, facts) =
            CASE type = "number" -> evalNumber(cond, x)
              [] type = "string" -> evalString(cond, x)
              [] type = "boolean" -> evalBool(cond, x)
              [] type = "enum" -> evalEnum(cond, x)
    BY <1>1, <1>2 DEF evalCondition, x
  <1> QED
    BY <1>1, <1>3, EnumDecides, ScalarDecides DEF FieldTypes

\* The verdict on a conjunction is the verdict on one of its conditions.
LEMMA ConditionsVerdict ==
    ASSUME NEW when, NEW schema, NEW facts, NEW V, DOMAIN when \subseteq Nat,
           \A i \in DOMAIN when : evalCondition(when[i], schema, facts) \in V
    PROVE  evalConditions(when, schema, facts) \in V \cup {"true"}
  <1> DEFINE verdict == [i \in DOMAIN when |-> evalCondition(when[i], schema, facts)]
             stops == {i \in DOMAIN when : verdict[i] # "true"}
  <1>1. stops # {} => Min(stops) \in DOMAIN when
    BY MinIsLeast
  <1>2. \A i \in DOMAIN when : verdict[i] \in V
    OBVIOUS
  <1>3. evalConditions(when, schema, facts) = IF stops = {} THEN "true" ELSE verdict[Min(stops)]
    BY DEF evalConditions
  <1> HIDE DEF verdict, stops
  <1> QED
    BY <1>1, <1>2, <1>3

-----------------------------------------------------------------------------
(* Nodes *)

\* The verdict on a node is "true" or the verdict on one of its rules.
LEMMA NodeVerdict ==
    ASSUME NEW node, NEW schema, NEW facts, NEW V, DOMAIN node.rules \subseteq Nat,
           \A i \in DOMAIN node.rules :
              evalConditions(node.rules[i].when, schema, facts) \in V
    PROVE  evalNode(node, schema, facts).verdict \in (V \ {"false"}) \cup {"true"}
  <1> DEFINE verdict == [i \in DOMAIN node.rules |->
                            evalConditions(node.rules[i].when, schema, facts)]
             ending == IF node.strategy = "first_match" THEN {"true", "error", "panic"}
                                                        ELSE {"error", "panic"}
             stops == {i \in DOMAIN node.rules : verdict[i] \in ending}
  <1>1. stops # {} => Min(stops) \in stops
    BY MinIsLeast
  <1>2. \A i \in stops : verdict[i] \in V \ {"false"}
    OBVIOUS
  <1>3. evalNode(node, schema, facts).verdict = IF stops = {} THEN "true" ELSE verdict[Min(stops)]
    BY DEF evalNode
  <1> HIDE DEF verdict, stops
  <1> QED
    BY <1>1, <1>2, <1>3

\* A value in the output of rules was put there by one of them.
LEMMA OutputsFrom ==
    ASSUME NEW rules, NEW n \in Nat, DOMAIN rules = 1..n, NEW matched \in SUBSET (1..n),
           NEW k \in DOMAIN Outputs(rules, matched)
    PROVE  \E i \in 1..n : k \in DOMAIN rules[i].then /\ Outputs(rules, matched)[k] = rules[i].then[k]
  <1> DEFINE T == {i \in matched : k \in DOMAIN rules[i].then}
  <1>1. T # {} /\ Outputs(rules, matched)[k] = rules[Max(T)].then[k]
    BY DEF Outputs
  <1>2. Max(T) \in T
    BY <1>1, T \subseteq 1..n, MaxIsGreatest
  <1> QED
    BY <1>1, <1>2

\* What a node puts out: its default, or values that its rules set.
LEMMA NodeOutput ==
    ASSUME NEW node, NEW schema, NEW facts, IsNode(node),
           NEW out, out = evalNode(node, schema, facts).out
    PROVE  \/ out = node.default
           \/ /\ out = [k \in DOMAIN out |-> out[k]]
              /\ \A k \in DOMAIN out : \E i \in DOMAIN node.rules :
                    k \in DOMAIN node.rules[i].then /\ out[k] = node.rules[i].then[k]
  <1> DEFINE n == Len(node.rules)
  <1> n \in Nat /\ DOMAIN node.rules = 1..n
    BY DEF IsNode
  <1> HIDE DEF n
  <1> DEFINE verdict == [i \in DOMAIN node.rules |->
                            evalConditions(node.rules[i].when, schema, facts)]
             ending == IF node.strategy = "first_match" THEN {"true", "error", "panic"}
                                                        ELSE {"error", "panic"}
             stops == {i \in DOMAIN node.rules : verdict[i] \in ending}
             matched == IF stops # {} THEN {Min(stops)}
                        ELSE {i \in DOMAIN node.rules : verdict[i] = "true"}
  <1>1. matched \in SUBSET (1..n)
    <2>1. stops \subseteq 1..n /\ stops \subseteq Nat
      OBVIOUS
    <2>2. stops # {} => Min(stops) \in stops
      BY <2>1, MinIsLeast
    <2> HIDE DEF stops
    <2> QED
      BY <2>1, <2>2
  <1>2. out = IF matched = {} THEN node.default ELSE Outputs(node.rules, matched)
    BY DEF evalNode
  <1> HIDE DEF verdict, stops, matched
  <1>3. CASE out = Outputs(node.rules, matched)
    <2>1. out = [k \in DOMAIN out |-> out[k]]
      BY <1>3 DEF Outputs
    <2> QED
      BY <1>1, <1>3, <2>1, OutputsFrom
  <1> QED
    BY <1>2, <1>3

-----------------------------------------------------------------------------
(* Facts *)

LEMMA PutFacts ==
    ASSUME NEW m, NEW more, IsFacts(m), IsFacts(more)
    PROVE  IsFacts(Put(m, more))
  BY DEF IsFacts, IsMap, Put

LEMMA PutFits ==
    ASSUME NEW schema, NEW m, NEW more, Fitting(schema, m), Fitting(schema, more)
    PROVE  Fitting(schema, Put(m, more))
  BY DEF Fitting, Put

LEMMA NodeFacts ==
    ASSUME NEW node, NEW schema, NEW facts, IsNode(node)
    PROVE  IsFacts(evalNode(node, schema, facts).out)
  <1> DEFINE out == evalNode(node, schema, facts).out
  <1>1. /\ IsFacts(node.default)
        /\ \A i \in DOMAIN node.rules : IsFacts(node.rules[i].then)
    BY DEF IsNode, IsRule
  <1>2. \/ out = node.default
        \/ /\ out = [k \in DOMAIN out |-> out[k]]
           /\ \A k \in DOMAIN out : \E i \in DOMAIN node.rules :
                 k \in DOMAIN node.rules[i].then /\ out[k] = node.rules[i].then[k]
    BY NodeOutput
  <1> HIDE DEF out
  <1>3. IsFacts(out)
    BY <1>1, <1>2 DEF IsFacts, IsMap
  <1> QED
    BY <1>3 DEF out

LEMMA NodeFits ==
    ASSUME NEW node, NEW schema, NEW facts, IsNode(node), Fitting(schema, node.default),
           \A i \in DOMAIN node.rules : Fitting(schema, node.rules[i].then)
    PROVE  Fitting(schema, evalNode(node, schema, facts).out)
  <1> DEFINE out == evalNode(node, schema, facts).out
  <1>1. \/ out = node.default
        \/ \A k \in DOMAIN out : \E i \in DOMAIN node.rules :
              k \in DOMAIN node.rules[i].then /\ out[k] = node.rules[i].then[k]
    BY NodeOutput
  <1> HIDE DEF out
  <1>2. Fitting(schema, out)
    BY <1>1 DEF Fitting
  <1> QED
    BY <1>2 DEF out

\* What an edge brings are values of the output it is taken from.
LEMMA RemapFrom ==
    ASSUME NEW edge, NEW out, NEW m \in remapEdge(edge, out), DOMAIN edge.map # {}
    PROVE  /\ m = [f \in DOMAIN m |-> m[f]]
           /\ \A f \in DOMAIN m : \E k \in DOMAIN edge.map \cap DOMAIN out :
                 edge.map[k] = f /\ m[f] = out[k]
  <1> DEFINE sources == DOMAIN edge.map \cap DOMAIN out
  <1>1. m \in [{edge.map[s] : s \in sources} -> Range(out)]
    BY DEF remapEdge
  <1>2. \A f \in DOMAIN m : m[f] \in {out[k] : k \in {s \in sources : edge.map[s] = f}}
    BY DEF remapEdge
  <1> QED
    BY <1>1, <1>2

LEMMA RemapFacts ==
    ASSUME NEW edge, NEW out, NEW m \in remapEdge(edge, out), IsEdge(edge), IsFacts(out)
    PROVE  IsFacts(m)
  <1>1. CASE DOMAIN edge.map = {}
    BY <1>1 DEF remapEdge
  <1>2. CASE DOMAIN edge.map # {}
    <2>1. \A k \in DOMAIN edge.map : edge.map[k] \in Fields
      BY DEF IsEdge, IsMap
    <2>2. \A k \in DOMAIN out : out[k] \in Values
      BY DEF IsFacts, IsMap
    <2> QED
      BY <1>2, <2>1, <2>2, RemapFrom DEF IsFacts, IsMap
  <1> QED
    BY <1>1, <1>2

LEMMA RemapFits ==
    ASSUME NEW schema, NEW edge, NEW out, NEW m \in remapEdge(edge, out), Fitting(schema, out),
           \A k \in DOMAIN edge.map :
              k \in DOMAIN schema /\ KindOf[schema[k].type] = KindOf[schema[edge.map[k]].type]
    PROVE  Fitting(schema, m)
  <1>1. CASE DOMAIN edge.map = {}
    BY <1>1 DEF remapEdge
  <1>2. CASE DOMAIN edge.map # {}
    BY <1>2, RemapFrom DEF Fitting
  <1> QED
    BY <1>1, <1>2

-----------------------------------------------------------------------------
(* Type correctness *)

LEMMA SeqOfItsRange ==
    ASSUME NEW S, NEW s \in Seq(S)
    PROVE  s \in Seq(Range(s)) /\ Range(s) \subseteq S
  <1>1. Len(s) \in Nat /\ s \in [1..Len(s) -> S]
    BY LenProperties
  <1>2. s \in [1..Len(s) -> Range(s)] /\ Range(s) \subseteq S
    BY <1>1 DEF Range
  <1>3. s \in UNION {[1..n -> Range(s)] : n \in Nat}
    BY <1>1, <1>2
  <1>4. Seq(Range(s)) = UNION {[1..n -> Range(s)] : n \in Nat}
    BY SeqDef
  <1> QED
    BY <1>2, <1>3, <1>4

LEMMA EmptyFacts == IsFacts(Empty) /\ \A schema : Fitting(schema, Empty)
  BY DEF IsFacts, IsMap, Empty, Fitting

FramesOK == stack \in Seq(Range(stack)) /\ \A f \in Range(stack) : IsFrame(f)

\* A stack of frames, old and new, is one in the next state.
LEMMA FramesStep ==
    ASSUME NEW S, \A f \in S : IsFrame(f), stack' \in Seq(S), UNCHANGED doc
    PROVE  FramesOK'
  <1>1. stack' \in Seq(Range(stack')) /\ Range(stack') \subseteq S
    BY SeqOfItsRange
  <1>2. \A f : IsFrame(f) => IsFrame(f)'
    BY DEF IsFrame
  <1> QED
    BY <1>1, <1>2 DEF FramesOK

LEMMA DocParts ==
    ASSUME IsDSL(doc)
    PROVE  /\ \A id : \A node \in nodeByID(id) : IsNode(node)
           /\ \A i \in DOMAIN doc.edges : i \in Nat /\ IsEdge(doc.edges[i])
           /\ doc.entry \in STRING
  BY DEF IsDSL, nodeByID, Range

LEMMA EnterFrame ==
    ASSUME NEW id \in STRING, NEW facts, IsFacts(facts)
    PROVE  IsFrame(Enter(id, facts))
  BY EmptyFacts DEF IsFrame, Enter

LEMMA HeadFrame ==
    ASSUME FramesOK, stack # <<>>
    PROVE  /\ Head(stack) \in Range(stack)
           /\ IsFrame(Head(stack))
           /\ Tail(stack) \in Seq(Range(stack))
  BY DEF FramesOK, Range

LEMMA OnwardsFrames ==
    ASSUME IsDSL(doc), NEW frame, IsFrame(frame), NEW out, IsFacts(out),
           NEW next \in Onwards(frame, out)
    PROVE  IsFrame(next)
  <1> DEFINE facts == Put(frame.facts, out)
             output == Put(frame.output, out)
             edges == edgesFrom(frame.node)
             edge == doc.edges[Min(edges)]
  <1>1. IsFacts(facts) /\ IsFacts(output)
    BY PutFacts DEF IsFrame
  <1>2. edges \in SUBSET (DOMAIN doc.edges)
    BY DEF edgesFrom
  <1> HIDE DEF facts, output, edges
  <1>3. CASE \E i \in edges : edges = {i}
    <2>1. Min(edges) \in DOMAIN doc.edges
      BY <1>2, <1>3, DocParts, MinIsLeast
    <2>2. IsEdge(edge) /\ edge.to \in STRING
      BY <2>1, DocParts DEF IsEdge
    <2> HIDE DEF edge
    <2>3. PICK m \in remapEdge(edge, out) : next = [Enter(edge.to, Put(facts, m)) EXCEPT !.output = output]
      BY <1>3 DEF Onwards, facts, output, edges, edge
    <2>4. IsFacts(Put(facts, m))
      BY <1>1, <2>2, PutFacts, RemapFacts
    <2> QED
      BY <1>1, <2>2, <2>3, <2>4, EmptyFacts DEF Enter, IsFrame
  <1>4. CASE ~\E i \in edges : edges = {i}
    <2>1. next = [frame EXCEPT !.phase = "edges", !.facts = facts, !.output = output,
                               !.out = out, !.edges = edges]
      BY <1>4 DEF Onwards, facts, output, edges
    <2> QED
      BY <1>1, <1>2, <2>1 DEF IsFrame
  <1> QED
    BY <1>3, <1>4

\* A node is evaluated to an output, or to a failure without one.
LEMMA EvalAtFacts ==
    ASSUME IsDSL(doc), NEW frame, NEW e \in evalAt(frame)
    PROVE  IsFacts(e.out)
  <1>1. CASE nodeByID(frame.node) = {}
    BY <1>1, EmptyFacts DEF evalAt
  <1>2. CASE nodeByID(frame.node) # {}
    BY <1>2, DocParts, NodeFacts DEF evalAt
  <1> QED
    BY <1>1, <1>2

LEMMA RulesDomain ==
    ASSUME NEW node, IsNode(node)
    PROVE  /\ DOMAIN node.rules \subseteq Nat
           /\ \A i \in DOMAIN node.rules : DOMAIN node.rules[i].when \subseteq Nat
  BY DEF IsNode, IsRule

LEMMA ConditionVerdict ==
    ASSUME NEW cond, NEW schema, NEW facts
    PROVE  evalCondition(cond, schema, facts) \in {"true", "false", "error", "panic"}
  <1>1. \A x : evalEnum(cond, x) \in {"true", "false", "error", "panic"}
    <2> SUFFICES ASSUME NEW x
                 PROVE  evalEnum(cond, x) \in {"true", "false", "error", "panic"}
      OBVIOUS
    <2>1. evalIn(Is(cond.value), x) \in {"true", "false", "panic"}
      BY VerdictIs DEF evalIn
    <2>2. Verdict(Equality(cond.op, Is(x), Is(cond.value))) \in {"true", "false"}
      BY VerdictIs
    <2> QED
      BY <2>1, <2>2 DEF evalEnum
  <1> QED
    BY <1>1, ScalarVerdicts DEF evalCondition, FieldTypes

LEMMA RulesVerdicts ==
    ASSUME NEW node, NEW schema, NEW facts, IsNode(node)
    PROVE  \A i \in DOMAIN node.rules :
              evalConditions(node.rules[i].when, schema, facts)
                  \in {"true", "false", "error", "panic"}
  <1> SUFFICES ASSUME NEW i \in DOMAIN node.rules
               PROVE  evalConditions(node.rules[i].when, schema, facts)
                          \in {"true", "false", "error", "panic"} \cup {"true"}
    OBVIOUS
  <1> DEFINE when == node.rules[i].when
  <1>1. DOMAIN when \subseteq Nat
    BY RulesDomain
  <1>2. \A j \in DOMAIN when :
           evalCondition(when[j], schema, facts) \in {"true", "false", "error", "panic"}
    BY ConditionVerdict
  <1> HIDE DEF when
  <1>3. evalConditions(when, schema, facts) \in {"true", "false", "error", "panic"} \cup {"true"}
    BY <1>1, <1>2, ConditionsVerdict
  <1> QED
    BY <1>3 DEF when

\* A failure of a node is a way for an evaluation to end.
LEMMA EvalAtVerdict ==
    ASSUME IsDSL(doc), NEW frame, NEW e \in evalAt(frame)
    PROVE  e.verdict \in {"true", "error", "panic"}
  <1>1. CASE nodeByID(frame.node) = {}
    BY <1>1 DEF evalAt
  <1>2. CASE nodeByID(frame.node) # {}
    <2>1. PICK node \in nodeByID(frame.node) : e = evalNode(node, doc.schema, frame.facts)
      BY <1>2 DEF evalAt
    <2>2. IsNode(node)
      BY DocParts
    <2>3. e.verdict \in ({"true", "false", "error", "panic"} \ {"false"}) \cup {"true"}
      BY <2>1, <2>2, RulesVerdicts, RulesDomain, NodeVerdict
    <2> QED
      BY <2>3
  <1> QED
    BY <1>1, <1>2

RestOK == status \in Statuses /\ IsFacts(result) /\ (status = "running" <=> stack # <<>>)

LEMMA TypeParts == EvaluationTypeOK <=> IsDSL(doc) /\ IsFacts(input) /\ FramesOK /\ RestOK
  BY DEF EvaluationTypeOK, FramesOK, RestOK

LEMMA EndOK ==
    ASSUME NEW outcome \in Statuses \ {"running"}, NEW output, IsFacts(output),
           End(outcome, output), UNCHANGED doc
    PROVE  FramesOK' /\ RestOK'
  <1>1. FramesOK'
    <2>1. stack' \in Seq({})
      BY DEF End
    <2> QED
      BY <2>1, FramesStep
  <1>2. RestOK'
    BY DEF End, RestOK
  <1> QED
    BY <1>1, <1>2

LEMMA LoadTyped == EvaluationTypeOK /\ Load => EvaluationTypeOK'
  <1> SUFFICES ASSUME EvaluationTypeOK, Load
               PROVE  FramesOK' /\ RestOK'
    BY DEF Load, EvaluationTypeOK, FramesOK, RestOK
  <1>0. IsDSL(doc) /\ IsFacts(input) /\ RestOK /\ UNCHANGED doc
    BY TypeParts DEF Load
  <1>1. CASE Validate(doc)
    <2>1. IsFrame(Enter(doc.entry, input))
      BY <1>0, DocParts, EnterFrame
    <2>2. stack' = <<Enter(doc.entry, input)>> /\ status' = "running" /\ result' = result
      BY <1>1 DEF Load
    <2>3. FramesOK'
      <3>1. stack' \in Seq({Enter(doc.entry, input)})
        BY <2>2
      <3> QED
        BY <1>0, <2>1, <3>1, FramesStep
    <2> QED
      BY <1>0, <2>2, <2>3 DEF RestOK, Statuses
  <1>2. CASE ~Validate(doc)
    BY <1>0, <1>2, EmptyFacts, EndOK DEF Load, Statuses
  <1> QED
    BY <1>1, <1>2

LEMMA VisitTyped == EvaluationTypeOK /\ Visit => EvaluationTypeOK'
  <1> SUFFICES ASSUME EvaluationTypeOK, Visit
               PROVE  FramesOK' /\ RestOK'
    BY DEF Visit, EvaluationTypeOK, FramesOK, RestOK
  <1>0. IsDSL(doc) /\ FramesOK /\ RestOK /\ stack # <<>> /\ UNCHANGED doc /\ status = "running"
    BY TypeParts DEF Visit, RestOK
  <1>1. PICK e \in evalAt(Head(stack)) :
           \/ /\ e.verdict = "true"
              /\ \E next \in Onwards(Head(stack), e.out) : stack' = <<next>> \o Tail(stack)
              /\ UNCHANGED <<status, result>>
           \/ e.verdict # "true" /\ End(e.verdict, Empty)
    BY DEF Visit
  <1>2. CASE e.verdict = "true"
    <2>1. PICK next \in Onwards(Head(stack), e.out) : stack' = <<next>> \o Tail(stack)
      BY <1>1, <1>2
    <2>2. IsFrame(next)
      BY <1>0, EvalAtFacts, HeadFrame, OnwardsFrames
    <2>3. stack' \in Seq(Range(stack) \cup {next}) /\ stack' # <<>>
      BY <1>0, <2>1, HeadFrame
    <2>4. FramesOK'
      BY <1>0, <2>2, <2>3, FramesStep DEF FramesOK
    <2> QED
      BY <1>0, <1>1, <1>2, <2>3, <2>4 DEF RestOK
  <1>3. CASE e.verdict # "true"
    BY <1>0, <1>1, <1>3, EvalAtVerdict, EmptyFacts, EndOK DEF Statuses
  <1> QED
    BY <1>2, <1>3

LEMMA BranchTyped == EvaluationTypeOK /\ Branch => EvaluationTypeOK'
  <1> SUFFICES ASSUME EvaluationTypeOK, Branch
               PROVE  FramesOK' /\ RestOK'
    BY DEF Branch, EvaluationTypeOK, FramesOK, RestOK
  <1>0. IsDSL(doc) /\ FramesOK /\ RestOK /\ stack # <<>> /\ UNCHANGED <<doc, status, result>>
    BY TypeParts DEF Branch, RestOK
  <1> DEFINE frame == Head(stack)
             next == Min(frame.edges)
             edge == doc.edges[next]
             rest == [frame EXCEPT !.edges = @ \ {next}]
  <1>1. IsFrame(frame) /\ frame.edges # {} /\ frame.edges \subseteq DOMAIN doc.edges
    BY <1>0, HeadFrame DEF Branch, IsFrame
  <1>2. next \in DOMAIN doc.edges
    BY <1>0, <1>1, DocParts, MinIsLeast
  <1>3. IsEdge(edge) /\ edge.to \in STRING
    BY <1>0, <1>2, DocParts DEF IsEdge
  <1>4. PICK m \in remapEdge(edge, frame.out) :
           stack' = <<Enter(edge.to, Put(frame.facts, m)), rest>> \o Tail(stack)
    BY DEF Branch
  <1>5. IsFrame(rest)
    BY <1>1 DEF IsFrame
  <1> HIDE DEF frame, edge
  <1>6. IsFrame(Enter(edge.to, Put(frame.facts, m)))
    BY <1>1, <1>3, RemapFacts, PutFacts, EnterFrame DEF IsFrame
  <1> HIDE DEF rest
  <1>7. stack' \in Seq(Range(stack) \cup {Enter(edge.to, Put(frame.facts, m)), rest}) /\ stack' # <<>>
    BY <1>0, <1>4, HeadFrame
  <1>8. FramesOK'
    BY <1>0, <1>5, <1>6, <1>7, FramesStep DEF FramesOK
  <1> QED
    BY <1>0, <1>7, <1>8 DEF RestOK

LEMMA SecondOfSeq ==
    ASSUME NEW S, NEW s \in Seq(S), s # <<>>, Len(s) # 1
    PROVE  s[2] \in S /\ Tail(Tail(s)) \in Seq(S)
  <1>0. Len(s) \in Nat \ {0}
    BY EmptySeq, Zenon
  <1>1. Len(s) \in Nat /\ Len(s) >= 2
    <2> DEFINE n == Len(s)
    <2>1. n \in Nat \ {0} /\ n # 1
      BY <1>0
    <2> HIDE DEF n
    <2>2. n \in Nat /\ n >= 2
      BY <2>1
    <2> QED
      BY <2>2 DEF n
  <1>2. Tail(s) \in Seq(S) /\ Len(Tail(s)) = Len(s) - 1
    BY HeadTailProperties
  <1>3. Tail(s) # <<>>
    BY <1>1, <1>2
  <1> QED
    BY <1>1, <1>2, <1>3, ElementOfSeq, HeadTailProperties

LEMMA LeaveTyped == EvaluationTypeOK /\ Leave => EvaluationTypeOK'
  <1> SUFFICES ASSUME EvaluationTypeOK, Leave
               PROVE  FramesOK' /\ RestOK'
    BY DEF Leave, EvaluationTypeOK, FramesOK, RestOK
  <1>0. FramesOK /\ RestOK /\ stack # <<>> /\ UNCHANGED doc
    BY TypeParts DEF Leave, RestOK
  <1>1. IsFrame(Head(stack)) /\ IsFacts(Head(stack).output)
    BY <1>0, HeadFrame DEF IsFrame
  <1>2. CASE Len(stack) = 1
    BY <1>0, <1>1, <1>2, EndOK DEF Leave, Statuses
  <1>3. CASE Len(stack) # 1
    <2> DEFINE caller == [stack[2] EXCEPT !.output = Put(@, Head(stack).output)]
    <2>1. stack[2] \in Range(stack) /\ Tail(Tail(stack)) \in Seq(Range(stack))
      BY <1>0, <1>3, SecondOfSeq DEF FramesOK
    <2>2. IsFrame(caller)
      BY <1>0, <1>1, <2>1, PutFacts DEF FramesOK, IsFrame
    <2>3. stack' = <<caller>> \o Tail(Tail(stack)) /\ UNCHANGED <<status, result>>
      BY <1>3 DEF Leave
    <2> HIDE DEF caller
    <2>4. stack' \in Seq(Range(stack) \cup {caller}) /\ stack' # <<>>
      BY <2>1, <2>3
    <2>5. FramesOK'
      BY <1>0, <2>2, <2>4, FramesStep DEF FramesOK
    <2> QED
      BY <1>0, <2>3, <2>4, <2>5 DEF RestOK
  <1> QED
    BY <1>2, <1>3

\* Facts and outputs keep their types and a walk has frames exactly while it
\* is running, for every decoded document and all facts.
THEOREM TypeCorrect == Spec => []EvaluationTypeOK
  <1>1. Init => EvaluationTypeOK
    BY EvaluationAssumption, EmptyFacts DEF Init, EvaluationTypeOK, Statuses, Range
  <1>2. EvaluationTypeOK /\ [Next]_vars => EvaluationTypeOK'
    <2>1. EvaluationTypeOK /\ UNCHANGED vars => EvaluationTypeOK'
      BY DEF EvaluationTypeOK, vars, IsFrame
    <2> QED
      BY <2>1, LoadTyped, VisitTyped, BranchTyped, LeaveTyped DEF Next
  <1> QED
    BY <1>1, <1>2, PTL DEF Spec

-----------------------------------------------------------------------------
(* What Validate promises the evaluator *)

\* Nothing but Load decides on a document; the document of a walk is valid.
ValidInv == status \notin {"loaded", "invalid"} => Validate(doc)

LEMMA NodeNeverPanics ==
    ASSUME IsDSL(doc), Validate(doc), NEW id, NEW node \in nodeByID(id), NEW facts
    PROVE  evalNode(node, doc.schema, facts).verdict # "panic"
  <1>1. PICK n \in DOMAIN doc.nodes : node = doc.nodes[n]
    BY DEF nodeByID, Range
  <1>2. IsNode(node)
    BY DocParts
  <1>3. ASSUME NEW i \in DOMAIN node.rules
        PROVE  evalConditions(node.rules[i].when, doc.schema, facts) \in {"true", "false", "error"}
    <2> DEFINE when == node.rules[i].when
    <2>1. DOMAIN when \subseteq Nat
      BY <1>2, RulesDomain
    <2>2. \A j \in DOMAIN when :
             evalCondition(when[j], doc.schema, facts) \in {"true", "false", "error"}
      BY <1>1, ValidConditions, ConditionNeverPanics
    <2> HIDE DEF when
    <2>3. evalConditions(when, doc.schema, facts) \in {"true", "false", "error"} \cup {"true"}
      BY <2>1, <2>2, ConditionsVerdict
    <2> QED
      BY <2>3 DEF when
  <1>4. evalNode(node, doc.schema, facts).verdict
            \in ({"true", "false", "error"} \ {"false"}) \cup {"true"}
    BY <1>2, <1>3, RulesDomain, NodeVerdict
  <1> QED
    BY <1>4

PanicInv == ValidInv /\ NeverPanics

LEMMA PanicStep ==
    ASSUME IsDSL(doc), PanicInv, [Next]_vars
    PROVE  PanicInv'
  <1>1. CASE Load
    BY <1>1 DEF Load, End, PanicInv, ValidInv, NeverPanics
  <1>2. CASE Visit
    <2>1. Validate(doc) /\ UNCHANGED doc
      BY <1>2 DEF Visit, PanicInv, ValidInv
    <2>2. PICK e \in evalAt(Head(stack)) :
             (e.verdict = "true" /\ status' = status) \/ End(e.verdict, Empty)
      BY <1>2 DEF Visit
    <2>3. e.verdict \in {"true", "error", "panic"}
      BY EvalAtVerdict
    <2>4. e.verdict # "panic"
      <3>1. CASE nodeByID(Head(stack).node) = {}
        BY <3>1 DEF evalAt
      <3>2. CASE nodeByID(Head(stack).node) # {}
        BY <2>1, <3>2, NodeNeverPanics DEF evalAt
      <3> QED
        BY <3>1, <3>2
    <2> QED
      BY <2>1, <2>2, <2>3, <2>4 DEF End, PanicInv, ValidInv, NeverPanics
  <1>3. CASE Branch
    BY <1>3 DEF Branch, PanicInv, ValidInv, NeverPanics
  <1>4. CASE Leave
    BY <1>4 DEF Leave, End, PanicInv, ValidInv, NeverPanics
  <1>5. CASE UNCHANGED vars
    BY <1>5 DEF vars, PanicInv, ValidInv, NeverPanics
  <1> QED
    BY <1>1, <1>2, <1>3, <1>4, <1>5 DEF Next

LEMMA PanicInvariant == Spec => []PanicInv
  <1>1. Init => PanicInv
    BY DEF Init, PanicInv, ValidInv, NeverPanics
  <1>2. EvaluationTypeOK /\ PanicInv /\ [Next]_vars => PanicInv'
    BY PanicStep DEF EvaluationTypeOK
  <1> QED
    BY <1>1, <1>2, TypeCorrect, PTL DEF Spec

\* No document that passed Validate and no facts make a type assertion of
\* evalEnum panic.
THEOREM PanicFree == Spec => []NeverPanics
  <1>1. PanicInv => NeverPanics
    BY DEF PanicInv
  <1> QED
    BY <1>1, PanicInvariant, PTL

-----------------------------------------------------------------------------
(* Well-typed documents *)

\* The document and the facts of WellTypedNeverFails.
Typed == Validate(doc) /\ WellTyped(doc) /\ Fitting(doc.schema, input)

\* A frame that cannot fail: its node exists, its values fit.
SoundFrame(f) ==
    f.node \in NodeIds(doc) /\ Fitting(doc.schema, f.facts) /\ Fitting(doc.schema, f.out)

SoundInv ==
    Typed => /\ status \notin {"invalid", "error", "panic"}
             /\ \A f \in Range(stack) : SoundFrame(f)

\* New frames are sound if they are made of sound ones.
LEMMA SoundStep ==
    ASSUME NEW S, \A f \in S : SoundFrame(f), stack' \in Seq(S), UNCHANGED doc
    PROVE  \A f \in Range(stack') : SoundFrame(f)'
  <1>1. Range(stack') \subseteq S
    BY SeqOfItsRange
  <1> QED
    BY <1>1 DEF SoundFrame

LEMMA EndsSound ==
    ASSUME stack' = <<>>
    PROVE  Range(stack') = {}
  BY DEF Range

\* Of a well-typed document, an existing node is evaluated to a fitting output.
LEMMA TypedNode ==
    ASSUME IsDSL(doc), Typed, NEW frame, IsFrame(frame), SoundFrame(frame), NEW e \in evalAt(frame)
    PROVE  e.verdict = "true" /\ Fitting(doc.schema, e.out)
  <1>1. PICK n \in DOMAIN doc.nodes : frame.node = doc.nodes[n].id
    BY DEF SoundFrame, NodeIds
  <1>2. doc.nodes[n] \in nodeByID(frame.node)
    BY <1>1 DEF nodeByID, Range
  <1>3. PICK node \in nodeByID(frame.node) : e = evalNode(node, doc.schema, frame.facts)
    BY <1>2 DEF evalAt
  <1>4. PICK k \in DOMAIN doc.nodes : node = doc.nodes[k]
    BY DEF nodeByID, Range
  <1>5. IsNode(node)
    BY DocParts
  <1>6. ASSUME NEW i \in DOMAIN node.rules
        PROVE  evalConditions(node.rules[i].when, doc.schema, frame.facts) \in {"true", "false"}
    <2> DEFINE when == node.rules[i].when
    <2>1. DOMAIN when \subseteq Nat
      BY <1>5, RulesDomain
    <2>2. \A j \in DOMAIN when : ValidCondition(when[j], doc.schema)
      BY <1>4, ValidConditions DEF Typed
    <2>3. IsFacts(frame.facts) /\ Fitting(doc.schema, frame.facts)
      BY DEF IsFrame, SoundFrame
    <2>4. \A j \in DOMAIN when :
             evalCondition(when[j], doc.schema, frame.facts) \in {"true", "false"}
      BY <2>2, <2>3, ConditionDecides
    <2> HIDE DEF when
    <2>5. evalConditions(when, doc.schema, frame.facts) \in {"true", "false"} \cup {"true"}
      BY <2>1, <2>4, ConditionsVerdict
    <2> QED
      BY <2>5 DEF when
  <1>7. e.verdict \in ({"true", "false"} \ {"false"}) \cup {"true"}
    BY <1>3, <1>5, <1>6, RulesDomain, NodeVerdict
  <1>8. Fitting(doc.schema, e.out)
    BY <1>3, <1>4, <1>5, NodeFits DEF Typed, WellTyped
  <1> QED
    BY <1>7, <1>8

\* An edge leads to a node and brings fitting values.
LEMMA TypedEdge ==
    ASSUME Typed, NEW i \in DOMAIN doc.edges, NEW out, Fitting(doc.schema, out),
           NEW m \in remapEdge(doc.edges[i], out)
    PROVE  doc.edges[i].to \in NodeIds(doc) /\ Fitting(doc.schema, m)
  <1>1. doc.edges[i].to \in NodeIds(doc)
    BY DEF Typed, Validate, ProperEdges
  <1>2. \A k \in DOMAIN doc.edges[i].map :
           /\ k \in DOMAIN doc.schema
           /\ KindOf[doc.schema[k].type] = KindOf[doc.schema[doc.edges[i].map[k]].type]
    BY DEF Typed, WellTyped
  <1> QED
    BY <1>1, <1>2, RemapFits

LEMMA EnterSound ==
    ASSUME NEW id \in NodeIds(doc), NEW facts, Fitting(doc.schema, facts)
    PROVE  SoundFrame(Enter(id, facts))
  BY EmptyFacts DEF SoundFrame, Enter

LEMMA OnwardsSound ==
    ASSUME IsDSL(doc), Typed, NEW frame, IsFrame(frame), SoundFrame(frame),
           NEW out, Fitting(doc.schema, out), NEW next \in Onwards(frame, out)
    PROVE  SoundFrame(next)
  <1> DEFINE facts == Put(frame.facts, out)
             output == Put(frame.output, out)
             edges == edgesFrom(frame.node)
             first == Min(edges)
  <1>1. Fitting(doc.schema, facts)
    BY PutFits DEF SoundFrame
  <1>2. edges \in SUBSET (DOMAIN doc.edges)
    BY DEF edgesFrom
  <1> HIDE DEF facts, output, edges
  <1>3. CASE \E i \in edges : edges = {i}
    <2>1. first \in DOMAIN doc.edges
      BY <1>2, <1>3, DocParts, MinIsLeast
    <2> HIDE DEF first
    <2>2. PICK m \in remapEdge(doc.edges[first], out) :
             next = [Enter(doc.edges[first].to, Put(facts, m)) EXCEPT !.output = output]
      BY <1>3 DEF Onwards, facts, output, edges, first
    <2>3. SoundFrame(Enter(doc.edges[first].to, Put(facts, m)))
      BY <1>1, <2>1, TypedEdge, PutFits, EnterSound
    <2> QED
      BY <2>2, <2>3 DEF Enter, SoundFrame
  <1>4. CASE ~\E i \in edges : edges = {i}
    <2>1. next = [frame EXCEPT !.phase = "edges", !.facts = facts, !.output = output,
                               !.out = out, !.edges = edges]
      BY <1>4 DEF Onwards, facts, output, edges
    <2> QED
      BY <1>1, <2>1 DEF SoundFrame, IsFrame
  <1> QED
    BY <1>3, <1>4

LEMMA LoadSound ==
    ASSUME EvaluationTypeOK, SoundInv, Load
    PROVE  SoundInv'
  <1> SUFFICES ASSUME Typed
               PROVE  /\ status' \notin {"invalid", "error", "panic"}
                      /\ \A f \in Range(stack') : SoundFrame(f)'
    BY DEF SoundInv, Typed, Load
  <1> DEFINE first == Enter(doc.entry, input)
  <1>1. /\ stack' = <<first>>
        /\ status' = "running"
        /\ UNCHANGED doc
    BY DEF Load, Typed
  <1>2. SoundFrame(first)
    BY EnterSound DEF Typed, Validate
  <1> HIDE DEF first
  <1>3. stack' \in Seq({first})
    BY <1>1
  <1>4. \A f \in Range(stack') : SoundFrame(f)'
    <2> DEFINE S == {first}
    <2>1. (\A f \in S : SoundFrame(f)) /\ stack' \in Seq(S)
      BY <1>2, <1>3
    <2> HIDE DEF S
    <2> QED
      BY <1>1, <2>1, SoundStep
  <1> QED
    BY <1>1, <1>4

LEMMA VisitSound ==
    ASSUME EvaluationTypeOK, SoundInv, Visit
    PROVE  SoundInv'
  <1> SUFFICES ASSUME Typed
               PROVE  /\ status' \notin {"invalid", "error", "panic"}
                      /\ \A f \in Range(stack') : SoundFrame(f)'
    BY DEF SoundInv, Typed, Visit
  <1>0. /\ IsDSL(doc) /\ FramesOK /\ stack # <<>> /\ UNCHANGED doc
        /\ \A f \in Range(stack) : SoundFrame(f)
    BY TypeParts DEF Visit, RestOK, SoundInv
  <1>1. PICK e \in evalAt(Head(stack)) :
           \/ /\ e.verdict = "true"
              /\ \E next \in Onwards(Head(stack), e.out) : stack' = <<next>> \o Tail(stack)
              /\ UNCHANGED <<status, result>>
           \/ e.verdict # "true" /\ End(e.verdict, Empty)
    BY DEF Visit
  <1>2. e.verdict = "true" /\ Fitting(doc.schema, e.out)
    BY <1>0, HeadFrame, TypedNode
  <1>3. PICK next \in Onwards(Head(stack), e.out) : stack' = <<next>> \o Tail(stack)
    BY <1>1, <1>2
  <1>4. SoundFrame(next)
    BY <1>0, <1>2, HeadFrame, OnwardsSound
  <1>5. stack' \in Seq(Range(stack) \cup {next})
    BY <1>0, <1>3, HeadFrame
  <1>6. status' \notin {"invalid", "error", "panic"}
    BY <1>1, <1>2 DEF SoundInv
  <1> QED
    BY <1>0, <1>4, <1>5, <1>6, SoundStep

LEMMA BranchSound ==
    ASSUME EvaluationTypeOK, SoundInv, Branch
    PROVE  SoundInv'
  <1> SUFFICES ASSUME Typed
               PROVE  \A f \in Range(stack') : SoundFrame(f)'
    BY DEF SoundInv, Typed, Branch
  <1>0. /\ IsDSL(doc) /\ FramesOK /\ stack # <<>> /\ UNCHANGED doc
        /\ \A f \in Range(stack) : SoundFrame(f)
    BY TypeParts DEF Branch, RestOK, SoundInv
  <1> DEFINE frame == Head(stack)
             next == Min(frame.edges)
             edge == doc.edges[next]
             rest == [frame EXCEPT !.edges = @ \ {next}]
  <1>1. /\ IsFrame(frame) /\ SoundFrame(frame)
        /\ frame.edges # {} /\ frame.edges \subseteq DOMAIN doc.edges
    BY <1>0, HeadFrame DEF Branch, IsFrame
  <1>2. next \in DOMAIN doc.edges
    BY <1>0, <1>1, DocParts, MinIsLeast
  <1>3. PICK m \in remapEdge(edge, frame.out) :
           stack' = <<Enter(edge.to, Put(frame.facts, m)), rest>> \o Tail(stack)
    BY DEF Branch
  <1>4. SoundFrame(rest)
    BY <1>1 DEF SoundFrame, IsFrame
  <1>5. edge.to \in NodeIds(doc) /\ Fitting(doc.schema, m)
    BY <1>1, <1>2, <1>3, TypedEdge DEF SoundFrame
  <1> HIDE DEF frame, edge
  <1>6. SoundFrame(Enter(edge.to, Put(frame.facts, m)))
    BY <1>1, <1>5, PutFits, EnterSound DEF SoundFrame
  <1> HIDE DEF rest
  <1>7. stack' \in Seq(Range(stack) \cup {Enter(edge.to, Put(frame.facts, m)), rest})
    BY <1>0, <1>3, HeadFrame
  <1> QED
    BY <1>0, <1>4, <1>6, <1>7, SoundStep

LEMMA LeaveSound ==
    ASSUME EvaluationTypeOK, SoundInv, Leave
    PROVE  SoundInv'
  <1> SUFFICES ASSUME Typed
               PROVE  /\ status' \notin {"invalid", "error", "panic"}
                      /\ \A f \in Range(stack') : SoundFrame(f)'
    BY DEF SoundInv, Typed, Leave
  <1>0. /\ FramesOK /\ stack # <<>> /\ UNCHANGED doc
        /\ \A f \in Range(stack) : SoundFrame(f) /\ IsFrame(f)
        /\ status = "running"
    BY TypeParts DEF Leave, RestOK, SoundInv, FramesOK
  <1>1. CASE Len(stack) = 1
    <2>1. status' = "done" /\ stack' = <<>>
      BY <1>1 DEF Leave, End
    <2> QED
      BY <2>1, EndsSound
  <1>2. CASE Len(stack) # 1
    <2> DEFINE caller == [stack[2] EXCEPT !.output = Put(@, Head(stack).output)]
    <2>1. stack[2] \in Range(stack) /\ Tail(Tail(stack)) \in Seq(Range(stack))
      BY <1>0, <1>2, SecondOfSeq DEF FramesOK
    <2>2. SoundFrame(caller)
      BY <1>0, <2>1 DEF SoundFrame, IsFrame
    <2>3. stack' = <<caller>> \o Tail(Tail(stack)) /\ UNCHANGED status
      BY <1>2 DEF Leave
    <2> HIDE DEF caller
    <2>4. stack' \in Seq(Range(stack) \cup {caller})
      BY <2>1, <2>3
    <2> QED
      BY <1>0, <2>2, <2>3, <2>4, SoundStep
  <1> QED
    BY <1>1, <1>2

\* The evaluation of a well-typed document with fitting facts is not refused,
\* does not fail and does not panic, whatever the document's graph.
THEOREM TypedSucceeds == Spec => []WellTypedNeverFails
  <1>1. Init => SoundInv
    BY EndsSound DEF Init, SoundInv, Range
  <1>2. EvaluationTypeOK /\ SoundInv /\ [Next]_vars => SoundInv'
    <2>1. SoundInv /\ UNCHANGED vars => SoundInv'
      BY DEF SoundInv, SoundFrame, Typed, vars
    <2> QED
      BY <2>1, LoadSound, VisitSound, BranchSound, LeaveSound DEF Next
  <1>3. SoundInv => WellTypedNeverFails
    BY DEF SoundInv, Typed, WellTypedNeverFails
  <1> QED
    BY <1>1, <1>2, <1>3, TypeCorrect, PTL DEF Spec
=============================================================================

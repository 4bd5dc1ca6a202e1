------------------------ MODULE EvaluationProperties ------------------------
(***************************************************************************)
(* What the two validations promise the evaluator and each other.          *)
(***************************************************************************)
EXTENDS RuleEvaluation

\* A document that passed Validate is evaluated without a panic, whatever the
\* facts are: evalEnum asserts types that only validateConditionValue checked.
NeverPanics == status # "panic"

\* What can be published can be saved as a draft: Rollback writes a published
\* document into the draft without a validation.
PublishableIsSavable == Validate(doc) => ValidateDraft(doc)

\* The values of facts have the types of the fields that are in the schema.
Fitting(schema, facts) ==
    \A f \in DOMAIN facts \cap DOMAIN schema :
        Kind(facts[f]) \in {"nil", KindOf[schema[f].type]}

\* What Validate leaves open: the types of the values that rules and defaults
\* put out, and of the fields that edges connect.
WellTyped(d) ==
    /\ \A i \in DOMAIN d.nodes :
          /\ Fitting(d.schema, d.nodes[i].default)
          /\ \A j \in DOMAIN d.nodes[i].rules : Fitting(d.schema, d.nodes[i].rules[j].then)
    /\ \A i \in DOMAIN d.edges : \A k \in DOMAIN d.edges[i].map :
          /\ k \in DOMAIN d.schema
          /\ KindOf[d.schema[k].type] = KindOf[d.schema[d.edges[i].map[k]].type]

\* A valid document whose outputs and edges are well typed, evaluated with
\* facts that are, does not fail: every node, field, operator and value is
\* found and of the kind it is used as (evalDSL to evalEnum).
WellTypedNeverFails ==
    status \in {"invalid", "error", "panic"} =>
        ~(Validate(doc) /\ WellTyped(doc) /\ Fitting(doc.schema, input))

\* No node can be reached from itself: of any nodes, one leads to none of them.
Acyclic(d) ==
    \A ids \in (SUBSET NodeIds(d)) \ {{}} :
        \E id \in ids : \A i \in DOMAIN d.edges : d.edges[i].from = id => d.edges[i].to \notin ids

\* The evaluation of a document without cycles ends, with an output or an error.
EvaluationEnds ==
    (Validate(doc) => Acyclic(doc)) => <>(status \in Ended)

\* "evalDSL runs a parsed DSL against input facts and returns output + trace."
EveryEvaluationEnds == <>(status \in Ended)
=============================================================================

--------------------------- MODULE RuleEvaluation ---------------------------
(***************************************************************************)
(* The evaluator (service.evalDSL): a walk over the nodes of a document,   *)
(* from its entry, with the facts of a request.  One step visits a node,   *)
(* enters a branch or leaves one; a call of evalFrom is a frame.           *)
(*                                                                         *)
(* A walk shares nothing with others, so one is modelled.  The trace is    *)
(* left out.  Where a Go type assertion would panic the walk does, too.    *)
(***************************************************************************)
EXTENDS DslDocument

CONSTANTS
    Documents,  \* what may be stored as a version or a draft
    Inputs,     \* the facts of requests
    Relations   \* string operator -> the pairs <<s, part>> it holds for

ASSUME EvaluationAssumption ==
    /\ \A d \in Documents : IsDSL(d)
    /\ \A i \in Inputs : IsFacts(i)
    /\ Relations \in [{"contains", "starts_with", "ends_with"} -> SUBSET (Strings \X Strings)]

VARIABLES
    doc,     \* the document
    input,   \* the facts of the request
    stack,   \* the frames, innermost first
    status,  \* "loaded", "running", or how the evaluation ended
    result   \* the output, once it is done

vars == <<doc, input, stack, status, result>>

Empty == [f \in {} |-> Nil]

\* phase "node": about to evaluate node.  Phase "edges": out is the output of
\* the node last evaluated, and edges has the indices of those still to follow.
IsFrame(f) ==
    /\ f \in [phase : {"node", "edges"}, node : STRING, facts : {f.facts}, output : {f.output},
              out : {f.out}, edges : SUBSET (DOMAIN doc.edges)]
    /\ IsFacts(f.facts) /\ IsFacts(f.output) /\ IsFacts(f.out)

Statuses == {"loaded", "running", "done", "invalid", "error", "panic"}

Ended == Statuses \ {"loaded", "running"}

\* Every variable holds a value of its type; only a running walk has frames.
EvaluationTypeOK ==
    /\ IsDSL(doc)
    /\ IsFacts(input)
    /\ stack \in Seq(Range(stack)) /\ \A f \in Range(stack) : IsFrame(f)
    /\ status \in Statuses
    /\ IsFacts(result)
    /\ status = "running" <=> stack # <<>>

Init ==
    /\ doc \in Documents
    /\ input \in Inputs
    /\ stack = <<>>
    /\ status = "loaded"
    /\ result = Empty

-----------------------------------------------------------------------------
(* Conditions: "true", "false", "error" or "panic" *)

\* What a field that is absent or null counts as.
Zero == [number |-> Number(0), string |-> String(""), boolean |-> Boolean(FALSE),
         enum |-> String("")]

\* The kind of value a fact of a type has.
KindOf == [number |-> "number", string |-> "string", boolean |-> "boolean", enum |-> "string"]

Verdict(b) == IF b THEN "true" ELSE "false"

Equality(op, x, y) == IF op = "eq" THEN x = y ELSE x # y

\* A condition value null counts as 0.
evalNumber(cond, x) ==
    LET y == IF cond.value = Nil THEN Zero.number ELSE cond.value
    IN CASE Kind(y) # "number" \/ cond.op \notin validOps.number -> "error"
         [] OTHER -> Verdict(CASE cond.op = "gt" -> Is(x) > Is(y)
                               [] cond.op = "gte" -> Is(x) >= Is(y)
                               [] cond.op = "lt" -> Is(x) < Is(y)
                               [] cond.op = "lte" -> Is(x) <= Is(y)
                               [] OTHER -> Equality(cond.op, Is(x), Is(y)))

evalString(cond, x) ==
    CASE Kind(cond.value) # "string" \/ cond.op \notin validOps.string -> "error"
      [] OTHER -> Verdict(IF cond.op \in {"eq", "ne"}
                          THEN Equality(cond.op, Is(x), Is(cond.value))
                          ELSE <<Is(x), Is(cond.value)>> \in Relations[cond.op])

evalBool(cond, x) ==
    CASE Kind(cond.value) # "boolean" \/ cond.op \notin validOps.boolean -> "error"
      [] OTHER -> Verdict(Equality(cond.op, Is(x), Is(cond.value)))

\* The elements up to the first that x equals are asserted to be strings.
evalIn(elements, x) ==
    LET Found(i) == elements[i] = x
        Fails(i) == Kind(elements[i]) # "string" /\ \A j \in 1..i : ~Found(j)
    IN CASE \E i \in DOMAIN elements : Fails(i) -> "panic"
         [] OTHER -> Verdict(\E i \in DOMAIN elements : Found(i))

evalEnum(cond, x) ==
    CASE cond.op \notin validOps.enum -> "error"
      [] cond.op = "in" -> IF Kind(cond.value) = "array" THEN evalIn(Is(cond.value), x) ELSE "panic"
      [] OTHER -> IF Kind(cond.value) = "string"
                  THEN Verdict(Equality(cond.op, Is(x), Is(cond.value)))
                  ELSE "panic"

evalCondition(cond, schema, facts) ==
    IF cond.field \notin DOMAIN schema \/ schema[cond.field].type \notin FieldTypes
    THEN "error"
    ELSE LET type == schema[cond.field].type
             raw == IF cond.field \in DOMAIN facts THEN facts[cond.field] ELSE Nil
             x == IF raw = Nil THEN Zero[type] ELSE raw
         IN CASE Kind(x) # KindOf[type] -> "error"
              [] OTHER -> CASE type = "number" -> evalNumber(cond, x)
                            [] type = "string" -> evalString(cond, x)
                            [] type = "boolean" -> evalBool(cond, x)
                            [] type = "enum" -> evalEnum(cond, x)

\* The first condition that is not true decides.
evalConditions(when, schema, facts) ==
    LET verdict == [i \in DOMAIN when |-> evalCondition(when[i], schema, facts)]
        stops == {i \in DOMAIN when : verdict[i] # "true"}
    IN IF stops = {} THEN "true" ELSE verdict[Min(stops)]

-----------------------------------------------------------------------------
(* Nodes and edges *)

\* for k, v := range more { m[k] = v }
Put(m, more) ==
    [k \in DOMAIN m \cup DOMAIN more |-> IF k \in DOMAIN more THEN more[k] ELSE m[k]]

\* The outputs of the rules that matched; of two that set a key, the later wins.
Outputs(rules, matched) ==
    [k \in UNION {DOMAIN rules[i].then : i \in matched} |->
        rules[Max({i \in matched : k \in DOMAIN rules[i].then})].then[k]]

\* The verdict "true" with the output, or the error.  The first rule that
\* matches ends a first_match node, the first that fails ends any.
evalNode(node, schema, facts) ==
    LET verdict == [i \in DOMAIN node.rules |->
                       evalConditions(node.rules[i].when, schema, facts)]
        ending == IF node.strategy = "first_match" THEN {"true", "error", "panic"}
                                                   ELSE {"error", "panic"}
        stops == {i \in DOMAIN node.rules : verdict[i] \in ending}
        matched == IF stops # {} THEN {Min(stops)}
                   ELSE {i \in DOMAIN node.rules : verdict[i] = "true"}
    IN [verdict |-> IF stops = {} THEN "true" ELSE verdict[Min(stops)],
        out |-> IF matched = {} THEN node.default ELSE Outputs(node.rules, matched)]

\* The values an edge brings.  Of two sources mapped to one destination, the
\* iteration order of the Go map decides.
remapEdge(edge, out) ==
    LET sources == DOMAIN edge.map \cap DOMAIN out
        From(f) == {out[k] : k \in {s \in sources : edge.map[s] = f}}
    IN IF DOMAIN edge.map = {} THEN {out}
       ELSE {m \in [{edge.map[s] : s \in sources} -> Range(out)] :
                \A f \in DOMAIN m : m[f] \in From(f)}

nodeByID(id) == {node \in Range(doc.nodes) : node.id = id}

edgesFrom(id) == {i \in DOMAIN doc.edges : doc.edges[i].from = id}

-----------------------------------------------------------------------------
(* The walk *)

Enter(id, facts) ==
    [phase |-> "node", node |-> id, facts |-> facts, output |-> Empty, out |-> Empty,
     edges |-> {}]

\* Mutant of End: the frames are not unwound.
EndKeeping(outcome, output) ==
    /\ UNCHANGED stack
    /\ status' = outcome
    /\ result' = output

\* evalFrom returns, or fails, in every frame.
End(outcome, output) ==
    /\ stack' = <<>>
    /\ status' = outcome
    /\ result' = output

\* ParseAndValidate, whether the document is a version or a draft.
Load ==
    /\ status = "loaded"
    /\ IF Validate(doc)
       THEN /\ stack' = <<Enter(doc.entry, input)>>
            /\ status' = "running"
            /\ UNCHANGED result
       ELSE End("invalid", Empty)
    /\ UNCHANGED <<doc, input>>

\* Mutant of Onwards: the walk stays at the node.
OnwardsNowhere(frame, out) == {frame}

\* The frames that can follow frame when its node's output is out: an only
\* edge is followed in the frame itself, several in frames of their own.
Onwards(frame, out) ==
    LET facts == Put(frame.facts, out)
        output == Put(frame.output, out)
        edges == edgesFrom(frame.node)
        edge == doc.edges[Min(edges)]
    IN IF \E i \in edges : edges = {i}
       THEN {[Enter(edge.to, Put(facts, m)) EXCEPT !.output = output] :
                m \in remapEdge(edge, out)}
       ELSE {[frame EXCEPT !.phase = "edges", !.facts = facts, !.output = output,
                           !.out = out, !.edges = edges]}

\* What evaluating a frame's node gives: an error if there is no such node.
evalAt(frame) ==
    IF nodeByID(frame.node) = {}
    THEN {[verdict |-> "error", out |-> Empty]}
    ELSE {evalNode(node, doc.schema, frame.facts) : node \in nodeByID(frame.node)}

Visit ==
    /\ status = "running"
    /\ Head(stack).phase = "node"
    /\ \E e \in evalAt(Head(stack)) :
          \/ /\ e.verdict = "true"
             /\ \E next \in Onwards(Head(stack), e.out) : stack' = <<next>> \o Tail(stack)
             /\ UNCHANGED <<status, result>>
          \/ e.verdict # "true" /\ End(e.verdict, Empty)
    /\ UNCHANGED <<doc, input>>

\* The first of the edges is followed, from a copy of the facts.
Branch ==
    /\ status = "running"
    /\ Head(stack).phase = "edges"
    /\ Head(stack).edges # {}
    /\ LET frame == Head(stack)
           next == Min(frame.edges)
           edge == doc.edges[next]
       IN \E m \in remapEdge(edge, frame.out) :
             stack' = <<Enter(edge.to, Put(frame.facts, m)),
                        [frame EXCEPT !.edges = @ \ {next}]>> \o Tail(stack)
    /\ UNCHANGED <<doc, input, status, result>>

\* Mutant of Leave: the branches share one map of facts.
LeaveSharing ==
    /\ status = "running"
    /\ Head(stack).phase = "edges"
    /\ Head(stack).edges = {}
    /\ IF Len(stack) = 1
       THEN End("done", Head(stack).output)
       ELSE LET caller == stack[2] IN
            /\ stack' = <<[caller EXCEPT !.output = Put(@, Head(stack).output),
                                         !.facts = Head(stack).facts]>>
                            \o Tail(Tail(stack))
            /\ UNCHANGED <<status, result>>
    /\ UNCHANGED <<doc, input>>

\* A call returns: its caller takes over the output, and nothing else.
Leave ==
    /\ status = "running"
    /\ Head(stack).phase = "edges"
    /\ Head(stack).edges = {}
    /\ IF Len(stack) = 1
       THEN End("done", Head(stack).output)
       ELSE LET caller == stack[2] IN
            /\ stack' = <<[caller EXCEPT !.output = Put(@, Head(stack).output)]>>
                            \o Tail(Tail(stack))
            /\ UNCHANGED <<status, result>>
    /\ UNCHANGED <<doc, input>>

Next == Load \/ Visit \/ Branch \/ Leave

Spec == Init /\ [][Next]_vars

FairSpec == Spec /\ WF_vars(Next)
=============================================================================

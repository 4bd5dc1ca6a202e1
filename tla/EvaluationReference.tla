------------------------- MODULE EvaluationReference -------------------------
(***************************************************************************)
(* What an evaluation computes, by recursion over the edges: a definition  *)
(* that knows no frames and no order of steps, treats an only edge like    *)
(* one of several, and says of all branches together what remains of them. *)
(***************************************************************************)
EXTENDS EvaluationProperties

CONSTANT Depths  \* how deep the recursion may go

ASSUME DepthsAssumption == Depths \subseteq Nat

\* What a node sees of every field: an absent fact is as good as null.
Seen(facts) == [f \in Fields |-> IF f \in DOMAIN facts THEN facts[f] ELSE Nil]

\* A node to evaluate from, and what it sees.
Places == [node : STRING, facts : [Fields -> Values]]

Place(id, facts) == [node |-> id, facts |-> Seen(facts)]

\* A verdict, and the output if it is "true".
Outcome(verdict, out) == [verdict |-> verdict, out |-> out]

After(out, outcome) ==
    IF outcome.verdict = "true" THEN Outcome("true", Put(out, outcome.out)) ELSE outcome

\* What the branch along an edge gives, if meaning has the outcomes of places:
\* it sees the facts of its ancestors and those that the edge brings.
Gives(meaning, edge, facts, out) ==
    UNION {meaning[Place(edge.to, Put(facts, m))] : m \in remapEdge(edge, out)}

\* What branches put out, by edge: the last one that has a key sets it.
Together(branch) ==
    [k \in UNION {DOMAIN branch[i].out : i \in DOMAIN branch} |->
        branch[Max({i \in DOMAIN branch : k \in DOMAIN branch[i].out})].out[k]]

\* All branches succeed, or one fails after those before it have succeeded.
Branches(meaning, edges, facts, out) ==
    LET From(i) == Gives(meaning, doc.edges[i], facts, out)
        Succeeding(i) == {o \in From(i) : o.verdict = "true"}
    IN {Outcome("true", Together(branch)) :
           branch \in {b \in [edges -> UNION {Succeeding(i) : i \in edges}] :
                          \A i \in edges : b[i] \in Succeeding(i)}}
       \cup UNION {From(i) \ Succeeding(i) :
                      i \in {x \in edges : \A j \in edges : j < x => Succeeding(j) # {}}}

\* The outcomes of evaluating from a place.
Outcomes(meaning, place) ==
    UNION {IF own.verdict = "true"
           THEN {After(own.out, o) :
                   o \in Branches(meaning, edgesFrom(place.node), Put(place.facts, own.out), own.out)}
           ELSE {Outcome(own.verdict, Empty)} : own \in evalAt(place)}

\* Up to some depth of the graph.  There are several outcomes of a place where
\* an edge maps two outputs to one field.
Meanings[depth \in Nat] ==
    [place \in Places |-> IF depth = 0 THEN {} ELSE Outcomes(Meanings[depth - 1], place)]

OneToOne(edge) ==
    \A j, k \in DOMAIN edge.map : edge.map[j] = edge.map[k] => j = k

\* An evaluation that ends has computed what the document means: branches see
\* the facts of their ancestors and of no sibling, the last node to put out a
\* key wins, and one failure fails the whole.  Document and facts determine
\* the outcome, unless an edge maps two outputs to one field.
OutcomeIsMeaning ==
    status \in {"done", "error", "panic"} =>
        LET meanings == UNION {Meanings[depth][Place(doc.entry, input)] : depth \in Depths}
        IN /\ Outcome(IF status = "done" THEN "true" ELSE status, result) \in meanings
           /\ (\A i \in DOMAIN doc.edges : OneToOne(doc.edges[i])) =>
                 \A m, n \in meanings : m = n
=============================================================================

---------------------------- MODULE MeaningProofs ----------------------------
(***************************************************************************)
(* The walk of evaluateFromNode computes the meaning of the document that  *)
(* EvaluationReference defines, for any document and any facts: graphs of  *)
(* any size, those with a cycle included.  The frames of the stack are the *)
(* calls under way; each has an origin, the place where its call began,    *)
(* and what it can still return is what that place means.                  *)
(***************************************************************************)
EXTENDS EvaluationProofs

-----------------------------------------------------------------------------
(* What is seen of facts *)

LEMMA SeenOK ==
    ASSUME NEW facts, IsFacts(facts)
    PROVE  Seen(facts) \in [Fields -> Values] /\ IsFacts(Seen(facts))
  <1>1. Nil \in Values
    BY DEF Values, Scalars
  <1>2. Seen(facts) \in [Fields -> Values]
    BY <1>1 DEF Seen, IsFacts, IsMap
  <1> QED
    BY <1>2 DEF IsFacts, IsMap

\* What facts look like decides what they look like when more is put in.
SeenWith(seen, m) == [k \in Fields |-> IF k \in DOMAIN m THEN m[k] ELSE seen[k]]

LEMMA SeenPut ==
    ASSUME NEW facts, NEW m
    PROVE  Seen(Put(facts, m)) = SeenWith(Seen(facts), m)
  <1>1. ASSUME NEW k \in Fields
        PROVE  Seen(Put(facts, m))[k] = SeenWith(Seen(facts), m)[k]
    BY DEF Seen, SeenWith, Put
  <1>2. /\ Seen(Put(facts, m)) = [k \in Fields |-> Seen(Put(facts, m))[k]]
        /\ SeenWith(Seen(facts), m) = [k \in Fields |-> SeenWith(Seen(facts), m)[k]]
    BY Zenon DEF Seen, SeenWith
  <1> QED
    BY <1>1, <1>2

LEMMA SeenTwice ==
    ASSUME NEW facts
    PROVE  Seen(Seen(facts)) = Seen(facts)
  BY DEF Seen

LEMMA PlaceOK ==
    ASSUME NEW id \in STRING, NEW facts, IsFacts(facts)
    PROVE  Place(id, facts) \in Places
  BY SeenOK DEF Place, Places

\* A node evaluates what it sees.
LEMMA SeenEnough ==
    ASSUME IsDSL(doc), NEW frame
    PROVE  evalAt(Place(frame.node, frame.facts)) = evalAt(frame)
  <1> DEFINE place == Place(frame.node, frame.facts)
  <1>1. place.node = frame.node /\ place.facts = Seen(frame.facts)
    BY DEF Place
  <1>2. \A cond : evalCondition(cond, doc.schema, Seen(frame.facts))
                    = evalCondition(cond, doc.schema, frame.facts)
    <2> SUFFICES ASSUME NEW cond
                 PROVE  evalCondition(cond, doc.schema, Seen(frame.facts))
                            = evalCondition(cond, doc.schema, frame.facts)
      OBVIOUS
    <2>1. CASE cond.field \in DOMAIN doc.schema
      <3>1. cond.field \in Fields
        BY <2>1 DEF IsDSL, IsMap
      <3> DEFINE raw(facts) == IF cond.field \in DOMAIN facts THEN facts[cond.field] ELSE Nil
      <3>2. raw(Seen(frame.facts)) = raw(frame.facts)
        BY <3>1 DEF Seen
      <3> QED
        BY <3>2 DEF evalCondition, FieldTypes
    <2>2. CASE cond.field \notin DOMAIN doc.schema
      BY <2>2, Zenon DEF evalCondition
    <2> QED
      BY <2>1, <2>2
  <1>3. \A when : evalConditions(when, doc.schema, Seen(frame.facts))
                    = evalConditions(when, doc.schema, frame.facts)
    BY <1>2 DEF evalConditions
  <1>4. \A node : evalNode(node, doc.schema, Seen(frame.facts))
                    = evalNode(node, doc.schema, frame.facts)
    <2> SUFFICES ASSUME NEW node
                 PROVE  evalNode(node, doc.schema, Seen(frame.facts))
                          = evalNode(node, doc.schema, frame.facts)
      OBVIOUS
    <2> DEFINE verdict(facts) == [i \in DOMAIN node.rules |->
                                    evalConditions(node.rules[i].when, doc.schema, facts)]
    <2> DEFINE ending == IF node.strategy = "first_match" THEN {"true", "error", "panic"}
                                                          ELSE {"error", "panic"}
               stops(v) == {i \in DOMAIN node.rules : v[i] \in ending}
               matched(v) == IF stops(v) # {} THEN {Min(stops(v))}
                             ELSE {i \in DOMAIN node.rules : v[i] = "true"}
               Gets(v) == [verdict |-> IF stops(v) = {} THEN "true" ELSE v[Min(stops(v))],
                         out |-> IF matched(v) = {} THEN node.default
                                                    ELSE Outputs(node.rules, matched(v))]
    <2>1. verdict(Seen(frame.facts)) = verdict(frame.facts)
      BY <1>3
    <2>2. ASSUME NEW facts
          PROVE  evalNode(node, doc.schema, facts) = Gets(verdict(facts))
      BY DEF evalNode
    <2> HIDE DEF Gets, verdict
    <2> QED
      BY <2>1, <2>2
  <1> QED
    BY <1>1, <1>4 DEF evalAt

-----------------------------------------------------------------------------
(* Outputs put together *)

LEMMA PutEmpty ==
    ASSUME NEW m, IsFacts(m)
    PROVE  Put(m, Empty) = m /\ Put(Empty, m) = m
  BY DEF Put, Empty, IsFacts, IsMap

LEMMA PutPut ==
    ASSUME NEW a, NEW b, NEW c
    PROVE  Put(Put(a, b), c) = Put(a, Put(b, c))
  <1> DEFINE L == Put(Put(a, b), c)
             R == Put(a, Put(b, c))
             D == DOMAIN a \cup DOMAIN b \cup DOMAIN c
  <1>1. DOMAIN L = D /\ DOMAIN R = D
    BY DEF Put
  <1>2. ASSUME NEW k \in D
        PROVE  L[k] = R[k]
    BY DEF Put
  <1>3. L = [k \in DOMAIN L |-> L[k]] /\ R = [k \in DOMAIN R |-> R[k]]
    BY DEF Put
  <1> HIDE DEF L, R
  <1>4. L = R
    BY <1>1, <1>2, <1>3
  <1> QED
    BY <1>4 DEF L, R

LEMMA AfterAfter ==
    ASSUME NEW a, NEW b, NEW o
    PROVE  After(a, After(b, o)) = After(Put(a, b), o)
  BY PutPut DEF After, Outcome

LEMMA TogetherNone == \A branch : DOMAIN branch = {} => Together(branch) = Empty
  <1> SUFFICES ASSUME NEW branch, DOMAIN branch = {}
               PROVE  Together(branch) = Empty
    OBVIOUS
  <1>1. UNION {DOMAIN branch[i].out : i \in DOMAIN branch} = {}
    OBVIOUS
  <1> QED
    BY <1>1 DEF Together, Empty

\* The keys of branches, and the branches that have a key.
Keys(branch) == UNION {DOMAIN branch[i].out : i \in DOMAIN branch}

Having(branch, k) == {i \in DOMAIN branch : k \in DOMAIN branch[i].out}

LEMMA TogetherIs ==
    ASSUME NEW branch
    PROVE  /\ DOMAIN Together(branch) = Keys(branch)
           /\ Together(branch) = [k \in Keys(branch) |-> Together(branch)[k]]
           /\ \A k \in Keys(branch) : Together(branch)[k] = branch[Max(Having(branch, k))].out[k]
           /\ \A k : k \in Keys(branch) <=> Having(branch, k) # {}
  BY DEF Together, Keys, Having

\* first is the edge that is followed first.
IsFirst(first, edges) == first \in edges /\ \A i \in edges : first <= i

\* rest is branch without its first one.
IsRest(rest, branch, first) ==
    /\ IsFirst(first, DOMAIN branch)
    /\ DOMAIN rest = DOMAIN branch \ {first}
    /\ \A i \in DOMAIN rest : rest[i] = branch[i]

\* The first of the branches is overwritten by the others.
LEMMA TogetherFirst ==
    ASSUME NEW n \in Nat, NEW branch, DOMAIN branch \subseteq 1..n,
           NEW first, NEW rest, IsRest(rest, branch, first)
    PROVE  Together(branch) = Put(branch[first].out, Together(rest))
  <1> DEFINE L == Together(branch)
             R == Put(branch[first].out, Together(rest))
  <1>1. /\ DOMAIN rest = DOMAIN branch \ {first}
        /\ \A i \in DOMAIN branch \ {first} : rest[i] = branch[i]
        /\ first \in DOMAIN branch /\ \A i \in DOMAIN branch : first <= i
    BY DEF IsRest, IsFirst
  <1>2. Keys(branch) = DOMAIN branch[first].out \cup Keys(rest)
    BY <1>1 DEF Keys
  <1>3. ASSUME NEW k
        PROVE  Having(rest, k) = Having(branch, k) \ {first} /\ Having(branch, k) \subseteq DOMAIN branch
    BY <1>1 DEF Having
  <1>4. /\ DOMAIN R = Keys(branch)
        /\ R = [k \in DOMAIN R |-> R[k]]
        /\ \A k \in Keys(rest) : R[k] = Together(rest)[k]
        /\ \A k \in Keys(branch) \ Keys(rest) : R[k] = branch[first].out[k]
    BY <1>2, TogetherIs DEF Put
  <1>5. /\ L = [k \in Keys(branch) |-> L[k]]
        /\ \A k \in Keys(branch) : L[k] = branch[Max(Having(branch, k))].out[k]
    BY TogetherIs
  <1> HIDE DEF L, R
  <1>6. ASSUME NEW k \in Keys(branch)
        PROVE  L[k] = R[k]
    <2> DEFINE y == Max(Having(branch, k))
    <2>1. y \in Having(branch, k) /\ \A i \in Having(branch, k) : y >= i
      BY <1>3, TogetherIs, MaxIsGreatest
    <2>2. CASE k \in Keys(rest)
      <3> DEFINE x == Max(Having(rest, k))
      <3>1. x \in Having(rest, k) /\ \A i \in Having(rest, k) : x >= i
        BY <1>3, <2>2, TogetherIs, MaxIsGreatest
      <3> HIDE DEF x, y
      <3>2. x \in 1..n /\ y \in 1..n /\ x # first /\ first <= x
        BY <1>1, <1>3, <2>1, <3>1
      <3>3. y >= x /\ y # first
        BY <1>3, <2>1, <3>1, <3>2
      <3>4. x >= y
        BY <1>3, <2>1, <3>1, <3>3
      <3>5. x = y
        BY <3>2, <3>3, <3>4
      <3>6. R[k] = rest[x].out[k]
        BY <1>4, <2>2, TogetherIs DEF x
      <3>7. rest[x] = branch[x]
        BY <1>1, <1>3, <3>1
      <3> QED
        BY <1>5, <3>5, <3>6, <3>7 DEF y
    <2>3. CASE k \notin Keys(rest)
      <3>1. Having(rest, k) = {}
        BY <2>3, TogetherIs
      <3>2. y = first
        BY <1>3, <2>1, <3>1
      <3> HIDE DEF y
      <3> QED
        BY <1>4, <1>5, <2>3, <3>2 DEF y
    <2> QED
      BY <2>2, <2>3
  <1>7. L = R
    BY <1>4, <1>5, <1>6
  <1> QED
    BY <1>7 DEF L, R

-----------------------------------------------------------------------------
(* The recursion *)

\* One level of the recursion, from what the level below it has.
Level(n, below) == [place \in Places |-> IF n = 0 THEN {} ELSE Outcomes(below, place)]

\* f has the outcomes of places up to depth n.
Deepens(f, n) == f = [d \in 0..n |-> Level(d, f[d - 1])]

LEMMA DeepensExists == \A n \in Nat : \E f : Deepens(f, n)
  <1> DEFINE T == {n \in Nat : \E f : Deepens(f, n)}
  <1>1. 0 \in T
    <2> DEFINE f == [d \in 0..0 |-> Level(d, {})]
    <2>1. f = [d \in 0..0 |-> Level(d, f[d - 1])]
      BY DEF Level
    <2>2. Deepens(f, 0)
      BY <2>1, Zenon DEF Deepens
    <2> QED
      BY <2>2
  <1>2. ASSUME NEW n \in Nat, n \in T
        PROVE  n + 1 \in T
    <2> PICK f : Deepens(f, n)
      BY <1>2
    <2> DEFINE g == [d \in 0..(n + 1) |-> IF d = n + 1 THEN Level(d, f[n]) ELSE f[d]]
    <2>1. ASSUME NEW d \in 0..(n + 1)
          PROVE  g[d] = Level(d, g[d - 1])
      <3>1. CASE d = n + 1
        <4>1. d - 1 = n /\ n \in 0..(n + 1) /\ n # n + 1
          BY <3>1
        <4>2. g[d - 1] = f[n]
          BY <4>1
        <4> QED
          BY <3>1, <4>2
      <3>2. CASE d # n + 1
        <4>1. d \in 0..n /\ g[d] = f[d]
          BY <3>2
        <4>2. f[d] = Level(d, f[d - 1])
          BY <4>1 DEF Deepens
        <4>3. CASE d = 0
          BY <4>1, <4>2, <4>3 DEF Level
        <4>4. CASE d # 0
          <5>1. d - 1 \in 0..(n + 1) /\ d - 1 # n + 1
            BY <4>1, <4>4
          <5>2. g[d - 1] = f[d - 1]
            BY <5>1
          <5> QED
            BY <4>1, <4>2, <5>2
        <4> QED
          BY <4>3, <4>4
      <3> QED
        BY <3>1, <3>2
    <2>2. g = [d \in 0..(n + 1) |-> Level(d, g[d - 1])]
      BY <2>1
    <2>3. Deepens(g, n + 1)
      BY <2>2, Zenon DEF Deepens
    <2> QED
      BY <2>3
  <1> HIDE DEF T
  <1>3. \A n \in Nat : n \in T
    BY <1>1, <1>2, NatIn
  <1> QED
    BY <1>3 DEF T

\* Where two of them are defined they agree.
LEMMA DeepensAgree ==
    ASSUME NEW n \in Nat, NEW f, NEW g, Deepens(f, n), Deepens(g, n + 1)
    PROVE  f[n] = g[n]
  <1> DEFINE T == {i \in Nat : i \in 0..n => f[i] = g[i]}
  <1>1. \A i \in 0..n : f[i] = Level(i, f[i - 1])
    BY DEF Deepens
  <1>2. \A i \in 0..(n + 1) : g[i] = Level(i, g[i - 1])
    BY DEF Deepens
  <1>3. 0 \in T
    <2>1. f[0] = Level(0, f[0 - 1]) /\ g[0] = Level(0, g[0 - 1])
      BY <1>1, <1>2
    <2>2. \A below : Level(0, below) = [place \in Places |-> {}]
      BY DEF Level
    <2>3. f[0] = g[0]
      BY <2>1, <2>2, Zenon
    <2> QED
      BY <2>3
  <1>4. ASSUME NEW i \in Nat, i \in T
        PROVE  i + 1 \in T
    <2> SUFFICES ASSUME i + 1 \in 0..n
                 PROVE  f[i + 1] = g[i + 1]
      OBVIOUS
    <2>1. i \in 0..n /\ (i + 1) - 1 = i /\ i + 1 \in 0..(n + 1)
      OBVIOUS
    <2>2. f[i] = g[i]
      BY <1>4, <2>1
    <2>3. f[i + 1] = Level(i + 1, f[i]) /\ g[i + 1] = Level(i + 1, g[i])
      BY <1>1, <1>2, <2>1
    <2> QED
      BY <2>2, <2>3
  <1> HIDE DEF T
  <1>5. n \in T
    BY <1>3, <1>4, NatIn
  <1> QED
    BY <1>5 DEF T

\* There is the function that EvaluationReference defines.
LEMMA MeaningsAre == \A n \in Nat : Meanings[n] = Level(n, Meanings[n - 1])
  <1> DEFINE at(n) == CHOOSE f : Deepens(f, n)
             g == [n \in Nat |-> at(n)[n]]
  <1>1. \A n \in Nat : Deepens(at(n), n)
    BY DeepensExists
  <1> HIDE DEF at
  <1>2. ASSUME NEW n \in Nat
        PROVE  g[n] = Level(n, g[n - 1])
    <2>1. g[n] = Level(n, at(n)[n - 1])
      BY <1>1 DEF Deepens
    <2>2. CASE n = 0
      BY <2>1, <2>2 DEF Level
    <2>3. CASE n # 0
      <3>1. n - 1 \in Nat /\ (n - 1) + 1 = n
        BY <2>3
      <3>2. at(n - 1)[n - 1] = at(n)[n - 1]
        <4> DEFINE m == n - 1
        <4>1. m \in Nat /\ Deepens(at(m), m) /\ Deepens(at(n), m + 1)
          BY <1>1, <3>1
        <4> HIDE DEF m
        <4>2. at(m)[m] = at(n)[m]
          BY <4>1, DeepensAgree
        <4> QED
          BY <4>2 DEF m
      <3> QED
        BY <2>1, <3>1, <3>2
    <2> QED
      BY <2>2, <2>3
  <1> HIDE DEF g
  <1>3. g = [n \in Nat |-> [place \in Places |-> IF n = 0 THEN {} ELSE Outcomes(g[n - 1], place)]]
    <2>1. g = [n \in Nat |-> g[n]]
      BY DEF g
    <2> QED
      BY <1>2, <2>1 DEF Level
  <1>4. Meanings = [n \in Nat |-> [place \in Places |->
                       IF n = 0 THEN {} ELSE Outcomes(Meanings[n - 1], place)]]
    BY <1>3, Zenon DEF Meanings
  <1> QED
    BY <1>4, Zenon DEF Level

-----------------------------------------------------------------------------
(* Outcomes of branches *)

\* All branches succeed: branch[i] is what the one along edge i gives.
Succeed(meaning, edges, facts, out, branch) ==
    /\ branch = [i \in edges |-> branch[i]]
    /\ \A i \in edges : /\ branch[i] \in Gives(meaning, doc.edges[i], facts, out)
                        /\ branch[i].verdict = "true"

\* The branch along edge i can succeed.
CanSucceed(meaning, i, facts, out) ==
    \E o \in Gives(meaning, doc.edges[i], facts, out) : o.verdict = "true"

\* The branch along edge i fails with o, after those before it.
FailsAt(meaning, edges, facts, out, i, o) ==
    /\ i \in edges
    /\ o \in Gives(meaning, doc.edges[i], facts, out)
    /\ o.verdict # "true"
    /\ \A j \in edges : j < i => CanSucceed(meaning, j, facts, out)

LEMMA BranchesAre ==
    ASSUME NEW meaning, NEW edges, NEW facts, NEW out, NEW o
    PROVE  o \in Branches(meaning, edges, facts, out) <=>
              \/ \E branch : /\ Succeed(meaning, edges, facts, out, branch)
                             /\ o = Outcome("true", Together(branch))
              \/ \E i : FailsAt(meaning, edges, facts, out, i, o)
  <1> DEFINE From(i) == Gives(meaning, doc.edges[i], facts, out)
             Succeeding(i) == {p \in From(i) : p.verdict = "true"}
             Bs == {b \in [edges -> UNION {Succeeding(i) : i \in edges}] :
                       \A i \in edges : b[i] \in Succeeding(i)}
             Good == {Outcome("true", Together(branch)) : branch \in Bs}
             Bad == UNION {From(i) \ Succeeding(i) :
                      i \in {x \in edges : \A j \in edges : j < x => Succeeding(j) # {}}}
  <1>1. Branches(meaning, edges, facts, out) = Good \cup Bad
    BY DEF Branches
  <1>2. \A branch : branch \in Bs <=> Succeed(meaning, edges, facts, out, branch)
    BY DEF Succeed
  <1>3. o \in Bad <=> \E i : FailsAt(meaning, edges, facts, out, i, o)
    BY DEF FailsAt, CanSucceed
  <1> HIDE DEF Bs, Bad
  <1>4. o \in Good <=> \E branch : /\ Succeed(meaning, edges, facts, out, branch)
                                   /\ o = Outcome("true", Together(branch))
    BY <1>2
  <1> QED
    BY <1>1, <1>3, <1>4

LEMMA BroughtPlace ==
    ASSUME IsDSL(doc), NEW i \in DOMAIN doc.edges, NEW facts, IsFacts(facts),
           NEW out, IsFacts(out), NEW m \in remapEdge(doc.edges[i], out)
    PROVE  /\ IsFacts(Put(facts, m))
           /\ doc.edges[i].to \in STRING
           /\ Place(doc.edges[i].to, Put(facts, m)) \in Places
  <1>1. IsEdge(doc.edges[i]) /\ doc.edges[i].to \in STRING
    BY DocParts DEF IsEdge
  <1>2. IsFacts(Put(facts, m))
    BY <1>1, RemapFacts, PutFacts
  <1> QED
    BY <1>1, <1>2, PlaceOK

-----------------------------------------------------------------------------
(* Deeper is more *)

\* more has every outcome that less has.
Within(less, more) == \A place \in Places : less[place] \subseteq more[place]

LEMMA GivesWithin ==
    ASSUME IsDSL(doc), NEW less, NEW more, Within(less, more), NEW i \in DOMAIN doc.edges,
           NEW facts, IsFacts(facts), NEW out, IsFacts(out)
    PROVE  Gives(less, doc.edges[i], facts, out) \subseteq Gives(more, doc.edges[i], facts, out)
  <1>1. \A m \in remapEdge(doc.edges[i], out) : 
           less[Place(doc.edges[i].to, Put(facts, m))] \subseteq more[Place(doc.edges[i].to, Put(facts, m))]
    BY BroughtPlace DEF Within
  <1> QED
    BY <1>1 DEF Gives

LEMMA BranchesWithin ==
    ASSUME IsDSL(doc), NEW less, NEW more, Within(less, more), NEW edges \in SUBSET (DOMAIN doc.edges),
           NEW facts, IsFacts(facts), NEW out, IsFacts(out)
    PROVE  Branches(less, edges, facts, out) \subseteq Branches(more, edges, facts, out)
  <1>1. \A i \in edges : Gives(less, doc.edges[i], facts, out) \subseteq Gives(more, doc.edges[i], facts, out)
    BY GivesWithin
  <1>2. ASSUME NEW branch, Succeed(less, edges, facts, out, branch)
        PROVE  Succeed(more, edges, facts, out, branch)
    BY <1>1, <1>2 DEF Succeed
  <1>3. ASSUME NEW i, NEW o, FailsAt(less, edges, facts, out, i, o)
        PROVE  FailsAt(more, edges, facts, out, i, o)
    BY <1>1, <1>3 DEF FailsAt, CanSucceed
  <1> QED
    BY <1>2, <1>3, BranchesAre

LEMMA OutcomesWithin ==
    ASSUME IsDSL(doc), NEW less, NEW more, Within(less, more), NEW place \in Places
    PROVE  Outcomes(less, place) \subseteq Outcomes(more, place)
  <1>1. ASSUME NEW own \in evalAt(place)
        PROVE  Branches(less, edgesFrom(place.node), Put(place.facts, own.out), own.out)
                 \subseteq Branches(more, edgesFrom(place.node), Put(place.facts, own.out), own.out)
    <2>1. IsFacts(own.out) /\ IsFacts(place.facts)
      BY EvalAtFacts DEF Places, IsFacts, IsMap
    <2>2. edgesFrom(place.node) \in SUBSET (DOMAIN doc.edges)
      BY DEF edgesFrom
    <2> QED
      BY <2>1, <2>2, PutFacts, BranchesWithin
  <1> QED
    BY <1>1 DEF Outcomes

LEMMA Deeper ==
    ASSUME IsDSL(doc), NEW n \in Nat
    PROVE  Within(Meanings[n], Meanings[n + 1])
  <1> DEFINE T == {d \in Nat : Within(Meanings[d], Meanings[d + 1])}
  <1>1. 0 \in T
    BY MeaningsAre DEF Within, Level
  <1>2. ASSUME NEW d \in Nat, d \in T
        PROVE  d + 1 \in T
    <2>1. Within(Meanings[d], Meanings[d + 1])
      BY <1>2
    <2>2. /\ Meanings[d + 1] = Level(d + 1, Meanings[d])
          /\ Meanings[(d + 1) + 1] = Level((d + 1) + 1, Meanings[d + 1])
      <3>1. (d + 1) - 1 = d /\ ((d + 1) + 1) - 1 = d + 1 /\ d + 1 \in Nat /\ (d + 1) + 1 \in Nat
        OBVIOUS
      <3> QED
        BY <3>1, MeaningsAre
    <2>3. Within(Meanings[d + 1], Meanings[(d + 1) + 1])
      BY <2>1, <2>2, OutcomesWithin DEF Within, Level
    <2> QED
      BY <2>3
  <1> HIDE DEF T
  <1>3. n \in T
    BY <1>1, <1>2, NatIn
  <1> QED
    BY <1>3 DEF T

LEMMA AnyDeeper ==
    ASSUME IsDSL(doc), NEW n \in Nat, NEW k \in Nat
    PROVE  Within(Meanings[n], Meanings[n + k])
  <1> DEFINE T == {d \in Nat : Within(Meanings[n], Meanings[n + d])}
  <1>1. 0 \in T
    BY DEF Within
  <1>2. ASSUME NEW d \in Nat, d \in T
        PROVE  d + 1 \in T
    <2>1. n + d \in Nat /\ (n + d) + 1 = n + (d + 1)
      OBVIOUS
    <2>2. Within(Meanings[n + d], Meanings[(n + d) + 1])
      BY <2>1, Deeper
    <2> QED
      BY <1>2, <2>1, <2>2 DEF Within
  <1> HIDE DEF T
  <1>3. k \in T
    BY <1>1, <1>2, NatIn
  <1> QED
    BY <1>3 DEF T

-----------------------------------------------------------------------------
(* Outcomes at any depth *)

\* Evaluating from the place gives o, at some depth of the recursion; and so do
\* the edges that are still to be followed.
Means(place, o) == \E n \in Nat : o \in Meanings[n][place]

Follows(edges, facts, out, o) == \E n \in Nat : o \in Branches(Meanings[n], edges, facts, out)

LEMMA MeansIs ==
    ASSUME NEW place \in Places, NEW o
    PROVE  Means(place, o) <=> \E n \in Nat : o \in Outcomes(Meanings[n], place)
  <1>1. \A n \in Nat : Meanings[n][place] = IF n = 0 THEN {} ELSE Outcomes(Meanings[n - 1], place)
    BY MeaningsAre DEF Level
  <1>2. \A n \in Nat : n + 1 \in Nat /\ n + 1 # 0 /\ (n + 1) - 1 = n
    OBVIOUS
  <1>3. \A n \in Nat : n # 0 => n - 1 \in Nat
    OBVIOUS
  <1> QED
    BY <1>1, <1>2, <1>3 DEF Means

\* A success is an output that is added to and added as it is.
LEMMA MeansForm ==
    ASSUME IsDSL(doc), NEW place \in Places, NEW o, Means(place, o)
    PROVE  After(Empty, o) = o /\ (o.verdict = "true" => After(o.out, Outcome("true", Empty)) = o)
  <1>1. PICK n \in Nat : o \in Outcomes(Meanings[n], place)
    BY MeansIs
  <1>2. PICK own \in evalAt(place) :
           \/ own.verdict = "true" /\ \E p : o = After(own.out, p)
           \/ own.verdict # "true" /\ o = Outcome(own.verdict, Empty)
    BY <1>1 DEF Outcomes
  <1>3. IsFacts(own.out) /\ Put(Empty, own.out) = own.out
    BY EvalAtFacts, PutEmpty
  <1>4. CASE own.verdict = "true"
    <2>1. PICK p : o = After(own.out, p)
      BY <1>2, <1>4
    <2>2. After(Empty, o) = o
      BY <1>3, <2>1, AfterAfter
    <2>3. ASSUME o.verdict = "true"
          PROVE  After(o.out, Outcome("true", Empty)) = o
      <3>1. \E r : o = Outcome("true", Put(own.out, r))
        BY <2>1, <2>3 DEF After
      <3>2. PICK r : o = Outcome("true", Put(own.out, r))
        BY <3>1
      <3>3. Put(Put(own.out, r), Empty) = Put(own.out, r)
        BY DEF Put, Empty
      <3> QED
        BY <3>2, <3>3 DEF After, Outcome
    <2> QED
      BY <2>2, <2>3
  <1>5. CASE own.verdict # "true"
    BY <1>2, <1>5 DEF After, Outcome
  <1> QED
    BY <1>4, <1>5

\* No more edges, nothing more is put out.
LEMMA NoneFollow ==
    ASSUME NEW facts, NEW out
    PROVE  Follows({}, facts, out, Outcome("true", Empty))
  <1> DEFINE none == [i \in {} |-> Empty]
  <1>1. Succeed(Meanings[0], {}, facts, out, none) /\ Together(none) = Empty
    BY TogetherNone DEF Succeed
  <1>2. Outcome("true", Empty) \in Branches(Meanings[0], {}, facts, out)
    BY <1>1, BranchesAre
  <1> QED
    BY <1>2 DEF Follows

\* The branch along first has the outcome b, for m of what the edge may bring.
Brings(first, facts, out, b) ==
    \E m \in remapEdge(doc.edges[first], out) :
        Means(Place(doc.edges[first].to, Put(facts, m)), b)

LEMMA BringsGives ==
    ASSUME IsDSL(doc), NEW i \in DOMAIN doc.edges, NEW facts, IsFacts(facts),
           NEW out, IsFacts(out), NEW b, Brings(i, facts, out, b)
    PROVE  \E n \in Nat : \A k \in Nat : b \in Gives(Meanings[n + k], doc.edges[i], facts, out)
  <1>1. PICK m \in remapEdge(doc.edges[i], out) :
           Means(Place(doc.edges[i].to, Put(facts, m)), b)
    BY DEF Brings
  <1> DEFINE place == Place(doc.edges[i].to, Put(facts, m))
  <1>2. PICK n \in Nat : b \in Meanings[n][place]
    BY <1>1 DEF Means
  <1>3. place \in Places
    BY BroughtPlace
  <1>4. \A k \in Nat : b \in Meanings[n + k][place]
    BY <1>2, <1>3, AnyDeeper DEF Within
  <1> QED
    BY <1>4 DEF Gives

\* A branch that fails fails the whole.
LEMMA FirstFails ==
    ASSUME IsDSL(doc), NEW edges, edges \subseteq DOMAIN doc.edges, NEW first, IsFirst(first, edges),
           NEW facts, IsFacts(facts), NEW out, IsFacts(out),
           NEW b, Brings(first, facts, out, b), b.verdict # "true"
    PROVE  Follows(edges, facts, out, b)
  <1>1. PICK n \in Nat : b \in Gives(Meanings[n + 0], doc.edges[first], facts, out)
    BY BringsGives DEF IsFirst
  <1>2. \A j \in edges : ~(j < first)
    BY DocParts DEF IsFirst
  <1>3. FailsAt(Meanings[n], edges, facts, out, first, b)
    BY <1>1, <1>2 DEF FailsAt, IsFirst
  <1> QED
    BY <1>3, BranchesAre DEF Follows

\* What the other branches put out is put into what the first one does.
LEMMA FirstSucceeds ==
    ASSUME IsDSL(doc), NEW edges, edges \subseteq DOMAIN doc.edges, NEW first, IsFirst(first, edges),
           NEW facts, IsFacts(facts), NEW out, IsFacts(out),
           NEW b, Brings(first, facts, out, b), b.verdict = "true",
           NEW o, Follows(edges \ {first}, facts, out, o)
    PROVE  Follows(edges, facts, out, After(b.out, o))
  <1> DEFINE others == edges \ {first}
  <1>1. PICK n \in Nat : \A k \in Nat : b \in Gives(Meanings[n + k], doc.edges[first], facts, out)
    BY BringsGives DEF IsFirst
  <1>2. PICK k \in Nat : o \in Branches(Meanings[k], others, facts, out)
    BY DEF Follows
  <1> DEFINE meaning == Meanings[n + k]
  <1>3. b \in Gives(meaning, doc.edges[first], facts, out)
    BY <1>1
  <1>4. o \in Branches(meaning, others, facts, out)
    <2>1. k + n = n + k
      OBVIOUS
    <2>2. Within(Meanings[k], meaning)
      BY <2>1, AnyDeeper
    <2> QED
      BY <1>2, <2>2, BranchesWithin
  <1>5. n + k \in Nat
    OBVIOUS
  <1> HIDE DEF meaning
  <1>6. CASE \E branch : Succeed(meaning, others, facts, out, branch) /\ o = Outcome("true", Together(branch))
    <2> PICK branch : Succeed(meaning, others, facts, out, branch) /\ o = Outcome("true", Together(branch))
      BY <1>6
    <2> DEFINE whole == [i \in edges |-> IF i = first THEN b ELSE branch[i]]
    <2>1. whole[first] = b /\ DOMAIN whole \subseteq 1..Len(doc.edges)
      BY DEF IsFirst, IsDSL
    <2>2. IsRest(branch, whole, first)
      BY DEF Succeed, IsRest
    <2>3. Succeed(meaning, edges, facts, out, whole)
      BY <1>3 DEF Succeed
    <2> HIDE DEF whole
    <2>4. Together(whole) = Put(b.out, Together(branch))
      <3>1. Len(doc.edges) \in Nat
        BY DEF IsDSL
      <3>2. Together(whole) = Put(whole[first].out, Together(branch))
        BY <2>1, <2>2, <3>1, TogetherFirst
      <3> QED
        BY <2>1, <3>2
    <2>5. After(b.out, o) = Outcome("true", Together(whole))
      BY <2>4 DEF After, Outcome
    <2>6. After(b.out, o) \in Branches(meaning, edges, facts, out)
      BY <2>3, <2>5, BranchesAre
    <2> QED
      BY <1>5, <2>6 DEF Follows, meaning
  <1>7. CASE \E i : FailsAt(meaning, others, facts, out, i, o)
    <2> PICK i : FailsAt(meaning, others, facts, out, i, o)
      BY <1>7
    <2>1. CanSucceed(meaning, first, facts, out)
      BY <1>3 DEF CanSucceed
    <2>2. FailsAt(meaning, edges, facts, out, i, o)
      BY <2>1 DEF FailsAt
    <2>3. After(b.out, o) = o
      BY DEF FailsAt, After
    <2>4. o \in Branches(meaning, edges, facts, out)
      BY <2>2, BranchesAre
    <2> QED
      BY <1>5, <2>3, <2>4 DEF Follows, meaning
  <1> QED
    BY <1>4, <1>6, <1>7, BranchesAre

\* Branches see of the facts what nodes do.
LEMMA FollowsSeen ==
    ASSUME NEW edges, NEW f, NEW g, Seen(f) = Seen(g), NEW out, NEW o, Follows(edges, f, out, o)
    PROVE  Follows(edges, g, out, o)
  <1>1. \A id, m : Place(id, Put(f, m)) = Place(id, Put(g, m))
    BY SeenPut DEF Place
  <1>2. \A meaning, edge : Gives(meaning, edge, f, out) = Gives(meaning, edge, g, out)
    BY <1>1 DEF Gives
  <1>3. \A meaning, branch : Succeed(meaning, edges, f, out, branch) => Succeed(meaning, edges, g, out, branch)
    BY <1>2 DEF Succeed
  <1>4. \A meaning, i : FailsAt(meaning, edges, f, out, i, o) => FailsAt(meaning, edges, g, out, i, o)
    BY <1>2 DEF FailsAt, CanSucceed
  <1> QED
    BY <1>3, <1>4, BranchesAre DEF Follows

\* A node that is evaluated, and what follows, is what its place means.
LEMMA NodeSucceeds ==
    ASSUME IsDSL(doc), NEW id \in STRING, NEW facts, IsFacts(facts),
           NEW own \in evalAt(Place(id, facts)), own.verdict = "true",
           NEW o, Follows(edgesFrom(id), Put(facts, own.out), own.out, o)
    PROVE  Means(Place(id, facts), After(own.out, o))
  <1> DEFINE place == Place(id, facts)
  <1>1. place \in Places /\ place.node = id /\ place.facts = Seen(facts)
    BY PlaceOK DEF Place
  <1>2. Seen(Put(facts, own.out)) = Seen(Put(place.facts, own.out))
    BY <1>1, SeenPut, SeenTwice
  <1>3. Follows(edgesFrom(id), Put(place.facts, own.out), own.out, o)
    BY <1>2, FollowsSeen
  <1>4. PICK n \in Nat : o \in Branches(Meanings[n], edgesFrom(id), Put(place.facts, own.out), own.out)
    BY <1>3 DEF Follows
  <1> HIDE DEF place
  <1>5. After(own.out, o) \in Outcomes(Meanings[n], place)
    BY <1>1, <1>4 DEF Outcomes, place
  <1> QED
    BY <1>1, <1>5, MeansIs DEF place

LEMMA NodeFails ==
    ASSUME IsDSL(doc), NEW id \in STRING, NEW facts, IsFacts(facts),
           NEW own \in evalAt(Place(id, facts)), own.verdict # "true"
    PROVE  Means(Place(id, facts), Outcome(own.verdict, Empty))
  <1> DEFINE place == Place(id, facts)
  <1>1. place \in Places
    BY PlaceOK
  <1>2. Outcome(own.verdict, Empty) \in Outcomes(Meanings[0], place)
    BY DEF Outcomes
  <1> QED
    BY <1>1, <1>2, MeansIs

-----------------------------------------------------------------------------
(* What the frames of a walk return *)

\* What the call of a frame can still return.
Yields(f, o) ==
    \E p : /\ o = After(f.output, p)
           /\ f.phase = "node" => Means(Place(f.node, f.facts), p)
           /\ f.phase = "edges" => Follows(f.edges, f.facts, f.out, p)

\* What it can once a branch that it waits for has the outcome b.
Resumes(f, b, o) ==
    /\ b.verdict # "true" => o = b
    /\ b.verdict = "true" => \E p : /\ o = After(Put(f.output, b.out), p)
                                    /\ Follows(f.edges, f.facts, f.out, p)

\* origin[j] is where the call of frame j began: what it returns is what the
\* place means, if the branch that it waits for does.
Returns(frames, origin) ==
    /\ origin \in [1..Len(frames) -> Places]
    /\ origin[Len(frames)] = Place(doc.entry, input)
    /\ \A o : Yields(frames[1], o) => Means(origin[1], o)
    /\ \A j \in 2..Len(frames) :
          /\ frames[j].phase = "edges"
          /\ \A b, o : Means(origin[j - 1], b) /\ Resumes(frames[j], b, o) => Means(origin[j], o)

\* The calls under way return what the document means, and so has an evaluation
\* that ended.
MeaningInv ==
    /\ status = "running" => \E origin : Returns(stack, origin)
    /\ status \in {"done", "error", "panic"} =>
          Means(Place(doc.entry, input), Outcome(IF status = "done" THEN "true" ELSE status, result))

LEMMA SameOutcomes ==
    ASSUME UNCHANGED doc, NEW meaning, NEW place
    PROVE  Outcomes(meaning, place)' = Outcomes(meaning, place)
  <1>1. \A m, edges, facts, out : Branches(m, edges, facts, out)' = Branches(m, edges, facts, out)
    BY DEF Branches
  <1>2. evalAt(place)' = evalAt(place) /\ edgesFrom(place.node)' = edgesFrom(place.node)
    BY DEF evalAt, nodeByID, edgesFrom
  <1> QED
    BY <1>1, <1>2 DEF Outcomes

LEMMA SameMeanings ==
    ASSUME UNCHANGED doc
    PROVE  Meanings' = Meanings
  BY SameOutcomes DEF Meanings

LEMMA SameFollows ==
    ASSUME UNCHANGED doc, NEW edges, NEW facts, NEW out, NEW o
    PROVE  Follows(edges, facts, out, o)' <=> Follows(edges, facts, out, o)
  <1>1. \A m : Branches(m, edges, facts, out)' = Branches(m, edges, facts, out)
    BY DEF Branches
  <1> QED
    BY <1>1, SameMeanings DEF Follows

\* All of this is about the document.
LEMMA SameReturns ==
    ASSUME UNCHANGED <<doc, input>>, NEW frames, NEW origin, Returns(frames, origin)
    PROVE  Returns(frames, origin)'
  <1>1. \A place, o : Means(place, o)' <=> Means(place, o)
    BY SameMeanings DEF Means
  <1>2. \A edges, facts, out, o : Follows(edges, facts, out, o)' <=> Follows(edges, facts, out, o)
    BY SameFollows
  <1>3. \A f, o : Yields(f, o)' <=> Yields(f, o)
    BY <1>1, <1>2 DEF Yields
  <1>4. \A f, b, o : Resumes(f, b, o)' <=> Resumes(f, b, o)
    BY <1>2 DEF Resumes
  <1> QED
    BY <1>1, <1>3, <1>4 DEF Returns

LEMMA HeadChanges ==
    ASSUME NEW S, NEW s \in Seq(S), s # <<>>, NEW a, NEW t, t = <<a>> \o Tail(s)
    PROVE  Len(t) = Len(s) /\ t[1] = a /\ \A j \in 2..Len(s) : t[j] = s[j]
  OBVIOUS

LEMMA HeadPushed ==
    ASSUME NEW S, NEW s \in Seq(S), s # <<>>, NEW a, NEW b, NEW t, t = <<a, b>> \o Tail(s)
    PROVE  Len(t) = Len(s) + 1 /\ t[1] = a /\ t[2] = b /\ \A j \in 3..(Len(s) + 1) : t[j] = s[j - 1]
  OBVIOUS

LEMMA TailIs ==
    ASSUME NEW S, NEW s \in Seq(S), s # <<>>
    PROVE  /\ Tail(s) \in Seq(S)
           /\ Len(Tail(s)) = Len(s) - 1
           /\ \A j \in 1..(Len(s) - 1) : Tail(s)[j] = s[j + 1]
  OBVIOUS

LEMMA ConsIs ==
    ASSUME NEW S, NEW u \in Seq(S), NEW c, NEW t, t = <<c>> \o u
    PROVE  Len(t) = Len(u) + 1 /\ t[1] = c /\ \A j \in 2..(Len(u) + 1) : t[j] = u[j - 1]
  OBVIOUS

LEMMA HeadDropped ==
    ASSUME NEW S, NEW s \in Seq(S), s # <<>>, Len(s) # 1, NEW c, NEW t, t = <<c>> \o Tail(Tail(s))
    PROVE  /\ Len(s) - 1 \in Nat \ {0}
           /\ Len(t) = Len(s) - 1 /\ t[1] = c /\ \A j \in 2..(Len(s) - 1) : t[j] = s[j + 1]
  <1> PICK n : n = Len(s)
    OBVIOUS
  <1> PICK v : v = Tail(s)
    OBVIOUS
  <1> PICK u : u = Tail(v)
    OBVIOUS
  <1>1. n \in Nat \ {0} /\ n # 1
    <2>1. Len(s) \in Nat \ {0}
      BY EmptySeq, Zenon
    <2>2. n \in Nat \ {0}
      BY <2>1, Zenon
    <2>3. n # 1
      BY Zenon
    <2> QED
      BY <2>2, <2>3
  <1>2. v \in Seq(S) /\ Len(v) = n - 1 /\ \A j \in 1..(n - 1) : v[j] = s[j + 1]
    BY TailIs
  <1>3. v # <<>>
    <2>1. n - 1 # 0
      BY <1>1
    <2>2. Len(v) # 0
      BY <1>2, <2>1, Zenon
    <2> QED
      BY <1>2, <2>2, EmptySeq, Zenon
  <1>4. u \in Seq(S) /\ Len(u) = n - 2 /\ \A j \in 1..(n - 2) : u[j] = v[j + 1]
    <2>1. u \in Seq(S) /\ Len(u) = Len(v) - 1 /\ \A j \in 1..(Len(v) - 1) : u[j] = v[j + 1]
      BY <1>2, <1>3, TailIs
    <2> QED
      BY <1>1, <1>2, <2>1
  <1>5. Len(t) = n - 1 /\ t[1] = c /\ \A j \in 2..(n - 1) : t[j] = u[j - 1]
    <2>1. Len(t) = Len(u) + 1 /\ t[1] = c /\ \A j \in 2..(Len(u) + 1) : t[j] = u[j - 1]
      BY <1>4, ConsIs
    <2> QED
      BY <1>1, <1>4, <2>1
  <1>6. ASSUME NEW j \in 2..(n - 1)
        PROVE  t[j] = s[j + 1]
    <2>1. j - 1 \in 1..(n - 2) /\ (j - 1) + 1 = j /\ j \in 1..(n - 1)
      BY <1>1
    <2>2. u[j - 1] = v[j] /\ v[j] = s[j + 1]
      BY <1>2, <1>4, <2>1
    <2> QED
      BY <1>5, <2>2
  <1>7. \A j \in 2..(n - 1) : t[j] = s[j + 1]
    BY <1>6
  <1>8. n - 1 \in Nat \ {0}
    BY <1>1
  <1> QED
    BY <1>5, <1>7, <1>8

\* A frame yields what it can yield after a visit of its node.
LEMMA OnwardsYields ==
    ASSUME IsDSL(doc), NEW frame, IsFrame(frame), frame.phase = "node",
           NEW e \in evalAt(frame), e.verdict = "true", NEW next \in Onwards(frame, e.out),
           NEW o, Yields(next, o)
    PROVE  Yields(frame, o)
  <1> DEFINE facts == Put(frame.facts, e.out)
             output == Put(frame.output, e.out)
             edges == edgesFrom(frame.node)
             first == Min(edges)
  <1>1. /\ frame.node \in STRING /\ IsFacts(frame.facts) /\ IsFacts(frame.output)
        /\ IsFacts(e.out) /\ IsFacts(facts)
    BY EvalAtFacts, PutFacts DEF IsFrame
  <1>2. edges \subseteq DOMAIN doc.edges
    BY DEF edgesFrom
  <1>3. ASSUME NEW p, Follows(edges, facts, e.out, p), o = After(output, p)
        PROVE  Yields(frame, o)
    <2>1. Means(Place(frame.node, frame.facts), After(e.out, p))
      BY <1>1, <1>3, SeenEnough, NodeSucceeds
    <2>2. o = After(frame.output, After(e.out, p))
      BY <1>3, AfterAfter
    <2> QED
      BY <2>1, <2>2 DEF Yields
  <1> HIDE DEF facts, output, edges
  <1>4. CASE \E i \in edges : edges = {i}
    <2>1. IsFirst(first, edges) /\ edges \ {first} = {} /\ first \in DOMAIN doc.edges
      BY <1>2, <1>4, DocParts, MinIsLeast DEF IsFirst
    <2> HIDE DEF first
    <2>2. PICK m \in remapEdge(doc.edges[first], e.out) :
             next = [Enter(doc.edges[first].to, Put(facts, m)) EXCEPT !.output = output]
      BY <1>4 DEF Onwards, facts, output, edges, first
    <2> DEFINE place == Place(doc.edges[first].to, Put(facts, m))
    <2>3. PICK p : Means(place, p) /\ o = After(output, p)
      BY <2>2 DEF Yields, Enter
    <2>4. place \in Places
      BY <1>1, <2>1, BroughtPlace
    <2>5. Brings(first, facts, e.out, p)
      BY <2>3 DEF Brings
    <2>6. Follows(edges, facts, e.out, p)
      <3>1. CASE p.verdict = "true"
        <4>1. Follows(edges \ {first}, facts, e.out, Outcome("true", Empty))
          BY <2>1, NoneFollow
        <4>2. Follows(edges, facts, e.out, After(p.out, Outcome("true", Empty)))
          BY <1>1, <1>2, <2>1, <2>5, <3>1, <4>1, FirstSucceeds
        <4> QED
          BY <2>3, <2>4, <3>1, <4>2, MeansForm
      <3>2. CASE p.verdict # "true"
        BY <1>1, <1>2, <2>1, <2>5, <3>2, FirstFails
      <3> QED
        BY <3>1, <3>2
    <2> QED
      BY <1>3, <2>3, <2>6
  <1>5. CASE ~\E i \in edges : edges = {i}
    <2>1. next = [frame EXCEPT !.phase = "edges", !.facts = facts, !.output = output,
                               !.out = e.out, !.edges = edges]
      BY <1>5 DEF Onwards, facts, output, edges
    <2>2. next.phase = "edges" /\ next.output = output /\ next.facts = facts /\ next.out = e.out
            /\ next.edges = edges
      BY <2>1 DEF IsFrame
    <2> QED
      BY <1>3, <2>2 DEF Yields
  <1> QED
    BY <1>4, <1>5

LEMMA StackParts ==
    ASSUME EvaluationTypeOK, status = "running"
    PROVE  /\ IsDSL(doc) /\ IsFacts(input) /\ stack # <<>>
           /\ stack \in Seq(Range(stack)) /\ \A f \in Range(stack) : IsFrame(f)
           /\ Len(stack) \in Nat \ {0}
           /\ Head(stack) = stack[1] /\ IsFrame(stack[1])
  <1>1. IsDSL(doc) /\ IsFacts(input) /\ FramesOK /\ stack # <<>>
    BY TypeParts DEF RestOK
  <1>2. Len(stack) \in Nat \ {0}
    BY <1>1, EmptySeq, Zenon DEF FramesOK
  <1>3. Head(stack) = stack[1]
    BY <1>1 DEF FramesOK
  <1> QED
    BY <1>1, <1>2, <1>3, HeadFrame DEF FramesOK

-----------------------------------------------------------------------------
(* The steps of a walk *)

LEMMA RunningMeans ==
    ASSUME UNCHANGED <<doc, input>>, status' = "running", NEW frames, frames = stack',
           NEW origin, Returns(frames, origin)
    PROVE  MeaningInv'
  <1>1. Returns(frames, origin)'
    BY SameReturns
  <1>2. Returns(stack, origin)'
    BY <1>1 DEF Returns
  <1> QED
    BY <1>2 DEF MeaningInv

LEMMA EndedMeans ==
    ASSUME UNCHANGED <<doc, input>>, NEW verdict \in {"true", "error", "panic"}, NEW output,
           status' = (IF verdict = "true" THEN "done" ELSE verdict), result' = output,
           Means(Place(doc.entry, input), Outcome(verdict, output))
    PROVE  MeaningInv'
  <1>1. \A place, o : Means(place, o)' <=> Means(place, o)
    BY SameMeanings DEF Means
  <1> QED
    BY <1>1 DEF MeaningInv

LEMMA LoadMeans ==
    ASSUME EvaluationTypeOK, Load
    PROVE  MeaningInv'
  <1>1. IsDSL(doc) /\ IsFacts(input) /\ UNCHANGED <<doc, input>>
    BY DEF EvaluationTypeOK, Load
  <1>2. CASE Validate(doc)
    <2> DEFINE place == Place(doc.entry, input)
               origin == [j \in 1..1 |-> place]
    <2> PICK frames : frames = <<Enter(doc.entry, input)>>
      OBVIOUS
    <2>1. status' = "running" /\ frames = stack'
      BY <1>2 DEF Load
    <2>2. place \in Places
      BY <1>1, DocParts, PlaceOK
    <2>3. frames[1] = Enter(doc.entry, input) /\ Len(frames) = 1
      OBVIOUS
    <2>4. ASSUME NEW o, Yields(frames[1], o)
          PROVE  Means(place, o)
      BY <1>1, <2>2, <2>3, <2>4, MeansForm DEF Yields, Enter
    <2>5. Returns(frames, origin)
      BY <2>2, <2>3, <2>4 DEF Returns
    <2> QED
      BY <1>1, <2>1, <2>5, RunningMeans
  <1>3. CASE ~Validate(doc)
    BY <1>3 DEF Load, End, MeaningInv
  <1> QED
    BY <1>2, <1>3

\* What a walk fails with fails all the calls.
LEMMA AllFail ==
    ASSUME NEW origin, Returns(stack, origin), Len(stack) \in Nat \ {0},
           NEW o, o.verdict # "true", Means(origin[1], o)
    PROVE  Means(Place(doc.entry, input), o)
  <1> DEFINE T == {j \in Nat : j + 1 \in 1..Len(stack) => Means(origin[j + 1], o)}
  <1>1. 0 \in T
    OBVIOUS
  <1>2. ASSUME NEW j \in Nat, j \in T
        PROVE  j + 1 \in T
    <2> SUFFICES ASSUME (j + 1) + 1 \in 1..Len(stack)
                 PROVE  Means(origin[(j + 1) + 1], o)
      OBVIOUS
    <2> DEFINE k == (j + 1) + 1
    <2>1. k \in 2..Len(stack) /\ k - 1 = j + 1 /\ j + 1 \in 1..Len(stack)
      OBVIOUS
    <2>2. Means(origin[k - 1], o)
      BY <1>2, <2>1
    <2>3. Resumes(stack[k], o, o)
      BY DEF Resumes
    <2> HIDE DEF k
    <2>4. Means(origin[k], o)
      BY <2>1, <2>2, <2>3 DEF Returns
    <2> QED
      BY <2>4 DEF k
  <1> HIDE DEF T
  <1>3. \A j \in Nat : j \in T
    BY <1>1, <1>2, NatIn
  <1>4. Len(stack) - 1 \in Nat /\ (Len(stack) - 1) + 1 = Len(stack) /\ Len(stack) \in 1..Len(stack)
    OBVIOUS
  <1>5. Means(origin[Len(stack)], o)
    BY <1>3, <1>4 DEF T
  <1> QED
    BY <1>5 DEF Returns

LEMMA VisitMeans ==
    ASSUME EvaluationTypeOK, MeaningInv, Visit
    PROVE  MeaningInv'
  <1> DEFINE frame == stack[1]
  <1>0. UNCHANGED <<doc, input>> /\ status = "running" /\ Head(stack).phase = "node"
    BY DEF Visit
  <1>1. /\ IsDSL(doc) /\ stack # <<>> /\ stack \in Seq(Range(stack))
        /\ Len(stack) \in Nat \ {0}
        /\ Head(stack) = frame /\ IsFrame(frame)
    BY <1>0, StackParts
  <1>2. PICK origin : Returns(stack, origin)
    BY <1>0 DEF MeaningInv
  <1>3. PICK e \in evalAt(frame) :
           \/ /\ e.verdict = "true"
              /\ \E next \in Onwards(frame, e.out) : stack' = <<next>> \o Tail(stack)
              /\ UNCHANGED <<status, result>>
           \/ e.verdict # "true" /\ End(e.verdict, Empty)
    BY <1>1 DEF Visit
  <1> HIDE DEF frame
  <1>4. CASE e.verdict = "true"
    <2>1. PICK next \in Onwards(frame, e.out) : stack' = <<next>> \o Tail(stack)
      BY <1>3, <1>4
    <2>2. \A o : Yields(next, o) => Yields(frame, o)
      BY <1>0, <1>1, <1>4, OnwardsYields
    <2> PICK frames : frames = <<next>> \o Tail(stack)
      OBVIOUS
    <2>3. Len(frames) = Len(stack) /\ frames[1] = next /\ \A j \in 2..Len(stack) : frames[j] = stack[j]
      BY <1>1, HeadChanges
    <2>4. Returns(frames, origin)
      BY <1>2, <2>2, <2>3 DEF Returns, frame
    <2> QED
      BY <1>0, <1>3, <1>4, <2>1, <2>4, RunningMeans
  <1>5. CASE e.verdict # "true"
    <2> DEFINE o == Outcome(e.verdict, Empty)
    <2>1. frame.node \in STRING /\ IsFacts(frame.facts)
      BY <1>1 DEF IsFrame
    <2>2. Means(Place(frame.node, frame.facts), o)
      BY <1>1, <1>5, <2>1, SeenEnough, NodeFails
    <2>3. o.verdict # "true" /\ o = After(frame.output, o)
      BY <1>5 DEF Outcome, After
    <2>4. Yields(frame, o)
      BY <1>0, <1>1, <2>2, <2>3 DEF Yields
    <2>5. Means(origin[1], o)
      BY <1>2, <2>4 DEF Returns, frame
    <2>6. Means(Place(doc.entry, input), o)
      BY <1>1, <1>2, <2>3, <2>5, AllFail
    <2>7. e.verdict \in {"true", "error", "panic"}
      BY <1>1, EvalAtVerdict
    <2>8. status' = e.verdict /\ result' = Empty
      BY <1>3, <1>5 DEF End
    <2> QED
      BY <1>0, <1>5, <2>6, <2>7, <2>8, EndedMeans
  <1> QED
    BY <1>4, <1>5

LEMMA BranchMeans ==
    ASSUME EvaluationTypeOK, MeaningInv, Branch
    PROVE  MeaningInv'
  <1> DEFINE frame == stack[1]
             first == Min(frame.edges)
             edge == doc.edges[first]
             rest == [frame EXCEPT !.edges = @ \ {first}]
  <1>0. UNCHANGED <<doc, input, status>> /\ status = "running" /\ Head(stack).phase = "edges"
    BY DEF Branch
  <1>1. /\ IsDSL(doc) /\ stack # <<>> /\ stack \in Seq(Range(stack))
        /\ Len(stack) \in Nat \ {0}
        /\ Head(stack) = frame /\ IsFrame(frame)
    BY <1>0, StackParts
  <1>2. PICK origin : Returns(stack, origin)
    BY <1>0 DEF MeaningInv
  <1>3. /\ frame.edges \subseteq DOMAIN doc.edges
        /\ IsFacts(frame.facts) /\ IsFacts(frame.output) /\ IsFacts(frame.out)
    BY <1>1 DEF IsFrame
  <1>4. IsFirst(first, frame.edges) /\ first \in DOMAIN doc.edges
    <2>1. frame.edges # {} /\ frame.edges \subseteq Nat
      BY <1>1, <1>3, DocParts DEF Branch
    <2> QED
      BY <1>3, <2>1, MinIsLeast DEF IsFirst
  <1>5. PICK m \in remapEdge(edge, frame.out) :
           stack' = <<Enter(edge.to, Put(frame.facts, m)), rest>> \o Tail(stack)
    BY <1>1 DEF Branch
  <1>6. /\ rest.phase = "edges" /\ rest.edges = frame.edges \ {first} /\ rest.facts = frame.facts
        /\ rest.output = frame.output /\ rest.out = frame.out
    BY <1>0, <1>1 DEF IsFrame
  <1> DEFINE place == Place(edge.to, Put(frame.facts, m))
  <1>7. place \in Places
    BY <1>1, <1>3, <1>4, BroughtPlace
  <1>8. ASSUME NEW o, Yields(Enter(edge.to, Put(frame.facts, m)), o)
        PROVE  Means(place, o)
    BY <1>1, <1>7, <1>8, MeansForm DEF Yields, Enter
  <1> HIDE DEF rest, first
  <1>9. ASSUME NEW b, NEW o, Means(place, b), Resumes(rest, b, o)
        PROVE  Means(origin[1], o)
    <2>1. Brings(first, frame.facts, frame.out, b)
      BY <1>9 DEF Brings
    <2>2. Yields(frame, o)
      <3>1. CASE b.verdict = "true"
        <4>1. PICK p : o = After(Put(frame.output, b.out), p) /\ Follows(rest.edges, rest.facts, rest.out, p)
          BY <1>6, <1>9, <3>1 DEF Resumes
        <4>2. Follows(frame.edges, frame.facts, frame.out, After(b.out, p))
          BY <1>1, <1>3, <1>4, <1>6, <2>1, <3>1, <4>1, FirstSucceeds
        <4>3. o = After(frame.output, After(b.out, p))
          BY <4>1, AfterAfter
        <4> QED
          BY <1>0, <1>1, <4>2, <4>3 DEF Yields
      <3>2. CASE b.verdict # "true"
        <4>1. Follows(frame.edges, frame.facts, frame.out, b)
          BY <1>1, <1>3, <1>4, <2>1, <3>2, FirstFails
        <4>2. o = b /\ b = After(frame.output, b)
          BY <1>9, <3>2 DEF Resumes, After
        <4> QED
          BY <1>0, <1>1, <4>1, <4>2 DEF Yields
      <3> QED
        BY <3>1, <3>2
    <2> QED
      BY <1>2, <2>2 DEF Returns
  <1> PICK frames : frames = <<Enter(edge.to, Put(frame.facts, m)), rest>> \o Tail(stack)
    OBVIOUS
  <1> PICK n : n = Len(stack)
    OBVIOUS
  <1>10. n \in Nat \ {0}
    BY <1>1, Zenon
  <1> DEFINE origins == [j \in 1..(n + 1) |-> IF j = 1 THEN place ELSE origin[j - 1]]
  <1>11. /\ Len(frames) = n + 1 /\ frames[1] = Enter(edge.to, Put(frame.facts, m)) /\ frames[2] = rest
         /\ \A j \in 3..(n + 1) : frames[j] = stack[j - 1]
    BY <1>1, HeadPushed
  <1>12. /\ origin \in [1..n -> Places] /\ origin[n] = Place(doc.entry, input)
         /\ \A j \in 2..n : stack[j].phase = "edges"
         /\ \A j \in 2..n : \A b, o : Means(origin[j - 1], b) /\ Resumes(stack[j], b, o) => Means(origin[j], o)
    BY <1>2 DEF Returns
  <1> HIDE DEF frame, place, edge
  <1>13. Returns(frames, origins)
    <2>1. origins \in [1..Len(frames) -> Places] /\ origins[Len(frames)] = Place(doc.entry, input)
      BY <1>7, <1>10, <1>11, <1>12
    <2>2. \A o : Yields(frames[1], o) => Means(origins[1], o)
      BY <1>8, <1>10, <1>11 DEF place
    <2>3. ASSUME NEW j \in 2..(n + 1)
          PROVE  /\ frames[j].phase = "edges"
                 /\ \A b, o : Means(origins[j - 1], b) /\ Resumes(frames[j], b, o) => Means(origins[j], o)
      <3>1. CASE j = 2
        <4>1. origins[j - 1] = place /\ origins[j] = origin[1] /\ frames[j] = rest
          BY <1>10, <1>11, <3>1
        <4> QED
          BY <1>6, <1>9, <4>1
      <3>2. CASE j # 2
        <4> DEFINE i == j - 1
        <4>1. i \in 2..n /\ j \in 3..(n + 1) /\ j - 1 \in 1..(n + 1) /\ j - 1 # 1 /\ j # 1 /\ j \in 1..(n + 1)
          BY <1>10, <3>2
        <4>2. origins[j - 1] = origin[i - 1] /\ origins[j] = origin[i] /\ frames[j] = stack[i]
          BY <1>11, <4>1
        <4> HIDE DEF i, origins
        <4> QED
          BY <1>12, <4>1, <4>2
      <3> QED
        BY <3>1, <3>2
    <2> HIDE DEF origins
    <2> QED
      BY <1>11, <2>1, <2>2, <2>3 DEF Returns
  <1> QED
    BY <1>0, <1>5, <1>13, RunningMeans

LEMMA LeaveMeans ==
    ASSUME EvaluationTypeOK, MeaningInv, Leave
    PROVE  MeaningInv'
  <1> DEFINE frame == stack[1]
             b == Outcome("true", frame.output)
  <1>0. /\ UNCHANGED <<doc, input>> /\ status = "running"
        /\ Head(stack).phase = "edges" /\ Head(stack).edges = {}
    BY DEF Leave
  <1>1. /\ IsDSL(doc) /\ stack # <<>> /\ stack \in Seq(Range(stack))
        /\ Len(stack) \in Nat \ {0}
        /\ Head(stack) = frame /\ IsFrame(frame) /\ \A f \in Range(stack) : IsFrame(f)
    BY <1>0, StackParts
  <1>2. PICK origin : Returns(stack, origin)
    BY <1>0 DEF MeaningInv
  <1>3. IsFacts(frame.output)
    BY <1>1 DEF IsFrame
  <1>4. Means(origin[1], b)
    <2>1. Follows(frame.edges, frame.facts, frame.out, Outcome("true", Empty))
      BY <1>0, <1>1, NoneFollow
    <2>2. b = After(frame.output, Outcome("true", Empty))
      BY <1>3, PutEmpty DEF After, Outcome
    <2>3. Yields(frame, b)
      BY <1>0, <1>1, <2>1, <2>2 DEF Yields
    <2> QED
      BY <1>2, <2>3 DEF Returns
  <1>5. CASE Len(stack) = 1
    <2>1. status' = "done" /\ result' = frame.output
      BY <1>1, <1>5 DEF Leave, End
    <2>2. Means(Place(doc.entry, input), b)
      BY <1>2, <1>4, <1>5 DEF Returns
    <2> QED
      BY <1>0, <2>1, <2>2, EndedMeans
  <1>6. CASE Len(stack) # 1
    <2> DEFINE caller == [stack[2] EXCEPT !.output = Put(@, frame.output)]
    <2>1. stack' = <<caller>> \o Tail(Tail(stack)) /\ status' = "running"
      BY <1>0, <1>1, <1>6 DEF Leave
    <2>2. IsFrame(stack[2])
      BY <1>1, <1>6, SecondOfSeq
    <2>3. /\ caller.phase = stack[2].phase /\ caller.edges = stack[2].edges
          /\ caller.facts = stack[2].facts /\ caller.out = stack[2].out
          /\ caller.output = Put(stack[2].output, frame.output)
      BY <2>2 DEF IsFrame
    <2> HIDE DEF caller
    <2> PICK frames : frames = <<caller>> \o Tail(Tail(stack))
      OBVIOUS
    <2> PICK n : n = Len(stack) - 1
      OBVIOUS
    <2>4. /\ n \in Nat \ {0} /\ Len(stack) = n + 1
          /\ Len(frames) = n /\ frames[1] = caller
          /\ \A j \in 2..n : frames[j] = stack[j + 1]
      BY <1>1, <1>6, HeadDropped
    <2>5. /\ origin \in [1..(n + 1) -> Places] /\ origin[n + 1] = Place(doc.entry, input)
          /\ \A j \in 2..(n + 1) : stack[j].phase = "edges"
          /\ \A j \in 2..(n + 1) : \A c, o :
                Means(origin[j - 1], c) /\ Resumes(stack[j], c, o) => Means(origin[j], o)
      BY <1>2, <2>4 DEF Returns
    <2> DEFINE origins == [j \in 1..n |-> origin[j + 1]]
    <2>6. origins \in [1..n -> Places] /\ origins[n] = Place(doc.entry, input)
      BY <2>4, <2>5
    <2>7. ASSUME NEW o, Yields(caller, o)
          PROVE  Means(origins[1], o)
      <3>1. 2 \in 2..(n + 1) /\ 2 - 1 = 1 /\ origins[1] = origin[2]
        BY <2>4
      <3>2. stack[2].phase = "edges"
        BY <2>5, <3>1
      <3>3. PICK p : o = After(caller.output, p) /\ Follows(caller.edges, caller.facts, caller.out, p)
        BY <2>3, <2>7, <3>2 DEF Yields
      <3>4. Resumes(stack[2], b, o)
        BY <2>3, <3>3 DEF Resumes, Outcome
      <3> HIDE DEF b, origins
      <3> QED
        BY <1>4, <2>5, <3>1, <3>4
    <2>8. ASSUME NEW j \in 2..n
          PROVE  /\ frames[j].phase = "edges"
                 /\ \A c, o : Means(origins[j - 1], c) /\ Resumes(frames[j], c, o) => Means(origins[j], o)
      <3> DEFINE i == j + 1
      <3>1. i \in 2..(n + 1) /\ i - 1 = (j - 1) + 1 /\ j - 1 \in 1..n /\ j \in 1..n
        BY <2>4
      <3>2. origins[j - 1] = origin[i - 1] /\ origins[j] = origin[i] /\ frames[j] = stack[i]
        BY <2>4, <3>1
      <3> HIDE DEF i, origins
      <3> QED
        BY <2>5, <3>1, <3>2
    <2> HIDE DEF origins
    <2>9. Returns(frames, origins)
      BY <2>4, <2>6, <2>7, <2>8 DEF Returns
    <2> QED
      BY <1>0, <2>1, <2>9, RunningMeans
  <1> QED
    BY <1>5, <1>6

-----------------------------------------------------------------------------
(* One outcome *)

\* Places have one outcome at most.
Single(meaning) == \A place \in Places : \A a, b \in meaning[place] : a = b

LEMMA RemapOne ==
    ASSUME NEW edge, OneToOne(edge), NEW out, NEW l \in remapEdge(edge, out),
           NEW m \in remapEdge(edge, out)
    PROVE  l = m
  <1>1. CASE DOMAIN edge.map = {}
    BY <1>1 DEF remapEdge
  <1>2. CASE DOMAIN edge.map # {}
    <2> DEFINE sources == DOMAIN edge.map \cap DOMAIN out
               From(f) == {out[k] : k \in {s \in sources : edge.map[s] = f}}
               D == {edge.map[s] : s \in sources}
    <2>1. /\ l \in [D -> Range(out)] /\ \A f \in D : l[f] \in From(f)
          /\ m \in [D -> Range(out)] /\ \A f \in D : m[f] \in From(f)
      BY <1>2 DEF remapEdge
    <2>2. ASSUME NEW f \in D, NEW x \in From(f), NEW y \in From(f)
          PROVE  x = y
      BY DEF OneToOne
    <2> HIDE DEF D, From
    <2> QED
      BY <2>1, <2>2
  <1> QED
    BY <1>1, <1>2

LEMMA GivesOne ==
    ASSUME IsDSL(doc), NEW meaning, Single(meaning), NEW i \in DOMAIN doc.edges,
           OneToOne(doc.edges[i]), NEW facts, IsFacts(facts), NEW out, IsFacts(out),
           NEW a \in Gives(meaning, doc.edges[i], facts, out),
           NEW b \in Gives(meaning, doc.edges[i], facts, out)
    PROVE  a = b
  <1>1. PICK l \in remapEdge(doc.edges[i], out) :
           a \in meaning[Place(doc.edges[i].to, Put(facts, l))]
    BY DEF Gives
  <1>2. PICK m \in remapEdge(doc.edges[i], out) :
           b \in meaning[Place(doc.edges[i].to, Put(facts, m))]
    BY DEF Gives
  <1>3. l = m
    BY RemapOne
  <1>4. Place(doc.edges[i].to, Put(facts, l)) \in Places
    BY BroughtPlace
  <1> QED
    BY <1>1, <1>2, <1>3, <1>4 DEF Single

LEMMA BranchesOne ==
    ASSUME IsDSL(doc), NEW meaning, Single(meaning), NEW edges, edges \subseteq DOMAIN doc.edges,
           \A i \in edges : OneToOne(doc.edges[i]),
           NEW facts, IsFacts(facts), NEW out, IsFacts(out),
           NEW a \in Branches(meaning, edges, facts, out),
           NEW b \in Branches(meaning, edges, facts, out)
    PROVE  a = b
  <1>1. \A i \in edges : \A p, q \in Gives(meaning, doc.edges[i], facts, out) : p = q
    BY GivesOne
  <1>2. \A branch, i, o : ~(/\ Succeed(meaning, edges, facts, out, branch)
                            /\ FailsAt(meaning, edges, facts, out, i, o))
    BY <1>1 DEF Succeed, FailsAt
  <1>3. ASSUME NEW l, NEW m, Succeed(meaning, edges, facts, out, l),
               Succeed(meaning, edges, facts, out, m)
        PROVE  l = m
    <2>1. ASSUME NEW i \in edges
          PROVE  l[i] = m[i]
      <3>1. /\ l[i] \in Gives(meaning, doc.edges[i], facts, out)
            /\ m[i] \in Gives(meaning, doc.edges[i], facts, out)
        BY <1>3, Zenon DEF Succeed
      <3> QED
        BY <1>1, <3>1
    <2>2. l = [i \in edges |-> l[i]] /\ m = [i \in edges |-> m[i]]
      BY <1>3 DEF Succeed
    <2> QED
      BY <2>1, <2>2
  <1>4. ASSUME NEW i, NEW j, NEW p, NEW q, FailsAt(meaning, edges, facts, out, i, p),
               FailsAt(meaning, edges, facts, out, j, q)
        PROVE  p = q
    <2>1. ~CanSucceed(meaning, i, facts, out) /\ ~CanSucceed(meaning, j, facts, out)
      BY <1>1, <1>4 DEF FailsAt, CanSucceed
    <2>2. i \in edges /\ j \in edges /\ ~(i < j) /\ ~(j < i)
      BY <1>4, <2>1 DEF FailsAt
    <2>3. i = j
      BY <2>2, DocParts
    <2> QED
      BY <1>1, <1>4, <2>3 DEF FailsAt
  <1> QED
    BY <1>2, <1>3, <1>4, BranchesAre

LEMMA EvalAtOne ==
    ASSUME Validate(doc), NEW frame, NEW a \in evalAt(frame), NEW b \in evalAt(frame)
    PROVE  a = b
  <1>1. \A l, m \in nodeByID(frame.node) : l = m
    BY DEF nodeByID, Range, Validate, ProperIds
  <1> QED
    BY <1>1 DEF evalAt

LEMMA OutcomesOne ==
    ASSUME IsDSL(doc), Validate(doc), \A i \in DOMAIN doc.edges : OneToOne(doc.edges[i]),
           NEW meaning, Single(meaning), NEW place \in Places,
           NEW a \in Outcomes(meaning, place), NEW b \in Outcomes(meaning, place)
    PROVE  a = b
  <1> DEFINE Those(own) == Branches(meaning, edgesFrom(place.node), Put(place.facts, own.out), own.out)
  <1>1. PICK own \in evalAt(place) :
           \/ own.verdict = "true" /\ \E o \in Those(own) : a = After(own.out, o)
           \/ own.verdict # "true" /\ a = Outcome(own.verdict, Empty)
    BY DEF Outcomes
  <1>2. PICK own2 \in evalAt(place) :
           \/ own2.verdict = "true" /\ \E o \in Those(own2) : b = After(own2.out, o)
           \/ own2.verdict # "true" /\ b = Outcome(own2.verdict, Empty)
    BY DEF Outcomes
  <1>3. own = own2
    BY EvalAtOne
  <1>4. \A p, q \in Those(own) : p = q
    <2>1. IsFacts(own.out) /\ IsFacts(place.facts) /\ IsFacts(Put(place.facts, own.out))
      BY EvalAtFacts, PutFacts DEF Places, IsFacts, IsMap
    <2>2. edgesFrom(place.node) \subseteq DOMAIN doc.edges
      BY DEF edgesFrom
    <2> QED
      BY <2>1, <2>2, BranchesOne
  <1> HIDE DEF Those
  <1> QED
    BY <1>1, <1>2, <1>3, <1>4

\* Document and facts determine the outcome.
LEMMA MeansOne ==
    ASSUME IsDSL(doc), Validate(doc), \A i \in DOMAIN doc.edges : OneToOne(doc.edges[i]),
           NEW place \in Places, NEW a, NEW b, Means(place, a), Means(place, b)
    PROVE  a = b
  <1> DEFINE T == {n \in Nat : Single(Meanings[n])}
  <1>1. 0 \in T
    BY MeaningsAre DEF Single, Level
  <1>2. ASSUME NEW n \in Nat, n \in T
        PROVE  n + 1 \in T
    <2>1. n + 1 \in Nat /\ n + 1 # 0 /\ (n + 1) - 1 = n
      OBVIOUS
    <2>2. Meanings[n + 1] = Level(n + 1, Meanings[n])
      BY <2>1, MeaningsAre
    <2>3. \A p \in Places : Meanings[n + 1][p] = Outcomes(Meanings[n], p)
      BY <2>1, <2>2 DEF Level
    <2>4. Single(Meanings[n])
      BY <1>2
    <2>5. Single(Meanings[n + 1])
      BY <2>3, <2>4, OutcomesOne DEF Single
    <2> QED
      BY <2>1, <2>5
  <1> HIDE DEF T
  <1>3. \A n \in Nat : n \in T
    BY <1>1, <1>2, NatIn
  <1>4. PICK m \in Nat : a \in Meanings[m][place]
    BY DEF Means
  <1>5. PICK n \in Nat : b \in Meanings[n][place]
    BY DEF Means
  <1>6. m + n \in Nat /\ m + n = n + m
    OBVIOUS
  <1>7. a \in Meanings[m + n][place] /\ b \in Meanings[m + n][place]
    BY <1>4, <1>5, <1>6, AnyDeeper DEF Within
  <1>8. Single(Meanings[m + n])
    BY <1>3, <1>6 DEF T
  <1> QED
    BY <1>7, <1>8 DEF Single

-----------------------------------------------------------------------------
(* The walk and the recursion *)

\* After any number of steps, each call under way can return only what the
\* recursion gives for the place where it began.
THEOREM MeaningInvariant == Spec => []MeaningInv
  <1>1. Init => MeaningInv
    BY DEF Init, MeaningInv
  <1>2. EvaluationTypeOK /\ MeaningInv /\ [Next]_vars => MeaningInv'
    <2>1. ASSUME MeaningInv, UNCHANGED vars
          PROVE  MeaningInv'
      <3>1. \A place, o : Means(place, o)' <=> Means(place, o)
        BY <2>1, SameMeanings DEF Means, vars
      <3>2. CASE status = "running"
        BY <2>1, <3>2, RunningMeans DEF MeaningInv, vars
      <3>3. CASE status # "running"
        BY <2>1, <3>1, <3>3 DEF MeaningInv, vars
      <3> QED
        BY <3>2, <3>3
    <2> QED
      BY <2>1, LoadMeans, VisitMeans, BranchMeans, LeaveMeans DEF Next
  <1> QED
    BY <1>1, <1>2, TypeCorrect, PTL DEF Spec

\* An evaluation that ends, of any document and any facts and after any number
\* of steps, has computed what the recursion over the edges says.
THEOREM WalkIsRecursion ==
    ASSUME \A n \in Nat : \E depth \in Depths : n <= depth
    PROVE  Spec => []OutcomeIsMeaning
  <1>1. EvaluationTypeOK /\ PanicInv /\ MeaningInv => OutcomeIsMeaning
    <2> SUFFICES ASSUME EvaluationTypeOK, PanicInv, MeaningInv, status \in {"done", "error", "panic"}
                 PROVE  OutcomeIsMeaning
      BY DEF OutcomeIsMeaning
    <2> DEFINE place == Place(doc.entry, input)
               outcome == Outcome(IF status = "done" THEN "true" ELSE status, result)
               meanings == UNION {Meanings[depth][place] : depth \in Depths}
    <2>1. IsDSL(doc) /\ Validate(doc) /\ place \in Places
      BY DocParts, PlaceOK DEF EvaluationTypeOK, PanicInv, ValidInv
    <2>2. Means(place, outcome)
      BY DEF MeaningInv
    <2>3. \A o : o \in meanings <=> Means(place, o)
      <3>1. ASSUME NEW o, Means(place, o)
            PROVE  o \in meanings
        <4>1. PICK n \in Nat : o \in Meanings[n][place]
          BY <3>1 DEF Means
        <4>2. PICK depth \in Depths : n <= depth
          OBVIOUS
        <4>3. depth - n \in Nat /\ n + (depth - n) = depth
          BY <4>2, DepthsAssumption DEF DepthsAssumption
        <4>4. Within(Meanings[n], Meanings[n + (depth - n)])
          BY <2>1, <4>3, AnyDeeper
        <4>5. o \in Meanings[depth][place]
          BY <2>1, <4>1, <4>3, <4>4 DEF Within
        <4> QED
          BY <4>5
      <3>2. ASSUME NEW o \in meanings
            PROVE  Means(place, o)
        BY DepthsAssumption DEF DepthsAssumption, Means
      <3> QED
        BY <3>1, <3>2
    <2> HIDE DEF place, meanings, outcome
    <2>4. outcome \in meanings
      BY <2>2, <2>3
    <2>5. (\A i \in DOMAIN doc.edges : OneToOne(doc.edges[i])) => \A m, n \in meanings : m = n
      BY <2>1, <2>3, MeansOne
    <2> QED
      BY <2>4, <2>5, Zenon DEF OutcomeIsMeaning, place, meanings, outcome
  <1> QED
    BY <1>1, TypeCorrect, PanicInvariant, MeaningInvariant, PTL
=============================================================================

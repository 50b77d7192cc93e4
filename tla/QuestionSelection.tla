-------------------------- MODULE QuestionSelection --------------------------
(* Which question the adaptive onboarding asks next:                           *)
(*   adaptive-question-engine.service.ts        getNextBestQuestion            *)
(*   question-dependency-engine.service.ts      detectCycles, evaluateDependency*)
(*   question-prioritization-engine.service.ts  calculatePrioritization        *)
(*   document-aware-question-engine.service.ts  checkDocumentSatisfaction      *)
(*                                                                             *)
(* A question has the attribute of the same name.  The catalogue, the          *)
(* dependencies and the documents are those of one citizen's discovery; what   *)
(* changes is what the citizen has answered.                                    *)
EXTENDS Integers, FiniteSets, Sequences

CONSTANTS
    Questions,      \* question versions, numbered in the order of their identifiers
    Catalogue,      \* what ranks each of them
    Dependency,     \* operator and expected value of the dependencies of each question
    Values,         \* answers a citizen may give
    Evidences       \* what the citizen's documents may say of an attribute

ASSUME QuestionAssumption ==
    /\ Questions \subseteq Nat /\ IsFiniteSet(Questions)
    /\ Values \subseteq Nat
    /\ \A q \in Questions : Catalogue[q].priority \in Int

VARIABLES
    active,         \* questions with isActive
    dependsOn,      \* pairs of a question and the question it depends on
    evidence,       \* what they say of each attribute
    answers         \* facts of the profile, or Unknown

questionVars == <<active, dependsOn, evidence, answers>>

Unknown == -1

-------------------------------------------------------------------------------
(* Documents: checkDocumentSatisfaction *)

TrustThreshold == 70

\* The evidence for an attribute with the status, verification and open conflict of its
\* document.
Evidence == [found : BOOLEAN, status : {"ACTIVE", "EXPIRED"}, verified : BOOLEAN,
             trust : 0..100, conflict : BOOLEAN]

Satisfies(e) ==
    /\ e.found
    /\ e.status = "ACTIVE"
    /\ e.verified
    /\ e.trust >= TrustThreshold
    /\ ~e.conflict

-------------------------------------------------------------------------------
(* Dependencies: detectCycles, evaluateDependency *)

\* The attribute is known and compares as the dependency expects.
Holds(dependency, value) ==
    /\ value # Unknown
    /\ LET expected == dependency.expected
       IN  CASE dependency.operator = "EQUALS"           -> value = expected
             [] dependency.operator = "NOT_EQUALS"       -> value # expected
             [] dependency.operator = "GREATER_THAN"     -> value > expected
             [] dependency.operator = "LESS_THAN"        -> value < expected
             [] dependency.operator = "GREATER_OR_EQUAL" -> value >= expected
             [] dependency.operator = "LESS_OR_EQUAL"    -> value <= expected
             [] dependency.operator = "IN"               -> value \in expected
             [] dependency.operator = "NOT_IN"           -> value \notin expected

Parents(q) == {p \in Questions : <<q, p>> \in dependsOn}

\* Only active questions are nodes of the graph: any other has no neighbours there.
Edges == {e \in dependsOn : e[1] \in active}

\* A search: the path from the node the outer loop began with to the one dfs is at, the
\* nodes visited, and the edges no call of dfs has looked at yet.
SearchStart == [path |-> <<>>, visited |-> {}, left |-> Edges, cyclic |-> FALSE]

\* A node seen before closes a cycle only if the search is still below it.
SeenBefore(n, search) == n \in search.visited
OnStack(n, search) == \E i \in DOMAIN search.path : search.path[i] = n

Lowest(qs) == CHOOSE n \in qs : \A m \in qs : n <= m

\* dfs is called for n, and returns.
Enter(n, search) == [search EXCEPT !.path = Append(@, n), !.visited = @ \cup {n}]
Leave(search) == [search EXCEPT !.path = SubSeq(@, 1, Len(@) - 1)]

\* dfs, called for node, looks at its neighbour n.
LookAt(node, n, search) ==
    LET looked == [search EXCEPT !.left = @ \ {<<node, n>>}]
    IN  IF n \notin search.visited THEN Enter(n, looked)
        ELSE [looked EXCEPT !.cyclic = OnStack(n, search)]

\* The outer loop goes on to the next node, if one is left that was not visited.
NextRoot(search) ==
    LET roots == active \ search.visited
    IN  IF roots = {} THEN search ELSE Enter(Lowest(roots), search)

\* One turn of a loop: of the outer one, or of that of the innermost call of dfs.
SearchTurn(search) ==
    LET node      == search.path[Len(search.path)]
        neighbors == {n \in Questions : <<node, n>> \in search.left}
    IN  IF search.cyclic THEN search
        ELSE IF search.path = <<>> THEN NextRoot(search)
        ELSE IF neighbors = {} THEN Leave(search)
        ELSE LookAt(node, Lowest(neighbors), search)

\* Every turn looks at an edge, or enters or leaves a node: none is left for another.
MaxTurns == Cardinality(dependsOn) + 2 * Cardinality(Questions)

CycleDetected ==
    LET turn[n \in 0..MaxTurns] == IF n = 0 THEN SearchStart ELSE SearchTurn(turn[n - 1])
    IN  turn[MaxTurns].cyclic

-------------------------------------------------------------------------------
(* Ranking: calculatePrioritization *)

RelevanceScore(q)  == IF Catalogue[q].relevant THEN 95 ELSE 50
UnlockScore(q)     == IF Catalogue[q].unlocks THEN 90 ELSE 40
CriticalScore(q)   == IF Catalogue[q].critical THEN 90 ELSE 50
DownstreamScore(q) == Catalogue[q].priority * 10
EffortPenalty(q)   == IF Catalogue[q].document THEN 20 ELSE 5

\* The default weights are hundredths; Math.round rounds halves up.
ImpactScore(q) ==
    (35 * RelevanceScore(q) + 25 * UnlockScore(q) + 20 * CriticalScore(q)
        + 15 * DownstreamScore(q) - 5 * EffortPenalty(q) + 50) \div 100

\* The comparator: does a come before b?
Before(a, b) ==
    \/ ImpactScore(a) > ImpactScore(b)
    \/ /\ ImpactScore(a) = ImpactScore(b)
       /\ \/ RelevanceScore(a) > RelevanceScore(b)
          \/ /\ RelevanceScore(a) = RelevanceScore(b)
             /\ \/ CriticalScore(a) > CriticalScore(b)
                \/ /\ CriticalScore(a) = CriticalScore(b)
                   /\ \/ UnlockScore(a) > UnlockScore(b)
                      \/ /\ UnlockScore(a) = UnlockScore(b)
                         /\ \/ EffortPenalty(a) < EffortPenalty(b)
                            \/ /\ EffortPenalty(a) = EffortPenalty(b)
                               /\ a < b

First(qs) == {q \in qs : \A p \in qs \ {q} : Before(q, p)}

-------------------------------------------------------------------------------
(* getNextBestQuestion *)

Known(q) == answers[q] # Unknown

\* A question that may be asked at all.
Open(q) == q \in active /\ ~Known(q) /\ ~Satisfies(evidence[q])

\* One dependency is enough.
AnyUnblocked(q) == Parents(q) = {} \/ \E p \in Parents(q) : Holds(Dependency[q], answers[p])

Unblocked(q) == \A p \in Parents(q) : Holds(Dependency[q], answers[p])

Candidates == IF CycleDetected THEN {} ELSE {q \in Questions : Open(q) /\ Unblocked(q)}

NextQuestion == First(Candidates)

-------------------------------------------------------------------------------
(* A discovery *)

QuestionInit ==
    /\ active \in SUBSET Questions
    /\ dependsOn \in SUBSET (Questions \X Questions)
    /\ evidence \in [Questions -> Evidences]
    /\ answers = [q \in Questions |-> Unknown]

\* The citizen answers the question that is offered, see CitizenFact for how.
Answer == \E q \in NextQuestion, v \in Values :
    /\ answers' = [answers EXCEPT ![q] = v]
    /\ UNCHANGED <<active, dependsOn, evidence>>

QuestionNext == Answer

QuestionSpec == QuestionInit /\ [][QuestionNext]_questionVars

-------------------------------------------------------------------------------
(* Properties *)

\* A path of edges leads from p to q: q is in every set that the edges do not lead out of
\* and that has the nodes next to p.
Reaches(edges, p, q) ==
    \A reached \in SUBSET Questions :
        (\A e \in edges : e[1] = p \/ e[1] \in reached => e[2] \in reached) => q \in reached

\* detectCycles refuses a catalogue exactly if some active question depends, over active
\* questions, on itself.
CycleCheckExact ==
    LET edges == {e \in dependsOn : e[1] \in active /\ e[2] \in active}
    IN  CycleDetected <=> \E q \in Questions : Reaches(edges, q, q)

\* What is offered is one question, whatever the order in which the candidates are
\* compared.
OneIsOffered == Cardinality(NextQuestion) <= 1

\* A question answered in this discovery was not asked before what it depends on.
AskedInOrder == \A q \in Questions : Known(q) =>
    \A p \in Parents(q) : Holds(Dependency[q], answers[p])

\* Something is offered as long as something is left that can be: a question is passed
\* over only when its dependencies lead, through questions not yet answered, to one that
\* was answered otherwise, that nobody can be asked, or that a document answers without
\* the fact being known.
DiscoveryProceeds ==
    LET open == {q \in Questions : Open(q)}
        stuck == {q \in open : \E p \in Parents(q) :
                    IF Known(p) THEN ~Holds(Dependency[q], answers[p]) ELSE p \notin open}
        edges == {e \in dependsOn : e[1] \in open}
    IN  /\ OneIsOffered
        /\ AskedInOrder
        /\ (~CycleDetected /\ NextQuestion = {})
              => \A q \in open : q \in stuck \/ \E p \in stuck : Reaches(edges, q, p)
===============================================================================

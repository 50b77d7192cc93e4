------------------------------ MODULE MCPlatform ------------------------------
(* Small instances of what works on a citizen's case behind the scenes: the     *)
(* knowledge about policies, the documents of the citizen, the eligibility with *)
(* the recommendations that rest on it, and the journey of an application.      *)
(* Eligibility and recommendation share their snapshots and run together, called *)
(* by citizens or by the runs of a re-evaluation; the other components share      *)
(* nothing with them here, so that each behaviour exercises one part and the rest *)
(* stay as they began.                                                            *)
EXTENDS KnowledgeIngestion, DocumentUpload, DecisionRecords, ApplicationJourney,
        CandidateRetrieval, TLC

CONSTANTS r1, r2, r3, g1, g2, none

VARIABLE part       \* what this behaviour exercises

Pair == {r1, r2}
Triple == {r1, r2, r3}
GenerationPair == {g1, g2}

\* Requests of one kind differ in nothing.
Symmetry == Permutations(Pair) \cup Permutations(GenerationPair)

\* The keys of one attribute, a key of no attribute, and one for the unit of the former.
MCFactKeys == {"AGRICULTURE.LAND_AREA", "landAreaHectares", "landHolding", "income",
               "landAreaUnit"}

\* 0, 1 and 2 of what the canonical unit is, 2 acres, and a text that names a unit.
Acres == Fact(2000, NoText, "ACRE")
Text(text) == Fact(0, text, NoUnit)
MCAnswers == {Number(0), Number(1000), Number(2000), Acres, Text("ACRE")}
\* What is answered under each key.
MCSays ==
    "AGRICULTURE.LAND_AREA" :> {Number(1000)} @@
    "landAreaHectares"      :> {Number(0), Number(1000), Number(2000), Acres, Text("ACRE")} @@
    "landHolding"           :> {Number(1000), Number(2000)} @@
    "income"                :> {Number(1000), Number(2000)} @@
    "landAreaUnit"          :> {Number(0), Number(1000), Text("ACRE")}
\* So many keys are answered at first.
MaxAnswered == 3
MCFacts == {f \in Facts :
    /\ \A key \in FactKeys : f[key] \in MCSays[key] \cup {Unanswered}
    /\ Cardinality({key \in FactKeys : f[key] # Unanswered}) <= MaxAnswered}

MCBridge == "primaryOccupation" :> "occupationCategory"

Condition(key, operator, expected) ==
    [attribute |-> key, operator |-> operator, expected |-> expected]
Group(operator, threshold, conditions, children) ==
    [operator |-> operator, threshold |-> threshold, conditions |-> conditions,
     children |-> children]

\* The rule of the seeds, and one rule for each way to combine conditions and groups.
LandRule == Group("ALL", 0, <<Condition("landHolding", "LESS_OR_EQUAL", {1000})>>, <<>>)
MCConditions == {Condition("landAreaHectares", operator, {1000}) : operator \in
                   {"EQUALS", "NOT_EQUALS", "GREATER_THAN", "LESS_THAN", "GREATER_OR_EQUAL",
                    "IN", "NOT_IN", "EXISTS", "NOT_EXISTS"}}
                \cup {Condition("landHolding", "BETWEEN", {0, 1000})}
MCRules == {LandRule} \cup
    {Group(operator, threshold, <<c>>,
           <<Group(inner, 0, <<Condition("income", "LESS_OR_EQUAL", {1000}),
                               Condition("landHolding", "EXISTS", {})>>, <<>>),
             Group("ANY", 0, <<>>, <<>>)>>) :
        operator \in {"ALL", "X_OF_Y", "NONE"}, threshold \in {0, 2},
        c \in MCConditions, inner \in {"ANY", "NONE", "X_OF_Y"}}
MCRuleSets == {<<>>} \cup {<<rule>> : rule \in MCRules}

\* The blueprints of the seeds and their steps, and one without a domain in between.
MCBlueprints == {"root", "farmer", "pm-kisan", "direct"}
MCParent == [b \in MCBlueprints |->
    CASE b = "root" -> none [] b = "farmer" -> "root" [] b = "pm-kisan" -> "farmer"
      [] b = "direct" -> "root"]
MCDefaultSteps == [b \in MCBlueprints |->
    CASE b = "root" -> {1, 2} [] b = "farmer" -> {3} [] OTHER -> {4}]
\* The prerequisites of the source, and every other way four steps may wait, as long as
\* the last waits for no more than one.
MCStepGraphs == {graph \in [1..4 -> SUBSET (1..4)] :
    Cardinality(graph[4]) <= 1 /\ \A s \in 1..3 : Cardinality(graph[s]) <= 2}
SourceGraph == <<{}, {1}, {2}, {3}>>

\* Three documents: one for everybody, one for a state whose rule asks for the land under
\* the code of the attribute, and one whose rule asks under the legacy key.
MCAbout == <<
    [state |-> "all", category |-> none, ministry |-> none, department |-> none,
     classification |-> "SCHEME", references |-> {}],
    [state |-> "Kerala", category |-> "farmer", ministry |-> "agriculture",
     department |-> none, classification |-> "SCHEME", references |-> {"AGRICULTURE.LAND_AREA"}],
    [state |-> none, category |-> "all", ministry |-> "agriculture", department |-> "land",
     classification |-> "SCHEME", references |-> {"landHolding"}]>>

Vector(chunk, id, document, score) ==
    [chunk |-> chunk, of |-> id, document |-> document, score |-> score]
MCVectorStores == {{}, {Vector(1, <<1, 1>>, 1, 40), Vector(2, <<2, 2>>, 2, 90),
                        Vector(3, <<2, 1>>, 2, 70), Vector(4, <<2, 1>>, 2, 70),
                        Vector(5, <<3, 1>>, 1, 60), Vector(6, <<3, 2>>, 3, 5)}}

Entry(key, value) == [key |-> key, value |-> value]
MCServerFacts == {
    <<Entry("landHolding", "1.5"), Entry("state", "Kerala")>>,
    <<Entry("occupationCategory", "business"), Entry("landAreaHectares", "much")>>,
    <<Entry("occupationCategory", "kisan"), Entry("occupation", "farmer")>>}
MCHints == {
    <<>>,
    <<Entry("landAreaHectares", "1.5"), Entry("aadhaarNumber", "1.5")>>,
    <<Entry("primaryOccupation", "kisan"), Entry("state", "Punjab"),
      Entry("beneficiaryCategory", "farmer")>>}
MCRequests == {[hints |-> hints, state |-> none, category |-> none, ministry |-> office.ministry,
                department |-> office.department, classification |-> none, max |-> max,
                mode |-> mode, minScore |-> 10] :
    hints \in MCHints, max \in {1, 3}, mode \in Modes,
    office \in {[ministry |-> none, department |-> none],
               [ministry |-> "agriculture", department |-> "land"]}}

\* What only one part varies is fixed for the others.
Init ==
    /\ part \in {"knowledge", "documents", "rules", "decisions", "planning", "journeys", "retrieval",
                "records", "breaking records", "activation"}
    /\ facts \in IF part = "rules" THEN MCFacts ELSE {[key \in FactKeys |-> Unanswered]}
    /\ rules \in CASE part = "rules"     -> RuleSets
                  [] part = "decisions" -> {<<>>, <<LandRule>>}
                  [] part \in {"records", "breaking records"} -> {<<LandRule>>}
                  [] OTHER              -> {<<>>}
    /\ prerequisites \in IF part = "planning" THEN StepGraphs ELSE {SourceGraph}
    /\ KnowledgeInit
    /\ DocumentInit
    /\ EligibilityInit
    /\ RecommendationInit
    /\ JourneyInit
    /\ RetrievalInit
    /\ RecordsInit
    /\ part # "retrieval" =>
        /\ vectors = {}
        /\ corpus[3].active
    /\ corpus[1].active /\ corpus[2].active

\* In a behaviour about decisions the fact of the seeded rule changes, this often,
\* to a value that satisfies the rule or to one that does not.
MaxAnswers == 2
LandAnswers(most) ==
    /\ factsVersion' <= most
    /\ \A key \in FactKeys \ {"landHolding"} : facts'[key] = Unanswered
    /\ facts'["landHolding"] \in {Unanswered, Number(0), Number(2000)}

\* In a behaviour about records the runs overlap and nothing fails, or they follow one
\* another and so many steps fail, or calls of an engine that fail a step.
MaxFailures == 2
Failures == Cardinality({s \in Runs \X Targets : outcome[s[1]][s[2]] = "FAILED"})
          + Cardinality({r \in Runs : /\ evalPc[r] = "failed"
                                      /\ outcome[r]["ELIGIBILITY"] = "PENDING"})
          + Cardinality({r \in Runs : /\ \E g \in runLocal[r].generation : recPc[g] = "failed"
                                      /\ outcome[r]["RECOMMENDATION"] = "PENDING"})
Underway == {r \in Runs : runPc[r] # "done" /\ (runPc[r] # "capture" \/ runLocal[r].step > 1)}

Next ==
    \/ /\ part = "knowledge"
       /\ KnowledgeNext
       /\ UNCHANGED <<documentVars, decisionVars, journeyVars, retrievalVars, recordVars,
                      activationVars, part>>
    \/ /\ part = "documents"
       /\ DocumentNext
       /\ UNCHANGED <<knowledgeVars, decisionVars, journeyVars, retrievalVars, recordVars,
                      activationVars, part>>
    \/ /\ part = "rules" /\ factsVersion < 1
       /\ AnswerFact
       /\ \A key \in FactKeys : facts'[key] \in MCSays[key] \cup {Unanswered}
       /\ UNCHANGED <<knowledgeVars, documentVars, recommendationVars, journeyVars, retrievalVars, recordVars,
                      activationVars, part>>
    \/ /\ part = "decisions"
       /\ DecisionNext
       /\ LandAnswers(MaxAnswers)
       /\ UNCHANGED <<knowledgeVars, documentVars, journeyVars, retrievalVars, recordVars,
                      activationVars, part>>
    \/ /\ part = "planning"
       /\ \A r \in JourneyRequests : journeyPc[r] = "idle"
       /\ \E r \in JourneyRequests : GenerateJourney(r)
       /\ UNCHANGED <<knowledgeVars, documentVars, decisionVars, retrievalVars, recordVars,
                      activationVars, part>>
    \/ /\ part = "journeys"
       /\ JourneyNext
       /\ UNCHANGED <<knowledgeVars, documentVars, decisionVars, retrievalVars, recordVars,
                      activationVars, part>>
    \/ /\ part = "retrieval"
       /\ RetrievalNext
       /\ corpus'[1] = corpus[1]
       /\ UNCHANGED <<knowledgeVars, documentVars, decisionVars, journeyVars, recordVars,
                      activationVars, part>>
    \/ /\ part \in {"records", "breaking records"}
       /\ RecordsNext
       /\ LandAnswers(1)
       /\ IF part = "records" THEN Failures' = 0
          ELSE Failures' <= MaxFailures /\ Cardinality(Underway') <= 1
       /\ UNCHANGED <<knowledgeVars, documentVars, journeyVars, retrievalVars, activationVars, part>>
    \/ /\ part = "activation"
       /\ ActivationNext
       /\ UNCHANGED <<knowledgeVars, documentVars, decisionVars, journeyVars, retrievalVars,
                      recordVars, part>>

allVars == <<knowledgeVars, documentVars, decisionVars, journeyVars, retrievalVars,
             recordVars, activationVars, part>>

Spec == Init /\ [][Next]_allVars

\* Every component keeps its types.
TypeOK ==
    /\ KnowledgeTypeOK
    /\ DocumentTypeOK
    /\ EligibilityTypeOK
    /\ RecommendationTypeOK
    /\ JourneyTypeOK
    /\ RetrievalTypeOK
    /\ RecordsTypeOK
===============================================================================

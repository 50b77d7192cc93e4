------------------------------ MODULE Eligibility ------------------------------
(* The eligibility of one citizen for the policies, and its evaluation:         *)
(*   rule-engine.service.ts                      evaluateRule                   *)
(*   SemanticRegistry                            the keys of an attribute       *)
(*   eligibility-evaluation.orchestrator.ts      evaluateEligibility            *)
(*   eligibility.controller.ts, incremental-evaluation.service.ts               *)
(*                                               reEvaluate                     *)
(*   prisma-decision-trace.repository.ts, prisma-eligibility-snapshot.repository.ts *)
(*                                                                              *)
(* An evaluation reads the facts once and stores the verdict two calls later;   *)
(* meanwhile the citizen may answer more.  The rules are those of the seeds or  *)
(* of an administrator's script: no step of the program changes them.           *)
(*                                                                              *)
(* Left out: what an answer says about itself alone, that is aliases of values, *)
(* truth values, dates, empty texts, texts that read as numbers, objects without *)
(* a unit; values a rule expects that are no numbers; the operators REGEX and    *)
(* BOOLEAN; explanations, benefits and opportunities, which are computed from    *)
(* the verdict; metrics.  expectedUnit of a condition is never compiled.         *)
EXTENDS Integers, Sequences, FiniteSets, SemanticRegistry

CONSTANTS
    FactKeys,       \* attribute keys of facts and conditions
    Values,         \* the numbers a rule may expect
    Answers,        \* what a fact may say
    Unanswered,     \* there is no fact
    RuleSets,       \* the sequences of active rules considered
    Evaluations     \* calls of evaluateEligibility and reEvaluate

\* A fact: a number, or a text if that is not NoText; one with a unit of its own is an
\* object.  Numbers are in thousandths, so that a converted one can be told apart.
NoText == ""
Fact(number, text, unit) == [number |-> number, text |-> text, unit |-> unit]
Number(n) == Fact(n, NoText, NoUnit)

\* RuleCondition and RuleGroup rows; a group that is a child has no children that count.
ConditionOperators == {"EQUALS", "NOT_EQUALS", "IN", "NOT_IN", "GREATER_THAN",
                       "GREATER_OR_EQUAL", "LESS_THAN", "LESS_OR_EQUAL", "BETWEEN",
                       "EXISTS", "NOT_EXISTS"}
GroupOperators == {"ALL", "ANY", "NONE", "X_OF_Y"}
ConditionRow == [attribute : FactKeys, operator : ConditionOperators, expected : SUBSET Values]
ChildGroupRow == [operator : GroupOperators, threshold : Int, conditions : Seq(ConditionRow),
                  children : {<<>>}]
RootGroupRow == [operator : GroupOperators, threshold : Int, conditions : Seq(ConditionRow),
                 children : Seq(ChildGroupRow)]

\* A key comes with the other keys of its attribute.
ASSUME EligibilityAssumption ==
    /\ Values \subseteq Nat /\ Unanswered \notin Answers
    /\ Answers \subseteq [number : Nat, text : STRING, unit : STRING]
    /\ \A key \in FactKeys : \A code \in AttributesOf(key) :
        code \in FactKeys /\ LegacyKeys[code] \in Seq(FactKeys)
    /\ RuleSets \subseteq Seq(RootGroupRow)

VARIABLES
    facts,          \* the active facts of the citizen
    factsVersion,   \* how often they changed (history)
    rules,          \* the active rules, as stored
    traces,         \* DecisionTrace rows in the order of their creation
    snapshots,      \* EligibilitySnapshot rows in the order of their creation
    evalPc,         \* where each request is
    evalLocal       \* what it remembers from its earlier calls

eligibilityVars == <<facts, factsVersion, rules, traces, snapshots, evalPc, evalLocal>>

-------------------------------------------------------------------------------
(* Types *)

EligibilityStatus == {"ELIGIBLE", "INELIGIBLE"}

Facts == [FactKeys -> Answers \cup {Unanswered}]

TraceRow == [status : EligibilityStatus, version : Nat]

\* version, began: the facts it rests on, and the number of snapshots when they were
\* read (history).
SnapshotRow == [trace : Nat \ {0}, status : EligibilityStatus, version : Nat, began : Nat]

EvalPC == {"idle", "storeTrace", "storeSnapshot", "report", "done", "failed"}

EvalLocal == [status : EligibilityStatus, version : Nat, began : Nat, trace : Nat]

EligibilityInit ==
    /\ facts \in Facts
    /\ factsVersion = 0
    /\ rules \in RuleSets
    /\ traces = <<>>
    /\ snapshots = <<>>
    /\ evalPc = [r \in Evaluations |-> "idle"]
    /\ evalLocal = [r \in Evaluations |->
                      [status |-> "INELIGIBLE", version |-> 0, began |-> 0, trace |-> 0]]

-------------------------------------------------------------------------------
(* The rule engine *)

\* A condition looks under its own key, then under the legacy keys, then the code.
LookupOrder == [key \in FactKeys |->
    IF AttributesOf(key) = {} THEN <<key>>
    ELSE LET code == CHOOSE c \in AttributesOf(key) : TRUE
         IN  <<key>> \o LegacyKeys[code] \o <<code>>]

Resolved(key, known) ==
    LET order    == LookupOrder[key]
        answered == {i \in DOMAIN order : known[order[i]] # Unanswered}
        first    == CHOOSE i \in answered : \A j \in answered : i <= j
    IN  IF answered = {} THEN Unanswered ELSE known[order[first]]

\* JavaScript takes an answer for true.
Truthy(answer) == answer \notin {Unanswered, Number(0)}
IsNumber(answer) == answer.text = NoText

\* The first companion that says something names the unit, if it is a text; the unit of
\* land comes before that of income, whatever the condition is about.
CompanionKeys(key) == <<key \o "Unit", "landAreaUnit", "incomeUnit">>
CompanionUnit(key, known) ==
    LET order == CompanionKeys(key)
        there == {i \in DOMAIN order : order[i] \in FactKeys /\ Truthy(known[order[i]])}
        says  == known[order[CHOOSE i \in there : \A j \in there : i <= j]]
    IN  IF there # {} /\ says.unit = NoUnit THEN says.text ELSE NoUnit

\* The unit in which the answer a condition finds is read.
UnitOf(key, known) ==
    LET own == Resolved(key, known).unit
    IN  IF own = NoUnit THEN CompanionUnit(key, known) ELSE own

TargetUnit == [key \in FactKeys |->
    IF AttributesOf(key) = {} THEN NoUnit
    ELSE CanonicalUnit(CHOOSE c \in AttributesOf(key) : TRUE)]

\* The answer as it is compared: a number in the canonical unit of its attribute.
Compared(key, known) ==
    LET answer == Resolved(key, known)
    IN  IF IsNumber(answer) /\ TargetUnit[key] # NoUnit /\ UnitOf(key, known) # NoUnit
        THEN [answer EXCEPT !.number = ConvertUnit(@, UnitOf(key, known), TargetUnit[key])]
        ELSE answer

\* applyOperator; a text is no number, and differs from each.
Holds(operator, actual, expected) ==
    LET equal  == IsNumber(actual) /\ actual.number \in expected
        number == actual.number
    IN  \/ operator \in {"EQUALS", "IN"} /\ equal
        \/ operator \in {"NOT_EQUALS", "NOT_IN"} /\ ~equal
        \/ operator = "EXISTS"
        \/ /\ IsNumber(actual)
           /\ \/ operator = "GREATER_THAN" /\ \A e \in expected : number > e
              \/ operator = "GREATER_OR_EQUAL" /\ \A e \in expected : number >= e
              \/ operator = "LESS_THAN" /\ \A e \in expected : number < e
              \/ operator = "LESS_OR_EQUAL" /\ \A e \in expected : number <= e
              \/ operator = "BETWEEN" /\ \E low, high \in expected : low <= number /\ number <= high

\* What is not there differs from everything.
UnansweredDiffers(c, known) ==
    IF Resolved(c.attribute, known) = Unanswered
    THEN c.operator \in {"NOT_EXISTS", "NOT_EQUALS", "NOT_IN"}
    ELSE Holds(c.operator, Compared(c.attribute, known), c.expected)

\* evaluateCondition
ConditionPassed(c, known) ==
    IF Resolved(c.attribute, known) = Unanswered
    THEN c.operator = "NOT_EXISTS"
    ELSE Holds(c.operator, Compared(c.attribute, known), c.expected)

\* The switch of evaluateGroup over the results of conditions and child groups.
Combined(group, results) ==
    LET passed == Cardinality({i \in DOMAIN results : results[i]})
    IN  results = <<>> \/
        CASE group.operator = "ALL"    -> passed = Len(results)
          [] group.operator = "ANY"    -> passed > 0
          [] group.operator = "NONE"   -> passed = 0
          [] group.operator = "X_OF_Y" -> passed >= IF group.threshold = 0 THEN 1 ELSE group.threshold

ConditionResults(group, known) ==
    [i \in DOMAIN group.conditions |-> ConditionPassed(group.conditions[i], known)]

\* findAllActiveRules loads two levels: a child group comes without its own children.
ChildPassed(group, known) == Combined(group, ConditionResults(group, known))

RulePassed(root, known) ==
    Combined(root, ConditionResults(root, known)
                   \o [i \in DOMAIN root.children |-> ChildPassed(root.children[i], known)])

Verdict(known) ==
    IF rules # <<>> /\ \A i \in DOMAIN rules : RulePassed(rules[i], known)
    THEN "ELIGIBLE" ELSE "INELIGIBLE"

-------------------------------------------------------------------------------
(* The stored rows *)

\* TraceStoreService.createTrace
NewTrace(local) == [status |-> local.status, version |-> local.version]

\* SnapshotService.createEligibilitySnapshot
NewSnapshot(local) == [trace |-> local.trace, status |-> local.status,
                       version |-> local.version, began |-> local.began]

\* findLatestByUserId; 0 if there is none.
LatestSnapshot == Len(snapshots)

\* replayDecision: the status of a snapshot against that of the trace it names.
IsMatch(snapshot) == snapshot.status = traces[snapshot.trace].status

-------------------------------------------------------------------------------
(* Steps of an evaluation *)

EvalGo(r, from, to) ==
    /\ evalPc[r] = from
    /\ evalPc' = [evalPc EXCEPT ![r] = to]

\* getAffectedRuleCodes: nothing calls buildIndex, so that the index stays empty.
AffectedRules(changed) == {}

\* buildContext; the rules are loaded, compiled and evaluated without a further write.
Evaluate(r) ==
    /\ EvalGo(r, "idle", "storeTrace")
    /\ evalLocal' = [evalLocal EXCEPT ![r] =
         [@ EXCEPT !.status = Verdict(facts), !.version = factsVersion, !.began = LatestSnapshot]]
    /\ UNCHANGED <<facts, factsVersion, rules, traces, snapshots>>

\* reEvaluate with changed attributes: the latest snapshot is good enough if there is one.
SkipReEvaluation(r) ==
    /\ {changed \in SUBSET FactKeys \ {{}} : AffectedRules(changed) = {}} # {}
    /\ LatestSnapshot # 0
    /\ EvalGo(r, "idle", "done")
    /\ UNCHANGED <<facts, factsVersion, rules, traces, snapshots, evalLocal>>

\* createTrace; without any rule the version it names does not exist.
StoreTrace(r) ==
    /\ EvalGo(r, "storeTrace", IF rules = <<>> THEN "failed" ELSE "storeSnapshot")
    /\ IF rules = <<>>
       THEN UNCHANGED <<traces, evalLocal>>
       ELSE /\ traces' = Append(traces, NewTrace(evalLocal[r]))
            /\ evalLocal' = [evalLocal EXCEPT ![r].trace = Len(traces) + 1]
    /\ UNCHANGED <<facts, factsVersion, rules, snapshots>>

\* createSnapshot, with the result of the policy, benefits and opportunities.
StoreSnapshot(r) ==
    /\ EvalGo(r, "storeSnapshot", "report")
    /\ snapshots' = Append(snapshots, NewSnapshot(evalLocal[r]))
    /\ UNCHANGED <<facts, factsVersion, rules, traces, evalLocal>>

\* recordMetrics and publish
ReportEvaluation(r) ==
    /\ EvalGo(r, "report", "done")
    /\ UNCHANGED <<facts, factsVersion, rules, traces, snapshots, evalLocal>>

\* A call is rejected, or the process dies, between two calls.
FailEvaluation(r) ==
    /\ evalPc[r] \notin {"idle", "done", "failed"}
    /\ evalPc' = [evalPc EXCEPT ![r] = "failed"]
    /\ UNCHANGED <<facts, factsVersion, rules, traces, snapshots, evalLocal>>

\* The citizen module stores another value, or the first one, for a key.
AnswerFact == \E key \in FactKeys, answer \in Answers :
    /\ facts[key] # answer
    /\ facts' = [facts EXCEPT ![key] = answer]
    /\ factsVersion' = factsVersion + 1
    /\ UNCHANGED <<rules, traces, snapshots, evalPc, evalLocal>>

EvaluationStep(r) ==
    \/ Evaluate(r) \/ SkipReEvaluation(r)
    \/ StoreTrace(r) \/ StoreSnapshot(r) \/ ReportEvaluation(r)
    \/ FailEvaluation(r)

EligibilityNext == AnswerFact \/ \E r \in Evaluations : EvaluationStep(r)

EligibilitySpec == EligibilityInit /\ [][EligibilityNext]_eligibilityVars

-------------------------------------------------------------------------------
(* Properties *)

EligibilityTypeOK ==
    /\ facts \in Facts
    /\ factsVersion \in Nat
    /\ traces \in Seq(TraceRow)
    /\ snapshots \in Seq(SnapshotRow)
    /\ evalPc \in [Evaluations -> EvalPC]
    /\ evalLocal \in [Evaluations -> EvalLocal]

\* Only these ask for something not to be there, or not to be so.
PositiveGroup(group) ==
    /\ group.operator # "NONE"
    /\ \A i \in DOMAIN group.conditions : group.conditions[i].operator # "NOT_EXISTS"
Positive(root) ==
    PositiveGroup(root) /\ \A i \in DOMAIN root.children : PositiveGroup(root.children[i])

\* An answer to a question that was open under every key of its attribute never turns an
\* eligible citizen into an ineligible one, as long as no rule asks for an absence and the
\* answer is not the unit in which a number answered before is read: whatever the operators,
\* thresholds and nesting of the groups.  The unit of a number may well cost an eligibility.
AnsweringNeverHurts == [][
    /\ Verdict(facts) = "ELIGIBLE" /\ \A i \in DOMAIN rules : Positive(rules[i])
    /\ \A key \in FactKeys : facts'[key] # facts[key] =>
        \A k \in FactKeys : AttributesOf(k) \cap AttributesOf(key) # {} \/ k = key
                              => facts[k] = Unanswered
    /\ \A key \in FactKeys : TargetUnit[key] # NoUnit /\ Resolved(key, facts) # Unanswered
                                => UnitOf(key, facts') = UnitOf(key, facts)
    => Verdict(facts') = "ELIGIBLE"
    ]_eligibilityVars
===============================================================================

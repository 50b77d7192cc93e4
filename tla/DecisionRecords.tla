---------------------------- MODULE DecisionRecords ----------------------------
(* What a re-evaluation records of the decisions it renews, together with the   *)
(* evaluations and generations it calls, and the activation of a policy:        *)
(*   re-evaluation-executor.service.ts       the try block of executePlan       *)
(*   eligibility-, recommendation-, journey-re-evaluation.service.ts            *)
(*   decision-diff.service.ts                computeDiff                        *)
(*   policy-change.service.ts                processPolicyActivation            *)
(*   prisma-decision-re-evaluation.repository.ts  snapshots, diffs, activations *)
(*                                                                              *)
(* A run is one executePlan of the three targets of a job; its lease, its step  *)
(* rows and the stale markers are in ReEvaluation.  A state is named by its row: *)
(* the eligibility snapshot, the portfolio or the journey; 0 is no state.       *)
(*                                                                              *)
(* Left out: the steps of a journey's creation, which are in ApplicationJourney; *)
(* checksums, which are computed of what is stored beside them.                 *)
EXTENDS Recommendation

CONSTANTS
    Runs,           \* calls of executePlan; a run evaluates under its own name
    AccountKeys,    \* bankAccountNumber, aadhaarNumber
    LandKey,        \* landHolding
    Officers,       \* calls of processPolicyActivation, for one version of one policy
    Nobody          \* no officer

ASSUME RecordsAssumption ==
    Runs \subseteq Evaluations /\ Nobody \notin Officers /\ IsFiniteSet(AccountKeys)

VARIABLES
    readiness,      \* readinessScore of the ApplicationJourney rows, in their order
    captured,       \* DecisionStateSnapshot rows
    diffs,          \* DecisionDiff rows
    runPc,          \* where each run is
    runLocal,       \* what it remembers of the step it executes
    outcome,        \* what became of the steps of each run
    activation,     \* activatedBy of the PolicyVersionActivation row
    officerPc,      \* where each activation is
    told            \* activatedBy of the answer

recordVars == <<readiness, captured, diffs, runPc, runLocal, outcome>>
activationVars == <<activation, officerPc, told>>

-------------------------------------------------------------------------------
(* Types *)

\* In the order of their steps.
Order == <<"ELIGIBILITY", "RECOMMENDATION", "JOURNEY">>
Targets == {Order[i] : i \in DOMAIN Order}

Captured == [run : Runs, target : Targets, type : {"BEFORE", "AFTER"}, state : Nat]

Diff == [run : Runs, target : Targets, before : Nat, after : Nat, material : BOOLEAN]

RunPC == {"capture", "engine", "done"}

\* score is what the journey engine computed before it stores the journey.
RunLocal == [step : DOMAIN Order, before : Nat, after : Nat, score : Nat,
             generation : SUBSET Generations]

RecordsInit ==
    /\ readiness = <<>>
    /\ captured = {}
    /\ diffs = {}
    /\ runPc = [r \in Runs |-> "capture"]
    /\ runLocal = [r \in Runs |-> [step |-> 1, before |-> 0, after |-> 0, score |-> 0,
                                   generation |-> {}]]
    /\ outcome = [r \in Runs |-> [t \in Targets |-> "PENDING"]]
    /\ activation = Nobody
    /\ officerPc = [o \in Officers |-> "idle"]
    /\ told = [o \in Officers |-> Nobody]

-------------------------------------------------------------------------------
(* States and their differences *)

Target(r) == Order[runLocal[r].step]

\* getLatestState of the three services.
LatestState(target) ==
    CASE target = "ELIGIBILITY"    -> LatestSnapshot
      [] target = "RECOMMENDATION" -> Len(portfolios)
      [] target = "JOURNEY"        -> Len(readiness)

\* computeJourneyReadiness by the terms that vary: nothing, half or all for the accounts,
\* half or all for the documents.  No step of a new plan is completed.
Known(key) == key \in FactKeys /\ Truthy(facts[key])
Readiness == Cardinality({key \in AccountKeys : Known(key)}) + IF Known(LandKey) THEN 2 ELSE 1

StatusIn(state) == IF state = 0 THEN "UNKNOWN" ELSE snapshots[state].status
ReadinessIn(state) == IF state = 0 THEN 0 ELSE readiness[state]

\* computeDiff.  The items of a recommendation are looked for in the portfolio before, and
\* in the snapshot after, which has none.
Material(target, before, after) ==
    CASE target = "ELIGIBILITY"    -> StatusIn(before) # StatusIn(after)
      [] target = "RECOMMENDATION" -> before # 0
      [] target = "JOURNEY"        -> ReadinessIn(before) # ReadinessIn(after)

\* Variant: what was there before is read when the difference is computed.
ComparedWithLatest(r) ==
    [run |-> r, target |-> Target(r), before |-> runLocal[r].before, after |-> runLocal[r].after,
     material |-> Material(Target(r), LatestState(Target(r)), runLocal[r].after)]

\* The row of createDiff.
NewDiff(r) ==
    [run |-> r, target |-> Target(r), before |-> runLocal[r].before, after |-> runLocal[r].after,
     material |-> Material(Target(r), runLocal[r].before, runLocal[r].after)]

-------------------------------------------------------------------------------
(* Steps of a run *)

RunGo(r, from, to) ==
    /\ runPc[r] = from
    /\ runPc' = [runPc EXCEPT ![r] = to]

\* The row of createStateSnapshot.
StateSnapshot(r, type, state) == [run |-> r, target |-> Target(r), type |-> type, state |-> state]

\* getLatestState, which is captured before the engine is called.
CaptureBefore(r) ==
    /\ RunGo(r, "capture", "engine")
    /\ captured' = captured \cup {StateSnapshot(r, "BEFORE", LatestState(Target(r)))}
    /\ runLocal' = [runLocal EXCEPT ![r] = [@ EXCEPT
         !.before = LatestState(Target(r)), !.after = 0, !.score = 0]]
    /\ UNCHANGED <<decisionVars, readiness, diffs, outcome>>

\* A step of evaluateEligibility; the row it stores is the state after it.
EvaluateAgain(r) ==
    /\ runPc[r] = "engine" /\ Target(r) = "ELIGIBILITY" /\ evalPc[r] \notin {"done", "failed"}
    /\ \/ Evaluate(r) \/ StoreTrace(r) \/ StoreSnapshot(r) \/ ReportEvaluation(r)
       \/ FailEvaluation(r)
    /\ runLocal' = [runLocal EXCEPT ![r].after =
                      IF snapshots' # snapshots THEN Len(snapshots') ELSE @]
    /\ UNCHANGED <<recommendationVars, readiness, captured, diffs, runPc, outcome>>

\* A step of generateRecommendations, in a call of the run's own; its snapshot names the
\* portfolio it stored.
GenerateAgain(r) == \E g \in Generations :
    /\ runPc[r] = "engine" /\ Target(r) = "RECOMMENDATION"
    /\ IF runLocal[r].generation = {} THEN recPc[g] = "idle" ELSE g \in runLocal[r].generation
    /\ GenerationStep(g)
    /\ runLocal' = [runLocal EXCEPT ![r].generation = {g}, ![r].after = recLocal'[g].portfolio]
    /\ UNCHANGED <<readiness, captured, diffs, runPc, outcome>>

\* generateJourney: the facts are read and the readiness computed, ...
PlanAgain(r) ==
    /\ runPc[r] = "engine" /\ Target(r) = "JOURNEY" /\ runLocal[r].score = 0
    /\ runLocal' = [runLocal EXCEPT ![r].score = Readiness]
    /\ UNCHANGED <<decisionVars, readiness, captured, diffs, runPc, outcome>>

\* ... and the journey created with it.
CreateJourneyAgain(r) ==
    /\ runPc[r] = "engine" /\ Target(r) = "JOURNEY" /\ runLocal[r].score # 0
    /\ runLocal[r].after = 0
    /\ readiness' = Append(readiness, runLocal[r].score)
    /\ runLocal' = [runLocal EXCEPT ![r].after = Len(readiness) + 1]
    /\ UNCHANGED <<decisionVars, captured, diffs, runPc, outcome>>

\* The engine returns the state it created, ...
Returned(r) ==
    CASE Target(r) = "ELIGIBILITY"    -> evalPc[r] = "done"
      [] Target(r) = "RECOMMENDATION" -> \E g \in runLocal[r].generation : recPc[g] = "done"
      [] Target(r) = "JOURNEY"        -> runLocal[r].after # 0

\* ... or throws.
Thrown(r) ==
    CASE Target(r) = "ELIGIBILITY"    -> evalPc[r] = "failed"
      [] Target(r) = "RECOMMENDATION" -> \E g \in runLocal[r].generation : recPc[g] = "failed"
      [] Target(r) = "JOURNEY"        -> TRUE

AfterRow(r) == StateSnapshot(r, "AFTER", runLocal[r].after)

\* The step ends with this status, and the next one begins.
EndStep(r, status) ==
    /\ outcome' = [outcome EXCEPT ![r][Target(r)] = status]
    /\ IF runLocal[r].step < Len(Order)
       THEN /\ runPc' = [runPc EXCEPT ![r] = "capture"]
            /\ runLocal' = [runLocal EXCEPT ![r].step = @ + 1]
       ELSE /\ runPc' = [runPc EXCEPT ![r] = "done"]
            /\ UNCHANGED runLocal
    /\ UNCHANGED <<decisionVars, readiness>>

\* The state after and the difference are stored and the step updated.  Nobody reads the
\* rows of a step before it ends: the three calls are one step here, ...
SucceedStep(r) ==
    /\ runPc[r] = "engine" /\ Returned(r)
    /\ captured' = captured \cup {AfterRow(r)}
    /\ diffs' = diffs \cup {NewDiff(r)}
    /\ EndStep(r, "SUCCEEDED")

\* ... each of which may be rejected.  The catch block also ends a step whose state before
\* could not be read or stored, or whose engine threw.
FailRunStep(r) ==
    /\ \/ runPc[r] = "capture" /\ UNCHANGED <<captured, diffs>>
       \/ runPc[r] = "engine" /\ (Thrown(r) \/ Returned(r)) /\ UNCHANGED <<captured, diffs>>
       \/ runPc[r] = "engine" /\ Returned(r)
          /\ captured' = captured \cup {AfterRow(r)}
          /\ \/ UNCHANGED diffs
             \/ diffs' = diffs \cup {NewDiff(r)}
    /\ EndStep(r, "FAILED")

RunStep(r) ==
    \/ CaptureBefore(r)
    \/ EvaluateAgain(r) \/ GenerateAgain(r) \/ PlanAgain(r) \/ CreateJourneyAgain(r)
    \/ SucceedStep(r)
    \/ FailRunStep(r)

\* The citizen answers meanwhile.
RecordsNext ==
    \/ AnswerFact /\ UNCHANGED <<recommendationVars, recordVars>>
    \/ \E r \in Runs : RunStep(r)

-------------------------------------------------------------------------------
(* Activation of a policy version *)

OfficerGo(o, from, to) ==
    /\ officerPc[o] = from
    /\ officerPc' = [officerPc EXCEPT ![o] = to]

\* findPolicyActivation: what is activated is reported as it is.
FindActivation(o) ==
    /\ OfficerGo(o, "idle", IF activation = Nobody THEN "create" ELSE "answered")
    /\ told' = [told EXCEPT ![o] = activation]
    /\ UNCHANGED activation

\* createPolicyActivation; the unique key (policyId, version) refuses a second row.
CreateActivation(o) ==
    /\ OfficerGo(o, "create", IF activation = Nobody THEN "answered" ELSE "refused")
    /\ IF activation = Nobody
       THEN activation' = o /\ told' = [told EXCEPT ![o] = o]
       ELSE UNCHANGED <<activation, told>>

ActivationNext == \E o \in Officers : FindActivation(o) \/ CreateActivation(o)

\* Activations touch nothing a re-evaluation records.
RecordsSpec ==
    /\ EligibilityInit /\ RecommendationInit /\ RecordsInit
    /\ [][\/ RecordsNext /\ UNCHANGED activationVars
          \/ ActivationNext /\ UNCHANGED <<decisionVars, recordVars>>
         ]_<<decisionVars, recordVars, activationVars>>

-------------------------------------------------------------------------------
(* Properties *)

RecordsTypeOK ==
    /\ readiness \in Seq(Nat)
    /\ captured \subseteq Captured
    /\ diffs \subseteq Diff
    /\ runPc \in [Runs -> RunPC]
    /\ runLocal \in [Runs -> RunLocal]
    /\ outcome \in [Runs -> [Targets -> {"PENDING", "SUCCEEDED", "FAILED"}]]
    /\ activation \in Officers \cup {Nobody}
    /\ officerPc \in [Officers -> {"idle", "create", "answered", "refused"}]
    /\ told \in [Officers -> Officers \cup {Nobody}]

\* However runs and answers overlap and wherever a step breaks: a step that succeeded has
\* one record of the state before it and one of the state it created, and its difference
\* is between those two; an eligibility or a readiness that differs from the one it
\* replaced is reported as material, and one that does not is not, unless another run
\* stored a state in between; an eligibility nobody reports is that of a step that failed
\* or has not come so far; and every officer who is told of an activation is told of the
\* same one.  (ReEvaluationExecutorService.executePlan, PolicyChangeService)
ChangesReported ==
    /\ \A r \in Runs, t \in Targets : outcome[r][t] = "SUCCEEDED" =>
        \E d \in diffs :
            /\ d.run = r /\ d.target = t /\ d.before < d.after
            /\ {c \in captured : c.run = r /\ c.target = t} =
                 {[run |-> r, target |-> t, type |-> "BEFORE", state |-> d.before],
                  [run |-> r, target |-> t, type |-> "AFTER", state |-> d.after]}
    /\ \A d \in diffs : d.before = d.after - 1 =>
        /\ d.target = "ELIGIBILITY" =>
             (d.material <=> StatusIn(d.after - 1) # StatusIn(d.after))
        /\ d.target = "JOURNEY" =>
             (d.material <=> ReadinessIn(d.after - 1) # ReadinessIn(d.after))
    /\ \A state \in DOMAIN snapshots :
        \/ \E d \in diffs : d.target = "ELIGIBILITY" /\ d.after = state
        \/ \E r \in Runs : \/ runLocal[r].after = state /\ Target(r) = "ELIGIBILITY"
                           \/ outcome[r]["ELIGIBILITY"] = "FAILED"
        \/ diffs = {} /\ captured = {}
    /\ \A o \in Officers : officerPc[o] = "answered" => told[o] = activation
===============================================================================

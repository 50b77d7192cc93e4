-------------------------- MODULE ApplicationJourney --------------------------
(* The journey of an application from its blueprint to its stored snapshot:     *)
(*   application-journey.orchestrator.ts    generateJourney, completeJourneyStep *)
(*   journey-blueprint.service.ts           resolveInheritedSteps               *)
(*   journey-dependency-graph.service.ts    topologicalSort, evaluateStepStatuses *)
(*   journey-constraint.engine.ts           evaluateStepCompletionConstraints    *)
(*   prisma-application-journey.repository.ts                                   *)
(*                                                                              *)
(* Steps are numbered by their order.  A plan is made before anything is stored, *)
(* and the journey, its timeline and its snapshot are stored one after another.  *)
(*                                                                              *)
(* Left out: checklist, action plan, urgency and readiness, which are computed   *)
(* and returned but not stored; analytics; deadlines, documents and              *)
(* verification of a step, which completeJourneyStep always declares in order.   *)
EXTENDS Naturals, Sequences, FiniteSets, SequencesExt

CONSTANTS
    Blueprints,         \* JourneyBlueprint rows
    NoBlueprint,        \* parentBlueprintId of a root
    Parent,             \* blueprint -> parentBlueprintId
    DefaultSteps,       \* blueprint -> the steps it adds
    StepGraphs,         \* prerequisites considered: step -> the steps it waits for
    JourneyRequests     \* calls of the orchestrator

Steps == UNION {DefaultSteps[b] : b \in Blueprints}

ASSUME JourneyAssumption ==
    /\ NoBlueprint \notin Blueprints
    /\ Parent \in [Blueprints -> Blueprints \cup {NoBlueprint}]
    /\ DefaultSteps \in [Blueprints -> SUBSET Nat]
    /\ IsFiniteSet(Blueprints) /\ \A b \in Blueprints : IsFiniteSet(DefaultSteps[b])
    /\ StepGraphs \subseteq [Steps -> SUBSET Steps]

VARIABLES
    prerequisites,  \* prerequisiteStepIds of every step
    journeys,       \* ApplicationJourney rows in the order of their creation
    timeline,       \* journeys with a JOURNEY_CREATED event
    journeySnapshots, \* JourneySnapshot rows: the journey and stepsCount
    journeyPc,      \* where each request is
    journeyLocal    \* what it remembers: blueprint, plan and journey

journeyVars == <<prerequisites, journeys, timeline, journeySnapshots, journeyPc, journeyLocal>>

-------------------------------------------------------------------------------
(* Types *)

\* completed: its steps that are stored as COMPLETED; stored: all that are stored.
JourneyRow == [blueprint : Blueprints, stored : SUBSET Steps, completed : SUBSET Steps]

JourneyPC == {"idle", "createJourney", "recordCreated", "createSnapshot", "publish",
              "done", "failed"}

JourneyInit ==
    /\ prerequisites \in StepGraphs
    /\ journeys = <<>>
    /\ timeline = {}
    /\ journeySnapshots = <<>>
    /\ journeyPc = [r \in JourneyRequests |-> "idle"]
    /\ journeyLocal = [r \in JourneyRequests |->
                         [blueprint |-> NoBlueprint, plan |-> <<>>, journey |-> 0]]

-------------------------------------------------------------------------------
(* Planning *)

\* The inheritance chain of resolveInheritedSteps, from the blueprint to its root.
Ancestor(b) ==
    LET up[n \in 0..Cardinality(Blueprints)] ==
          IF n = 0 THEN b ELSE IF up[n - 1] = NoBlueprint THEN NoBlueprint ELSE Parent[up[n - 1]]
    IN  up
Chain(b) == {Ancestor(b)[n] : n \in 0..Cardinality(Blueprints)} \ {NoBlueprint}

\* The merged steps.
InheritedSteps(b) == UNION {DefaultSteps[c] : c \in Chain(b)}

\* Steps sorted by their order.
InOrder(steps) == [i \in 1..Cardinality(steps) |->
    CHOOSE s \in steps : Cardinality({t \in steps : t < s}) = i - 1]

\* A prerequisite that is not among the steps counts for nothing here ...
Waiting(graph, s, steps) == graph[s] \cap steps

\* Degree zero is reached early: at the first prerequisite that is met.
ReleasedByFirst(graph, steps, u, st) ==
    {s \in steps : u \in Waiting(graph, s, steps) /\ s \notin ToSet(st.sorted) \cup ToSet(st.queue)}

\* The steps whose last open prerequisite is u.
Released(graph, steps, u, st) ==
    {s \in steps : /\ u \in Waiting(graph, s, steps)
                   /\ Waiting(graph, s, steps) \subseteq ToSet(st.sorted) \cup {u}}

\* One turn of the while loop of topologicalSort; st is its queue and its result.
SortTurn(graph, steps, st) ==
    IF st.queue = <<>> THEN st
    ELSE LET u == Head(st.queue)
         IN  [queue |-> Tail(st.queue) \o InOrder(Released(graph, steps, u, st)),
              sorted |-> Append(st.sorted, u)]

\* sortedIds at the end of the loop.
Sorted(graph, steps) ==
    LET start == [queue |-> InOrder({s \in steps : Waiting(graph, s, steps) = {}}),
                  sorted |-> <<>>]
        turn[n \in 0..Cardinality(steps)] ==
            IF n = 0 THEN start ELSE SortTurn(graph, steps, turn[n - 1])
    IN  turn[Cardinality(steps)].sorted

\* ... but it blocks the step in evaluateStepStatuses.
StatusOf(graph, s) == IF graph[s] = {} THEN "READY" ELSE "BLOCKED"

\* createPlanForBlueprint
Plan(graph, b) ==
    LET order == Sorted(graph, InheritedSteps(b))
    IN  [i \in DOMAIN order |-> [step |-> order[i], status |-> StatusOf(graph, order[i])]]

\* topologicalSort throws.
Circular(graph, b) == Len(Plan(graph, b)) # Cardinality(InheritedSteps(b))

-------------------------------------------------------------------------------
(* Steps of a request *)

JourneyGo(r, from, to) ==
    /\ journeyPc[r] = from
    /\ journeyPc' = [journeyPc EXCEPT ![r] = to]
    /\ UNCHANGED prerequisites

\* generateJourney: the blueprint of the policy, or that of PM-KISAN, and its plan.
GenerateJourney(r) == \E b \in Blueprints :
    /\ JourneyGo(r, "idle", IF Circular(prerequisites, b) THEN "failed" ELSE "createJourney")
    /\ journeyLocal' = [journeyLocal EXCEPT ![r].blueprint = b, ![r].plan = Plan(prerequisites, b)]
    /\ UNCHANGED <<journeys, timeline, journeySnapshots>>

\* createJourney stores the row; nothing stores its steps.
CreateJourney(r) ==
    /\ JourneyGo(r, "createJourney", "recordCreated")
    /\ journeys' = Append(journeys, [blueprint |-> journeyLocal[r].blueprint,
                                     stored |-> {}, completed |-> {}])
    /\ journeyLocal' = [journeyLocal EXCEPT ![r].journey = Len(journeys) + 1]
    /\ UNCHANGED <<timeline, journeySnapshots>>

\* recordTimelineEvent
RecordCreated(r) ==
    /\ JourneyGo(r, "recordCreated", "createSnapshot")
    /\ timeline' = timeline \cup {journeyLocal[r].journey}
    /\ UNCHANGED <<journeys, journeySnapshots, journeyLocal>>

\* JourneySnapshotService.createSnapshot, without the checksum.
NewJourneySnapshot(local) == [journey |-> local.journey, stepsCount |-> Len(local.plan)]

CreateJourneySnapshot(r) ==
    /\ JourneyGo(r, "createSnapshot", "publish")
    /\ journeySnapshots' = Append(journeySnapshots, NewJourneySnapshot(journeyLocal[r]))
    /\ UNCHANGED <<journeys, timeline, journeyLocal>>

\* recordAnalytics and publish
PublishJourney(r) ==
    /\ JourneyGo(r, "publish", "done")
    /\ UNCHANGED <<journeys, timeline, journeySnapshots, journeyLocal>>

\* The constraints of completeJourneyStep: every stored step, the step itself among
\* them, has to be COMPLETED.
Completable(row, s) == s \in row.stored /\ row.stored \subseteq row.completed

\* completeJourneyStep; its reads and updateStepStatus are one step here, since a journey
\* without stored steps never lets one complete.
CompleteStep(r) == \E j \in DOMAIN journeys, s \in Steps :
    /\ JourneyGo(r, "idle", IF Completable(journeys[j], s) THEN "done" ELSE "failed")
    /\ journeys' = [journeys EXCEPT ![j].completed =
                      IF Completable(journeys[j], s) THEN @ \cup {s} ELSE @]
    /\ UNCHANGED <<timeline, journeySnapshots, journeyLocal>>

\* A call is rejected, or the process dies, between two calls.
FailJourney(r) ==
    /\ journeyPc[r] \notin {"idle", "done", "failed"}
    /\ journeyPc' = [journeyPc EXCEPT ![r] = "failed"]
    /\ UNCHANGED <<prerequisites, journeys, timeline, journeySnapshots, journeyLocal>>

JourneyStep(r) ==
    \/ GenerateJourney(r) \/ CreateJourney(r) \/ RecordCreated(r)
    \/ CreateJourneySnapshot(r) \/ PublishJourney(r)
    \/ CompleteStep(r)
    \/ FailJourney(r)

JourneyNext == \E r \in JourneyRequests : JourneyStep(r)

JourneySpec == JourneyInit /\ [][JourneyNext]_journeyVars

-------------------------------------------------------------------------------
(* Properties *)

JourneyTypeOK ==
    /\ prerequisites \in [Steps -> SUBSET Steps]
    /\ journeys \in Seq(JourneyRow)
    /\ timeline \subseteq DOMAIN journeys
    /\ \A i \in DOMAIN journeySnapshots : journeySnapshots[i].journey \in DOMAIN journeys
    /\ journeyPc \in [JourneyRequests -> JourneyPC]
    /\ \A r \in JourneyRequests : journeyLocal[r].blueprint \in Blueprints \cup {NoBlueprint}

\* The steps of a plan can be ranked so that each comes after those it waits for.
Orderable(graph, steps) == \E rank \in [steps -> 1..Cardinality(steps)] :
    \A s \in steps : \A p \in Waiting(graph, s, steps) : rank[p] < rank[s]

\* Planning fails exactly when the prerequisites that are present form a cycle; a plan
\* that is made has every inherited step once, each after the steps it waits for, and
\* offers exactly those that wait for nothing, absent steps included; and a snapshot
\* counts the steps of the plan its journey was created with.
PlanFollowsPrerequisites ==
    /\ \A r \in JourneyRequests : journeyLocal[r].blueprint # NoBlueprint =>
        LET steps == InheritedSteps(journeyLocal[r].blueprint)
            plan  == journeyLocal[r].plan
        IN  /\ Orderable(prerequisites, steps) <=> Len(plan) = Cardinality(steps)
            /\ Len(plan) < Cardinality(steps) => journeyPc[r] = "failed" /\ journeyLocal[r].journey = 0
            /\ \A i, j \in DOMAIN plan :
                /\ plan[i].step = plan[j].step => i = j
                /\ plan[j].step \in prerequisites[plan[i].step] => j < i
            /\ \A i \in DOMAIN plan :
                /\ plan[i].step \in steps
                /\ plan[i].status = "READY" <=> prerequisites[plan[i].step] = {}
    /\ \A i \in DOMAIN journeySnapshots :
        LET snapshot == journeySnapshots[i]
        IN  /\ snapshot.journey \in timeline
            /\ snapshot.stepsCount = Cardinality(InheritedSteps(journeys[snapshot.journey].blueprint))
===============================================================================

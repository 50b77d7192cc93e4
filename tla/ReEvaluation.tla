----------------------------- MODULE ReEvaluation -----------------------------
(* Re-evaluation of one citizen's decisions when a fact changes:               *)
(*   decision-re-evaluation.orchestrator.ts      triggerReEvaluation           *)
(*   services/impact-analysis.service.ts         analyzeAndPersistImpact       *)
(*   services/re-evaluation-planner.service.ts   createPlan                    *)
(*   services/re-evaluation-executor.service.ts  executePlan                   *)
(*   services/stale-state.service.ts             markStale, conditionalClear   *)
(*   repositories/prisma-decision-re-evaluation.repository.ts                  *)
(*                                                                            *)
(* A handler is one running call of triggerReEvaluation.  It creates a job for *)
(* an idempotency key it finds unused, plans one step for each downstream      *)
(* target, and executes the plan itself: executePlan has no other caller.      *)
(* Jobs of several keys run concurrently and share one stale marker per target.*)
(*                                                                            *)
(* Left out: state snapshots and diffs, which are in DecisionRecords (that      *)
(* writing one may throw is kept); the lease's expiry, which no other worker of *)
(* the same job waits for.                                                      *)
EXTENDS Integers, Sequences, FiniteSets

CONSTANTS
    Jobs,           \* idempotency keys; a key names its job
    NoJob,          \* no key
    Handlers,       \* concurrent calls of triggerReEvaluation
    Targets,        \* ELIGIBILITY, RECOMMENDATION, JOURNEY
    SourceEvents,   \* domain events a trigger may quote
    TargetOrder,    \* the targets in topological order
    TriggerType,    \* triggerType of each job
    FactVersion,    \* triggerEntityVersion of each job: its dependency fingerprint
    SourceEvent,    \* sourceEventId of each job
    MaxCrashes      \* bound: jobs whose handler dies

ASSUME ReEvaluationAssumption ==
    /\ NoJob \notin Jobs
    /\ TargetOrder \in Seq(Targets)
    /\ \A m, n \in 1..Len(TargetOrder) : TargetOrder[m] = TargetOrder[n] => m = n
    /\ DOMAIN TriggerType = Jobs
    /\ FactVersion \in [Jobs -> Nat \ {0}]
    /\ SourceEvent \in [Jobs -> SourceEvents]
    /\ MaxCrashes \in Nat

VARIABLES
    job,            \* status of each DecisionReEvaluation row
    step,           \* status of each DecisionReEvaluationStep row, by job and target
    impact,         \* DecisionImpact rows, by source event and target: their job
    marker,         \* StaleState rows of the citizen, by target
    completion,     \* the evt_reeval_ event of each job: the status it reports
    pc,             \* where each handler is
    running,        \* the job it creates and executes
    next,           \* how many targets of its plan it is done with
    successes,      \* its local stepSuccesses
    failures,       \* its local stepFailures
    newest,         \* history: newest fact version that marked each target stale and that
                    \* no clearing under this version or a newer one has followed; 0: none
    refused,        \* history: jobs whose handler met another's impact row
    crashed         \* history: jobs whose handler died

rowVars     == <<job, step, impact, marker, completion>>
handlerVars == <<pc, running, next, successes, failures>>
historyVars == <<newest, refused, crashed>>
vars == <<rowVars, handlerVars, historyVars>>

-------------------------------------------------------------------------------
(* Types *)

Final == {"SUCCEEDED", "PARTIALLY_COMPLETED", "FAILED"}
JobStatus == {"ABSENT", "PENDING", "RUNNING"} \cup Final
StepStatus == {"ABSENT", "PENDING", "RUNNING", "SUCCEEDED", "FAILED"}

\* by is the row's reEvaluationId, version its dependencyFingerprintSha256.
Marker == [status : {"ABSENT", "STALE", "CLEARED"}, version : Nat, by : Jobs \cup {NoJob}]
NoMarker == [status |-> "ABSENT", version |-> 0, by |-> NoJob]

\* Inside the try block of executePlan a rejected call is caught.
TryPC == {"startStep", "evaluate", "findMarker", "clearMarker", "finishStep"}
PC == {"idle", "create", "findImpact", "createImpact", "createStep", "lease",
       "failStep", "markStale", "finalize"} \cup TryPC

Init ==
    /\ job = [j \in Jobs |-> "ABSENT"]
    /\ step = [j \in Jobs |-> [t \in Targets |-> "ABSENT"]]
    /\ impact = [e \in SourceEvents |-> [t \in Targets |-> NoJob]]
    /\ marker = [t \in Targets |-> NoMarker]
    /\ completion = [j \in Jobs |-> "ABSENT"]
    /\ pc = [h \in Handlers |-> "idle"]
    /\ running = [h \in Handlers |-> NoJob]
    /\ next = [h \in Handlers |-> 0]
    /\ successes = [h \in Handlers |-> 0]
    /\ failures = [h \in Handlers |-> 0]
    /\ newest = [t \in Targets |-> 0]
    /\ refused = {}
    /\ crashed = {}

-------------------------------------------------------------------------------
(* Helpers *)

\* getDownstreamTargets, in the order of createPlan.  The attribute it is called with is
\* always annualIncome, on which every decision depends.
DownstreamTargets(j) ==
    IF TriggerType[j] \in {"FACT_CHANGED", "FACT_VERIFIED", "POLICY_CHANGED"}
    THEN TargetOrder ELSE <<>>

Length(h) == Len(DownstreamTargets(running[h]))
Target(h) == DownstreamTargets(running[h])[next[h] + 1]

\* detectFactChange and computeDependencyFingerprint: what the job is about.  The policy
\* version is a constant and there is one fact, so that its version is the fingerprint.
Fingerprint(j) == FactVersion[j]

\* Variant: no unique key (userId, idempotencyKey).
NoUniqueKey(j) == FALSE

\* The unique keys of the transaction that creates a job and its event.
JobExists(j) == job[j] # "ABSENT"

\* Variant: a new job is not leasable, only one that is tried again.
OnlyAgainLeasable(status) == status \in {"RUNNING", "RETRYABLE_FAILURE"}

\* The statuses acquireWorkerLease accepts.  No code writes RETRYABLE_FAILURE.
Leasable(status) == status \in {"PENDING", "RUNNING", "RETRYABLE_FAILURE"}

\* Variant: what the marker read before said is not checked again when it is cleared.
MatchesStale(row, version) == row.status = "STALE"

\* The WHERE of the updateMany in conditionalClearStaleState.
Clearable(row, version) == row.version = version /\ row.status = "STALE"

\* Variant: the update branch leaves a CLEARED row cleared.
KeptMarker(row, j) ==
    [status |-> IF row.status = "ABSENT" THEN "STALE" ELSE row.status,
     version |-> Fingerprint(j), by |-> j]

\* upsertStaleState, the same on both branches.
UpsertedMarker(row, j) == [status |-> "STALE", version |-> Fingerprint(j), by |-> j]

\* finalStatus.
FinalStatus(succeeded, failed) ==
    CASE failed = 0 -> "SUCCEEDED"
      [] failed > 0 /\ succeeded > 0 -> "PARTIALLY_COMPLETED"
      [] failed > 0 /\ succeeded = 0 -> "FAILED"

\* updateStepStatus
UpdateStepStatus(h, status) == step' = [step EXCEPT ![running[h]][Target(h)] = status]

\* updateJobStatus
UpdateJobStatus(h, status) == job' = [job EXCEPT ![running[h]] = status]

\* The row of createImpact, under its unique key (sourceEventId, targetType, targetEntityId).
InsertImpact(h) == impact' = [impact EXCEPT ![SourceEvent[running[h]]][Target(h)] = running[h]]

\* StaleStateService.markStale
UpsertStaleState(h) == marker' = [marker EXCEPT ![Target(h)] = UpsertedMarker(@, running[h])]

\* The data of the updateMany in conditionalClearStaleState.
ClearStaleState(h) == marker' = [marker EXCEPT ![Target(h)] =
    [status |-> "CLEARED", version |-> @.version, by |-> running[h]]]

Goto(h, label) == pc' = [pc EXCEPT ![h] = label]

\* triggerReEvaluation returns or throws: its locals are gone.
HandlerEnds(h) ==
    /\ Goto(h, "idle")
    /\ running' = [running EXCEPT ![h] = NoJob]
    /\ next' = [next EXCEPT ![h] = 0]
    /\ successes' = [successes EXCEPT ![h] = 0]
    /\ failures' = [failures EXCEPT ![h] = 0]

\* Variant: one target more than the plan has.
OneTargetMore(h, again, after) ==
    IF next[h] + 1 <= Length(h)
    THEN Goto(h, again) /\ next' = [next EXCEPT ![h] = @ + 1]
    ELSE Goto(h, after) /\ next' = [next EXCEPT ![h] = 0]

\* On to the next target of the plan, or, after the last one, to `after`.
NextTarget(h, again, after) ==
    IF next[h] + 1 < Length(h)
    THEN Goto(h, again) /\ next' = [next EXCEPT ![h] = @ + 1]
    ELSE Goto(h, after) /\ next' = [next EXCEPT ![h] = 0]

-------------------------------------------------------------------------------
(* triggerReEvaluation: the job and its plan *)

\* The key is unused.  When it is not, its job is returned as it is.
Find(h, j) ==
    /\ pc[h] = "idle"
    /\ job[j] = "ABSENT"
    /\ Goto(h, "create")
    /\ running' = [running EXCEPT ![h] = j]
    /\ UNCHANGED <<rowVars, next, successes, failures, historyVars>>

\* The transaction that creates the job and its evt_req_ event.
CreateJob(h) ==
    /\ pc[h] = "create"
    /\ IF JobExists(running[h])
       THEN HandlerEnds(h) /\ UNCHANGED job
       ELSE /\ job' = [job EXCEPT ![running[h]] = "PENDING"]
            /\ Goto(h, "findImpact")
            /\ UNCHANGED <<running, next, successes, failures>>
    /\ UNCHANGED <<step, impact, marker, completion, historyVars>>

\* getDownstreamTargets finds no target: the job is done.
NoOp(h) ==
    /\ pc[h] = "findImpact"
    /\ Length(h) = 0
    /\ UpdateJobStatus(h, "SUCCEEDED")
    /\ HandlerEnds(h)
    /\ UNCHANGED <<step, impact, marker, completion, historyVars>>

\* findImpactBySourceEvent: an impact another job has found is taken over.
FindImpact(h) ==
    /\ pc[h] = "findImpact"
    /\ Length(h) > 0
    /\ IF impact[SourceEvent[running[h]]][Target(h)] = NoJob
       THEN Goto(h, "createImpact") /\ UNCHANGED next
       ELSE NextTarget(h, "findImpact", "createStep")
    /\ UNCHANGED <<rowVars, running, successes, failures, historyVars>>

\* createImpact, or the unique key (sourceEventId, targetType, targetEntityId) rejects it.
CreateImpact(h) ==
    /\ pc[h] = "createImpact"
    /\ IF impact[SourceEvent[running[h]]][Target(h)] = NoJob
       THEN /\ InsertImpact(h)
            /\ NextTarget(h, "findImpact", "createStep")
            /\ UNCHANGED <<running, successes, failures, refused>>
       ELSE /\ HandlerEnds(h)
            /\ refused' = refused \cup {running[h]}
            /\ UNCHANGED impact
    /\ UNCHANGED <<job, step, marker, completion, newest, crashed>>

CreateStep(h) ==
    /\ pc[h] = "createStep"
    /\ step' = [step EXCEPT ![running[h]][Target(h)] = "PENDING"]
    /\ NextTarget(h, "createStep", "lease")
    /\ UNCHANGED <<job, impact, marker, completion, running, successes, failures, historyVars>>

-------------------------------------------------------------------------------
(* executePlan *)

\* acquireWorkerLease.  No other call has this job: what it reads stays true.
Lease(h) ==
    /\ pc[h] = "lease"
    /\ IF Leasable(job[running[h]])
       THEN /\ job' = [job EXCEPT ![running[h]] = "RUNNING"]
            /\ Goto(h, "startStep")
            /\ UNCHANGED <<running, next, successes, failures>>
       ELSE HandlerEnds(h) /\ UNCHANGED job
    /\ UNCHANGED <<step, impact, marker, completion, historyVars>>

StartStep(h) ==
    /\ pc[h] = "startStep"
    /\ UpdateStepStatus(h, "RUNNING")
    /\ Goto(h, "evaluate")
    /\ UNCHANGED <<job, impact, marker, completion, running, next, successes, failures,
                   historyVars>>

\* The downstream engine, between the two snapshots; then the diff.
Evaluate(h) ==
    /\ pc[h] = "evaluate"
    /\ Goto(h, "findMarker")
    /\ UNCHANGED <<rowVars, running, next, successes, failures, historyVars>>

\* conditionalClearStaleState: there is nothing to clear, or another fingerprint's
\* marker, or ...
FindMarker(h) ==
    /\ pc[h] = "findMarker"
    /\ Goto(h, IF /\ marker[Target(h)].status # "ABSENT"
                  /\ marker[Target(h)].version = Fingerprint(running[h])
               THEN "clearMarker" ELSE "finishStep")
    /\ UNCHANGED <<rowVars, running, next, successes, failures, historyVars>>

\* ... its own, cleared if it still is.  executePlan ignores the answer.
ClearMarker(h) ==
    /\ pc[h] = "clearMarker"
    /\ IF Clearable(marker[Target(h)], Fingerprint(running[h]))
       THEN /\ ClearStaleState(h)
            /\ newest' = [newest EXCEPT ![Target(h)] =
                    IF Fingerprint(running[h]) >= @ THEN 0 ELSE @]
       ELSE UNCHANGED <<marker, newest>>
    /\ Goto(h, "finishStep")
    /\ UNCHANGED <<job, step, impact, completion, running, next, successes, failures,
                   refused, crashed>>

FinishStep(h) ==
    /\ pc[h] = "finishStep"
    /\ UpdateStepStatus(h, "SUCCEEDED")
    /\ successes' = [successes EXCEPT ![h] = @ + 1]
    /\ NextTarget(h, "startStep", "finalize")
    /\ UNCHANGED <<job, impact, marker, completion, running, failures, historyVars>>

\* The engine throws, or a database call is rejected, inside the try block.
Throw(h) ==
    /\ pc[h] \in TryPC
    /\ Goto(h, "failStep")
    /\ UNCHANGED <<rowVars, running, next, successes, failures, historyVars>>

FailStep(h) ==
    /\ pc[h] = "failStep"
    /\ UpdateStepStatus(h, "FAILED")
    /\ Goto(h, "markStale")
    /\ UNCHANGED <<job, impact, marker, completion, running, next, successes, failures,
                   historyVars>>

MarkStale(h) ==
    /\ pc[h] = "markStale"
    /\ UpsertStaleState(h)
    /\ newest' = IF Fingerprint(running[h]) > newest[Target(h)]
                 THEN [newest EXCEPT ![Target(h)] = Fingerprint(running[h])] ELSE newest
    /\ failures' = [failures EXCEPT ![h] = @ + 1]
    /\ NextTarget(h, "startStep", "finalize")
    /\ UNCHANGED <<job, step, impact, completion, running, successes, refused, crashed>>

\* The transaction that ends the job and publishes its event, which is unique.
Finalize(h) ==
    /\ pc[h] = "finalize"
    /\ LET status == FinalStatus(successes[h], failures[h]) IN
          IF completion[running[h]] = "ABSENT"
          THEN /\ job' = [job EXCEPT ![running[h]] = status]
               /\ completion' = [completion EXCEPT ![running[h]] = status]
          ELSE UNCHANGED <<job, completion>>
    /\ HandlerEnds(h)
    /\ UNCHANGED <<step, impact, marker, historyVars>>

\* The process dies, or a database call outside the try block is rejected.
Crash(h) ==
    /\ pc[h] # "idle"
    /\ Cardinality(crashed \cup {running[h]}) <= MaxCrashes
    /\ crashed' = crashed \cup {running[h]}
    /\ HandlerEnds(h)
    /\ UNCHANGED <<rowVars, newest, refused>>

-------------------------------------------------------------------------------

Step(h) ==
    \/ CreateJob(h)
    \/ NoOp(h)
    \/ FindImpact(h)
    \/ CreateImpact(h)
    \/ CreateStep(h)
    \/ Lease(h)
    \/ StartStep(h)
    \/ Evaluate(h)
    \/ FindMarker(h)
    \/ ClearMarker(h)
    \/ FinishStep(h)
    \/ Throw(h)
    \/ FailStep(h)
    \/ MarkStale(h)
    \/ Finalize(h)

Next ==
    \/ \E h \in Handlers, j \in Jobs : Find(h, j)
    \/ \E h \in Handlers : Step(h)
    \/ \E h \in Handlers : Crash(h)

Spec == Init /\ [][Next]_vars

-------------------------------------------------------------------------------
(* Properties *)

\* Every variable stays within its type, and no handler runs past the end of its plan.
TypeOK ==
    /\ job \in [Jobs -> JobStatus]
    /\ step \in [Jobs -> [Targets -> StepStatus]]
    /\ impact \in [SourceEvents -> [Targets -> Jobs \cup {NoJob}]]
    /\ marker \in [Targets -> Marker]
    /\ completion \in [Jobs -> Final \cup {"ABSENT"}]
    /\ pc \in [Handlers -> PC]
    /\ running \in [Handlers -> Jobs \cup {NoJob}]
    /\ next \in [Handlers -> Nat]
    /\ \A h \in Handlers : next[h] = 0 \/ next[h] < Length(h)
    /\ successes \in [Handlers -> Nat]
    /\ failures \in [Handlers -> Nat]
    /\ newest \in [Targets -> Nat]
    /\ refused \subseteq Jobs
    /\ crashed \subseteq Jobs

\* A job is created, planned and executed by one handler only, however many concurrent
\* requests carry its idempotency key and found it unused.
OneExecutor == \A g, h \in Handlers :
    g # h /\ pc[g] \notin {"idle", "create"} /\ pc[h] \notin {"idle", "create"}
        => running[g] # running[h]

\* A stale marker is cleared only by a job that evaluates the fact version the marker
\* has at that moment, whatever other jobs did to it since the job looked.
ClearedByItsVersion == [][\A t \in Targets :
    marker[t].status = "STALE" /\ marker'[t].status = "CLEARED" =>
        \E h \in Handlers : /\ pc[h] = "clearMarker"
                            /\ Target(h) = t
                            /\ marker'[t].by = running[h]
                            /\ FactVersion[running[h]] = marker[t].version]_vars

\* A failed step leaves its target marked stale until another job clears the marker
\* that has evaluated the target and whose own step has not failed, unless the
\* handler of one of the two died in between (failure-recovery.md, "Failed step
\* preserves its StaleState marker").
AtMark(j, t) == \E h \in Handlers :
    running[h] = j /\ pc[h] \in {"failStep", "markStale"} /\ Target(h) = t
ClearedByAnother(j, t) ==
    /\ marker[t].status = "CLEARED"
    /\ marker[t].by # j
    /\ \/ step[marker[t].by][t] \in {"RUNNING", "SUCCEEDED"}
       \/ marker[t].by \in crashed
       \/ AtMark(marker[t].by, t)
FailureLeavesMark == \A j \in Jobs, t \in Targets : step[j][t] = "FAILED" =>
    \/ marker[t].status = "STALE"
    \/ ClearedByAnother(j, t)
    \/ j \in crashed
    \/ AtMark(j, t)

\* The status a job ends with is that of its steps, and the same its event reports;
\* there is an event exactly when the job has ended, except for a job without targets.
Planned(j) == {DownstreamTargets(j)[n] : n \in 1..Len(DownstreamTargets(j))}
OutcomeAgrees == \A j \in Jobs :
    /\ job[j] \in Final =>
          /\ \A t \in Planned(j) : step[j][t] \in {"SUCCEEDED", "FAILED"}
          /\ job[j] = "SUCCEEDED" <=> \A t \in Planned(j) : step[j][t] = "SUCCEEDED"
          /\ job[j] = "FAILED" => \A t \in Planned(j) : step[j][t] = "FAILED"
    /\ Planned(j) # {} => completion[j] = IF job[j] \in Final THEN job[j] ELSE "ABSENT"

\* What failed is told: by the mark on the target, by the status of the job and by the
\* event, for every job and however the jobs overlap.
\* (ReEvaluationExecutorService.executePlan)
FailureIsTold == FailureLeavesMark /\ OutcomeAgrees

\* A job that has not ended is in the hands of a handler, unless its handler died or
\* met the impact row of another job of the same event that was created meanwhile:
\* nothing else in the program ever picks the job up again.
EveryJobAccounted == \A j \in Jobs : job[j] \in {"PENDING", "RUNNING"} =>
    \/ j \in refused \cup crashed
    \/ \E h \in Handlers : running[h] = j /\ pc[h] # "create"

\* What stale-state.md and README.md say: a marker set for a newer fact version is not
\* cleared by a job that evaluates an older one.
OlderCannotClear == \A t \in Targets : marker[t].status = "CLEARED" => newest[t] = 0

===============================================================================

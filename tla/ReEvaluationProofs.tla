--------------------------- MODULE ReEvaluationProofs ---------------------------
(* However many requests re-evaluate the decisions of a citizen at once, a job has *)
(* one executor, the job and its event tell what became of its steps, and a failed  *)
(* step is told by the mark on its target.  The executor of a job works on rows     *)
(* that no other handler touches; only the markers are shared, and those the        *)
(* invariant follows from step to step.                                             *)
EXTENDS ReEvaluation, TLAPS

(* The invariant *)

\* Where a handler plans, and where it executes.
Planning == {"findImpact", "createImpact", "createStep", "lease"}
Executing == TryPC \cup {"failStep", "markStale", "finalize"}

\* How many targets the handler is done with, and what its counters say of them.
Done(h) == IF pc[h] = "finalize" THEN Length(h) ELSE next[h]
StepOf(h, n) == step[running[h]][DownstreamTargets(running[h])[n]]
CountersAgree(h) ==
    /\ \A n \in 1..Done(h) : StepOf(h, n) \in {"SUCCEEDED", "FAILED"}
    /\ failures[h] = 0 <=> \A n \in 1..Done(h) : StepOf(h, n) = "SUCCEEDED"
    /\ successes[h] = 0 <=> \A n \in 1..Done(h) : StepOf(h, n) = "FAILED"

\* What a handler may rely on, stage by stage.
HandlerInv(h) ==
    /\ pc[h] = "idle" <=> running[h] = NoJob
    /\ pc[h] \notin Executing => successes[h] = 0 /\ failures[h] = 0
    /\ pc[h] \in {"idle", "create", "lease", "finalize"} => next[h] = 0
    /\ pc[h] \in (Planning \cup Executing) \ {"findImpact"} => next[h] < Length(h)
    /\ pc[h] \in Planning =>
         /\ job[running[h]] = "PENDING"
         /\ \A t \in Targets : step[running[h]][t] \in {"ABSENT", "PENDING"}
    /\ pc[h] \in Executing => job[running[h]] = "RUNNING" /\ CountersAgree(h)
    /\ pc[h] \in {"evaluate", "findMarker", "clearMarker", "finishStep"} =>
         step[running[h]][Target(h)] = "RUNNING"
    /\ pc[h] = "markStale" => step[running[h]][Target(h)] = "FAILED"

\* A job that was not created has no steps.
FreshInv == \A j \in Jobs : job[j] = "ABSENT" => \A t \in Targets : step[j][t] = "ABSENT"

MarkerInv == \A t \in Targets : marker[t].status = "CLEARED" => marker[t].by \in Jobs

IInv ==
    /\ TypeOK
    /\ \A h \in Handlers : HandlerInv(h)
    /\ OneExecutor
    /\ FreshInv
    /\ MarkerInv
    /\ OutcomeAgrees
    /\ EveryJobAccounted
    /\ FailureLeavesMark

-------------------------------------------------------------------------------
(* Plans, and what the helpers do to a handler *)

\* A plan is a sequence of different targets.
LEMMA PlanType ==
    ASSUME NEW j
    PROVE  /\ Len(DownstreamTargets(j)) \in Nat
           /\ \A n \in 1..Len(DownstreamTargets(j)) : DownstreamTargets(j)[n] \in Targets
           /\ \A m, n \in 1..Len(DownstreamTargets(j)) :
                DownstreamTargets(j)[m] = DownstreamTargets(j)[n] => m = n
<1>1. CASE DownstreamTargets(j) = TargetOrder
  BY <1>1, ReEvaluationAssumption
<1>2. CASE DownstreamTargets(j) = <<>>
  BY <1>2
<1> QED BY <1>1, <1>2 DEF DownstreamTargets

\* The target a handler works on is one of its plan's, and not one it is done with.
LEMMA TargetType ==
    ASSUME TypeOK, NEW h \in Handlers, next[h] < Length(h)
    PROVE  /\ next[h] \in Nat /\ Length(h) \in Nat
           /\ Target(h) \in Targets
           /\ Target(h) = DownstreamTargets(running[h])[next[h] + 1]
           /\ \A n \in 1..next[h] : DownstreamTargets(running[h])[n] # Target(h)
<1>1. next[h] \in Nat /\ next[h] + 1 \in 1..Length(h) /\ Length(h) \in Nat
  BY PlanType DEF TypeOK, Length
<1>2. \A n \in 1..next[h] : n \in 1..Length(h) /\ n # next[h] + 1
  BY <1>1
<1> QED BY <1>1, <1>2, PlanType DEF Length, Target

LocalTypes ==
    /\ pc \in [Handlers -> PC]
    /\ running \in [Handlers -> Jobs \cup {NoJob}]
    /\ next \in [Handlers -> Nat]
    /\ successes \in [Handlers -> Nat]
    /\ failures \in [Handlers -> Nat]

\* A step of one handler leaves the locals of the others alone.
OthersSame(h) == \A g \in Handlers : g # h =>
    /\ pc'[g] = pc[g] /\ running'[g] = running[g] /\ next'[g] = next[g]
    /\ successes'[g] = successes[g] /\ failures'[g] = failures[g]

LEMMA EndsIs ==
    ASSUME TypeOK, NEW h \in Handlers, HandlerEnds(h)
    PROVE  /\ LocalTypes' /\ OthersSame(h)
           /\ pc'[h] = "idle" /\ running'[h] = NoJob
           /\ next'[h] = 0 /\ successes'[h] = 0 /\ failures'[h] = 0
BY DEF TypeOK, HandlerEnds, Goto, LocalTypes, OthersSame, PC

LEMMA GotoIs ==
    ASSUME TypeOK, NEW h \in Handlers, NEW label \in PC, Goto(h, label),
           UNCHANGED <<running, next, successes, failures>>
    PROVE  /\ LocalTypes' /\ OthersSame(h)
           /\ pc'[h] = label /\ running'[h] = running[h] /\ next'[h] = next[h]
           /\ successes'[h] = successes[h] /\ failures'[h] = failures[h]
BY DEF TypeOK, Goto, LocalTypes, OthersSame

LEMMA NextTargetIs ==
    ASSUME TypeOK, NEW h \in Handlers, NEW again \in PC, NEW after \in PC,
           NextTarget(h, again, after), next[h] < Length(h)
    PROVE  /\ pc' \in [Handlers -> PC] /\ next' \in [Handlers -> Nat]
           /\ \A g \in Handlers : g # h => pc'[g] = pc[g] /\ next'[g] = next[g]
           /\ \/ pc'[h] = again /\ next'[h] = next[h] + 1 /\ next[h] + 1 < Length(h)
              \/ pc'[h] = after /\ next'[h] = 0 /\ next[h] + 1 = Length(h)
<1>1. next[h] \in Nat /\ Length(h) \in Nat
  BY TargetType
<1>2. CASE next[h] + 1 < Length(h)
  <2>1. pc' = [pc EXCEPT ![h] = again] /\ next' = [next EXCEPT ![h] = next[h] + 1]
    BY <1>2 DEF NextTarget, Goto
  <2>2. next[h] + 1 \in Nat /\ next \in [Handlers -> Nat] /\ pc \in [Handlers -> PC]
    BY <1>1 DEF TypeOK
  <2> QED BY <1>2, <2>1, <2>2
<1>3. CASE ~(next[h] + 1 < Length(h))
  <2>1. pc' = [pc EXCEPT ![h] = after] /\ next' = [next EXCEPT ![h] = 0]
    BY <1>3 DEF NextTarget, Goto
  <2>2. next[h] + 1 = Length(h)
    BY <1>1, <1>3
  <2>3. next \in [Handlers -> Nat] /\ pc \in [Handlers -> PC]
    BY DEF TypeOK
  <2> QED BY <2>1, <2>2, <2>3
<1> QED BY <1>2, <1>3

\* The status of one step of one job changes.
LEMMA StepUpdate ==
    ASSUME TypeOK, NEW j \in Jobs, NEW t \in Targets, NEW status \in StepStatus,
           step' = [step EXCEPT ![j][t] = status]
    PROVE  /\ step' \in [Jobs -> [Targets -> StepStatus]]
           /\ step'[j][t] = status
           /\ \A u \in Targets : u # t => step'[j][u] = step[j][u]
           /\ \A i \in Jobs : i # j => step'[i] = step[i]
BY DEF TypeOK

LEMMA JobUpdate ==
    ASSUME TypeOK, NEW j \in Jobs, NEW status \in JobStatus, job' = [job EXCEPT ![j] = status]
    PROVE  /\ job' \in [Jobs -> JobStatus]
           /\ job'[j] = status
           /\ \A i \in Jobs : i # j => job'[i] = job[i]
BY DEF TypeOK

-------------------------------------------------------------------------------
(* What a step of one handler leaves to the others *)

\* The part of OutcomeAgrees about one job.
Agrees(j) ==
    /\ job[j] \in Final =>
          /\ \A t \in Planned(j) : step[j][t] \in {"SUCCEEDED", "FAILED"}
          /\ job[j] = "SUCCEEDED" <=> \A t \in Planned(j) : step[j][t] = "SUCCEEDED"
          /\ job[j] = "FAILED" => \A t \in Planned(j) : step[j][t] = "FAILED"
    /\ Planned(j) # {} => completion[j] = IF job[j] \in Final THEN job[j] ELSE "ABSENT"

\* The invariant but for the markers.
RowInv ==
    /\ TypeOK
    /\ \A h \in Handlers : HandlerInv(h)
    /\ OneExecutor
    /\ FreshInv
    /\ OutcomeAgrees
    /\ EveryJobAccounted

LEMMA AgreesIs == OutcomeAgrees <=> \A j \in Jobs : Agrees(j)
BY DEF OutcomeAgrees, Agrees

\* Handlers that work on other jobs, or have none, notice nothing.
LEMMA OthersKeep ==
    ASSUME NEW g \in Handlers, HandlerInv(g),
           pc'[g] = pc[g], running'[g] = running[g], next'[g] = next[g],
           successes'[g] = successes[g], failures'[g] = failures[g],
           pc[g] \notin {"idle", "create"} =>
             job'[running[g]] = job[running[g]] /\ step'[running[g]] = step[running[g]]
    PROVE  HandlerInv(g)'
<1>1. Length(g)' = Length(g) /\ Target(g)' = Target(g) /\ Done(g)' = Done(g)
  BY DEF Length, Target, Done, DownstreamTargets
<1>2. pc[g] \in Executing => pc[g] \notin {"idle", "create"}
  BY DEF Executing, TryPC
<1>3. pc[g] \in Executing => \A n : StepOf(g, n)' = StepOf(g, n)
  BY <1>2 DEF StepOf, DownstreamTargets
<1>4. pc[g] \in Executing /\ CountersAgree(g) => CountersAgree(g)'
  BY <1>1, <1>3 DEF CountersAgree
<1> QED BY <1>1, <1>2, <1>4 DEF HandlerInv, Planning

\* A step of the handler that has a job: what is left to show.
LEMMA WorkingStep ==
    ASSUME RowInv, TypeOK', NEW h \in Handlers, pc[h] \notin {"idle", "create"},
           NEW j \in Jobs, j = running[h],
           OthersSame(h), HandlerInv(h)',
           \/ running'[h] = running[h] /\ pc'[h] \notin {"idle", "create"}
           \/ running'[h] = NoJob /\ pc'[h] = "idle",
           \A i \in Jobs : i # j =>
             job'[i] = job[i] /\ step'[i] = step[i] /\ completion'[i] = completion[i],
           job'[j] # "ABSENT", Agrees(j)',
           refused \subseteq refused', crashed \subseteq crashed',
           job'[j] \in {"PENDING", "RUNNING"} /\ pc'[h] = "idle" => j \in refused' \cup crashed'
    PROVE  RowInv'
<1> USE DEF RowInv
<1>1. \A g \in Handlers : g # h /\ pc[g] \notin {"idle", "create"} =>
        running[g] # j /\ running[g] \in Jobs
  BY DEF OneExecutor, HandlerInv, TypeOK
<1>2. \A g \in Handlers : HandlerInv(g)'
  <2> SUFFICES ASSUME NEW g \in Handlers, g # h
               PROVE  HandlerInv(g)'
    OBVIOUS
  <2>1. pc[g] \notin {"idle", "create"} =>
          job'[running[g]] = job[running[g]] /\ step'[running[g]] = step[running[g]]
    BY <1>1
  <2> QED BY <2>1, OthersKeep DEF OthersSame
<1>3. OneExecutor'
  BY <1>1 DEF OneExecutor, OthersSame
<1>4. FreshInv'
  BY DEF FreshInv
<1>5. OutcomeAgrees'
  <2>1. \A i \in Jobs : i # j => Agrees(i)'
    BY AgreesIs DEF Agrees
  <2> QED BY <2>1 DEF OutcomeAgrees, Agrees
<1>6. EveryJobAccounted'
  <2> SUFFICES ASSUME NEW i \in Jobs, job'[i] \in {"PENDING", "RUNNING"},
                      i \notin refused' \cup crashed'
               PROVE  \E g \in Handlers : running'[g] = i /\ pc'[g] # "create"
    BY DEF EveryJobAccounted
  <2>1. CASE i = j
    BY <2>1
  <2>2. CASE i # j
    <3>1. PICK g \in Handlers : running[g] = i /\ pc[g] # "create"
      BY <2>2 DEF EveryJobAccounted
    <3> QED BY <2>2, <3>1 DEF OthersSame
  <2> QED BY <2>1, <2>2
<1> QED BY <1>2, <1>3, <1>4, <1>5, <1>6

-------------------------------------------------------------------------------
(* Steps without a job, and the creation of one *)

LEMMA FindStep ==
    ASSUME RowInv, NEW h \in Handlers, NEW k \in Jobs, Find(h, k)
    PROVE  RowInv'
<1> USE DEF RowInv
<1>1. /\ pc[h] = "idle" /\ pc' = [pc EXCEPT ![h] = "create"]
      /\ running' = [running EXCEPT ![h] = k]
      /\ UNCHANGED <<job, step, impact, marker, completion, next, successes, failures, newest,
                     refused, crashed>>
  BY DEF Find, Goto, rowVars, historyVars
<1>2. /\ next[h] = 0 /\ successes[h] = 0 /\ failures[h] = 0 /\ running[h] = NoJob /\ k # NoJob
  BY <1>1, ReEvaluationAssumption DEF HandlerInv, Executing, TryPC
<1>3. /\ LocalTypes' /\ OthersSame(h) /\ pc'[h] = "create" /\ running'[h] = k
  BY <1>1 DEF TypeOK, LocalTypes, OthersSame, PC
<1>4. TypeOK'
  BY <1>1, <1>2, <1>3 DEF TypeOK, LocalTypes, OthersSame, Length
<1>5. \A g \in Handlers : HandlerInv(g)'
  <2>1. HandlerInv(h)'
    BY <1>1, <1>2, <1>3 DEF HandlerInv, Planning, Executing, TryPC
  <2>2. \A g \in Handlers : g # h => HandlerInv(g)'
    BY <1>1, <1>3, OthersKeep DEF OthersSame
  <2> QED BY <2>1, <2>2
<1>6. OneExecutor'
  BY <1>3 DEF OneExecutor, OthersSame
<1>7. FreshInv' /\ OutcomeAgrees'
  BY <1>1 DEF FreshInv, OutcomeAgrees
<1>8. EveryJobAccounted'
  <2>1. \A g \in Handlers : running[g] \in Jobs => g # h
    BY <1>2, ReEvaluationAssumption
  <2> QED BY <1>1, <1>3, <2>1 DEF EveryJobAccounted, OthersSame
<1> QED BY <1>4, <1>5, <1>6, <1>7, <1>8

LEMMA CreateJobStep ==
    ASSUME RowInv, NEW h \in Handlers, CreateJob(h)
    PROVE  RowInv'
<1> USE DEF RowInv
<1> DEFINE k == running[h]
<1>1. pc[h] = "create" /\ UNCHANGED <<step, impact, marker, completion, newest, refused, crashed>>
  BY DEF CreateJob, historyVars
<1>2. k \in Jobs /\ next[h] = 0 /\ successes[h] = 0 /\ failures[h] = 0
  BY <1>1 DEF HandlerInv, TypeOK, Executing, TryPC
<1>3. CASE JobExists(k)
  <2>1. HandlerEnds(h) /\ job' = job
    BY <1>3 DEF CreateJob
  <2>2. /\ LocalTypes' /\ OthersSame(h) /\ pc'[h] = "idle" /\ running'[h] = NoJob
        /\ next'[h] = 0 /\ successes'[h] = 0 /\ failures'[h] = 0
    BY <2>1, EndsIs
  <2>3. TypeOK'
    BY <1>1, <2>1, <2>2 DEF TypeOK, LocalTypes, OthersSame, Length
  <2>4. HandlerInv(h)'
    BY <2>2 DEF HandlerInv, Planning, Executing, TryPC
  <2>5. \A g \in Handlers : g # h => HandlerInv(g)'
    BY <1>1, <2>1, <2>2, OthersKeep DEF OthersSame
  <2>6. OneExecutor' /\ FreshInv' /\ OutcomeAgrees'
    BY <1>1, <2>1, <2>2 DEF OneExecutor, OthersSame, FreshInv, OutcomeAgrees
  <2>7. EveryJobAccounted'
    BY <1>1, <2>1, <2>2 DEF EveryJobAccounted, OthersSame
  <2> QED BY <2>3, <2>4, <2>5, <2>6, <2>7
<1>4. CASE ~JobExists(k)
  <2>1. /\ job[k] = "ABSENT" /\ job' = [job EXCEPT ![k] = "PENDING"] /\ Goto(h, "findImpact")
        /\ UNCHANGED <<running, next, successes, failures>>
    BY <1>4 DEF CreateJob, JobExists
  <2>2. /\ job' \in [Jobs -> JobStatus] /\ job'[k] = "PENDING"
        /\ \A i \in Jobs : i # k => job'[i] = job[i]
    BY <1>2, <2>1, JobUpdate DEF JobStatus
  <2>3. /\ LocalTypes' /\ OthersSame(h) /\ pc'[h] = "findImpact" /\ running'[h] = k
        /\ next'[h] = 0 /\ successes'[h] = 0 /\ failures'[h] = 0
    BY <1>2, <2>1, GotoIs DEF PC
  <2>4. TypeOK'
    BY <1>1, <2>1, <2>2, <2>3 DEF TypeOK, LocalTypes, Length
  <2>5. \A g \in Handlers : g # h /\ pc[g] \notin {"idle", "create"} =>
          running[g] # k /\ running[g] \in Jobs
    BY <2>1 DEF HandlerInv, TypeOK, PC, Planning, Executing
  <2>6. HandlerInv(h)'
    <3>1. \A t \in Targets : step'[k][t] = "ABSENT"
      BY <1>1, <1>2, <2>1 DEF FreshInv
    <3>2. k # NoJob
      BY <1>2, ReEvaluationAssumption
    <3> QED BY <1>2, <2>2, <2>3, <3>1, <3>2 DEF HandlerInv, Planning, Executing, TryPC
  <2>7. \A g \in Handlers : g # h => HandlerInv(g)'
    BY <1>1, <2>2, <2>3, <2>5, OthersKeep DEF OthersSame
  <2>8. OneExecutor'
    BY <2>3, <2>5 DEF OneExecutor, OthersSame
  <2>9. FreshInv'
    BY <1>1, <2>2 DEF FreshInv
  <2>10. OutcomeAgrees'
    <3>1. job[k] \notin Final /\ job'[k] \notin Final
      BY <2>1, <2>2 DEF Final
    <3>2. ASSUME NEW i \in Jobs
          PROVE  job'[i] = job[i] \/ (job[i] \notin Final /\ job'[i] \notin Final)
      <4>1. CASE i = k
        BY <3>1, <4>1
      <4>2. CASE i # k
        BY <2>2, <4>2
      <4> QED BY <4>1, <4>2
    <3> QED BY <1>1, <3>2 DEF OutcomeAgrees
  <2>11. EveryJobAccounted'
    BY <1>1, <2>2, <2>3 DEF EveryJobAccounted, OthersSame
  <2> QED BY <2>4, <2>6, <2>7, <2>8, <2>9, <2>10, <2>11
<1> QED BY <1>3, <1>4

-------------------------------------------------------------------------------
(* The steps of a handler that has a job *)

\* What a handler with a job may use.
LEMMA InHand ==
    ASSUME RowInv, NEW h \in Handlers, pc[h] \notin {"idle", "create"}
    PROVE  /\ running[h] \in Jobs /\ running[h] # NoJob
           /\ Agrees(running[h])
           /\ HandlerInv(h)
BY AgreesIs, ReEvaluationAssumption DEF RowInv, HandlerInv, TypeOK

\* The counters go on saying the same of the same steps.
LEMMA CountersKept ==
    ASSUME TypeOK, NEW h \in Handlers, next[h] < Length(h), CountersAgree(h),
           pc[h] # "finalize", pc'[h] # "finalize",
           running'[h] = running[h], next'[h] = next[h],
           successes'[h] = successes[h], failures'[h] = failures[h],
           \A u \in Targets : u # Target(h) => step'[running[h]][u] = step[running[h]][u]
    PROVE  CountersAgree(h)'
<1>1. Done(h) = next[h] /\ Done(h)' = next[h]
  BY DEF Done
<1>2. \A n \in 1..next[h] : /\ DownstreamTargets(running[h])[n] \in Targets
                            /\ DownstreamTargets(running[h])[n] # Target(h)
  BY TargetType, PlanType DEF Length
<1>3. \A n \in 1..next[h] : StepOf(h, n)' = StepOf(h, n)
  BY <1>2 DEF StepOf
<1> QED BY <1>1, <1>3 DEF CountersAgree

\* One more step has ended, and one of the counters says so.
LEMMA CountersNext ==
    ASSUME TypeOK, NEW h \in Handlers, next[h] < Length(h), CountersAgree(h),
           pc[h] # "finalize", Done(h)' = next[h] + 1, running'[h] = running[h],
           \A u \in Targets : u # Target(h) => step'[running[h]][u] = step[running[h]][u],
           \/ /\ step'[running[h]][Target(h)] = "SUCCEEDED"
              /\ successes'[h] = successes[h] + 1 /\ failures'[h] = failures[h]
           \/ /\ step'[running[h]][Target(h)] = "FAILED"
              /\ successes'[h] = successes[h] /\ failures'[h] = failures[h] + 1
    PROVE  CountersAgree(h)'
<1>1. Done(h) = next[h]
  BY DEF Done
<1>2. /\ next[h] \in Nat
      /\ \A n \in 1..next[h] : /\ DownstreamTargets(running[h])[n] \in Targets
                               /\ DownstreamTargets(running[h])[n] # Target(h)
      /\ DownstreamTargets(running[h])[next[h] + 1] = Target(h)
  BY TargetType, PlanType DEF Length
<1>3. \A n \in 1..next[h] : StepOf(h, n)' = StepOf(h, n)
  BY <1>2 DEF StepOf
<1>4. \A n : n = next[h] + 1 => StepOf(h, n)' = step'[running[h]][Target(h)]
  BY <1>2 DEF StepOf
<1>5. successes[h] \in Nat /\ failures[h] \in Nat
  BY DEF TypeOK
<1>6. \A n : n \in 1..(next[h] + 1) <=> n \in 1..next[h] \/ n = next[h] + 1
  BY <1>2
<1>7. \A n \in 1..next[h] : StepOf(h, n) \in {"SUCCEEDED", "FAILED"}
  BY <1>1 DEF CountersAgree
<1>8. CASE step'[running[h]][Target(h)] = "SUCCEEDED"
  <2>1. successes'[h] # 0 /\ failures'[h] = failures[h]
    BY <1>5, <1>8
  <2> QED BY <1>1, <1>2, <1>3, <1>4, <1>6, <1>7, <1>8, <2>1 DEF CountersAgree
<1>9. CASE step'[running[h]][Target(h)] = "FAILED"
  <2>1. successes'[h] = successes[h] /\ failures'[h] # 0
    BY <1>5, <1>9
  <2> QED BY <1>1, <1>2, <1>3, <1>4, <1>6, <1>7, <1>9, <2>1 DEF CountersAgree
<1> QED BY <1>8, <1>9

\* Planning ends at once when nothing depends on the fact.
LEMMA NoOpStep ==
    ASSUME RowInv, NEW h \in Handlers, NoOp(h)
    PROVE  RowInv'
<1>1. /\ pc[h] = "findImpact" /\ Length(h) = 0
      /\ job' = [job EXCEPT ![running[h]] = "SUCCEEDED"] /\ HandlerEnds(h)
      /\ UNCHANGED <<step, impact, marker, completion, newest, refused, crashed>>
  BY DEF NoOp, UpdateJobStatus, historyVars
<1>2. PICK j \in Jobs : j = running[h] /\ j # NoJob /\ Agrees(j)
  BY <1>1, InHand
<1>3. TypeOK
  BY DEF RowInv
<1>4. /\ job' \in [Jobs -> JobStatus] /\ job'[j] = "SUCCEEDED"
      /\ \A i \in Jobs : i # j => job'[i] = job[i]
  BY <1>1, <1>2, <1>3, JobUpdate DEF JobStatus, Final
<1>5. /\ LocalTypes' /\ OthersSame(h) /\ pc'[h] = "idle" /\ running'[h] = NoJob
      /\ next'[h] = 0 /\ successes'[h] = 0 /\ failures'[h] = 0
  BY <1>1, <1>3, EndsIs
<1>6. TypeOK'
  BY <1>1, <1>3, <1>4, <1>5 DEF TypeOK, LocalTypes, OthersSame, Length
<1>7. HandlerInv(h)'
  BY <1>5 DEF HandlerInv, Planning, Executing, TryPC
<1>8. Agrees(j)'
  <2>1. Planned(j) = {}
    BY <1>1, <1>2 DEF Planned, Length
  <2> QED BY <1>4, <2>1 DEF Agrees
<1> QED BY <1>1, <1>2, <1>4, <1>5, <1>6, <1>7, <1>8, WorkingStep

LEMMA FindImpactStep ==
    ASSUME RowInv, NEW h \in Handlers, FindImpact(h)
    PROVE  RowInv'
<1>1. /\ pc[h] = "findImpact" /\ Length(h) > 0
      /\ \/ Goto(h, "createImpact") /\ UNCHANGED next
         \/ NextTarget(h, "findImpact", "createStep")
      /\ UNCHANGED <<job, step, impact, marker, completion, running, successes, failures, newest,
                     refused, crashed>>
  BY DEF FindImpact, rowVars, historyVars
<1>2. PICK j \in Jobs : j = running[h] /\ j # NoJob /\ Agrees(j) /\ HandlerInv(h)
  BY <1>1, InHand
<1>3. TypeOK
  BY DEF RowInv
<1>4. next[h] < Length(h)
  BY <1>1, <1>3 DEF TypeOK
<1>5. LocalTypes' /\ OthersSame(h)
  <2>1. CASE Goto(h, "createImpact") /\ UNCHANGED next
    BY <1>1, <1>3, <2>1, GotoIs DEF PC
  <2>2. CASE NextTarget(h, "findImpact", "createStep")
    BY <1>1, <1>3, <1>4, <2>2, NextTargetIs DEF PC, TypeOK, LocalTypes, OthersSame
  <2> QED BY <1>1, <2>1, <2>2
<1>6. \/ pc'[h] = "createImpact" /\ next'[h] = next[h]
      \/ pc'[h] = "findImpact" /\ next'[h] = next[h] + 1 /\ next[h] + 1 < Length(h)
      \/ pc'[h] = "createStep" /\ next'[h] = 0
  <2>1. CASE Goto(h, "createImpact") /\ UNCHANGED next
    BY <1>3, <2>1 DEF TypeOK, Goto
  <2>2. CASE NextTarget(h, "findImpact", "createStep")
    BY <1>3, <1>4, <2>2, NextTargetIs DEF PC
  <2> QED BY <1>1, <2>1, <2>2
<1>7. Length(h)' = Length(h)
  BY <1>1 DEF Length
<1>8. TypeOK'
  BY <1>1, <1>3, <1>4, <1>5, <1>6, <1>7 DEF TypeOK, LocalTypes, OthersSame, Length
<1>9. HandlerInv(h)'
  BY <1>1, <1>2, <1>4, <1>6, <1>7 DEF HandlerInv, Planning, Executing, TryPC
<1>10. Agrees(j)'
  BY <1>1, <1>2 DEF Agrees
<1>11. job[j] = "PENDING"
  BY <1>1, <1>2 DEF HandlerInv, Planning
<1> QED BY <1>1, <1>2, <1>5, <1>6, <1>8, <1>9, <1>10, <1>11, WorkingStep

LEMMA CreateImpactStep ==
    ASSUME RowInv, NEW h \in Handlers, CreateImpact(h)
    PROVE  RowInv'
<1>1. /\ pc[h] = "createImpact"
      /\ UNCHANGED <<job, step, marker, completion, newest, crashed>>
  BY DEF CreateImpact
<1>2. PICK j \in Jobs : j = running[h] /\ j # NoJob /\ Agrees(j) /\ HandlerInv(h)
  BY <1>1, InHand
<1>3. TypeOK
  BY DEF RowInv
<1>4. next[h] < Length(h) /\ job[j] = "PENDING"
  BY <1>1, <1>2 DEF HandlerInv, Planning
<1>5. Agrees(j)'
  BY <1>1, <1>2 DEF Agrees
<1>6. CASE impact[SourceEvent[running[h]]][Target(h)] = NoJob
  <2>1. /\ InsertImpact(h) /\ NextTarget(h, "findImpact", "createStep")
        /\ UNCHANGED <<running, successes, failures, refused>>
    BY <1>6 DEF CreateImpact
  <2>2. Target(h) \in Targets /\ SourceEvent[j] \in SourceEvents
    BY <1>3, <1>4, TargetType, ReEvaluationAssumption
  <2>3. impact' \in [SourceEvents -> [Targets -> Jobs \cup {NoJob}]]
    <3>1. impact' = [impact EXCEPT ![SourceEvent[j]][Target(h)] = j]
      BY <1>2, <2>1 DEF InsertImpact
    <3> QED BY <1>3, <2>2, <3>1 DEF TypeOK
  <2>4. LocalTypes' /\ OthersSame(h)
    BY <1>3, <1>4, <2>1, NextTargetIs DEF PC, TypeOK, LocalTypes, OthersSame
  <2>5. \/ pc'[h] = "findImpact" /\ next'[h] = next[h] + 1 /\ next[h] + 1 < Length(h)
        \/ pc'[h] = "createStep" /\ next'[h] = 0
    BY <1>3, <1>4, <2>1, NextTargetIs DEF PC
  <2>6. Length(h)' = Length(h)
    BY <2>1 DEF Length
  <2>7. TypeOK'
    BY <1>1, <1>3, <2>1, <2>3, <2>4, <2>5, <2>6 DEF TypeOK, LocalTypes, OthersSame, Length
  <2>8. HandlerInv(h)'
    <3>1. 0 < Length(h)
      BY <1>3, <1>4, TargetType
    <3> QED BY <1>1, <1>2, <2>1, <2>5, <2>6, <3>1 DEF HandlerInv, Planning, Executing, TryPC
  <2> QED BY <1>1, <1>2, <1>4, <1>5, <2>1, <2>4, <2>5, <2>7, <2>8, WorkingStep
<1>7. CASE impact[SourceEvent[running[h]]][Target(h)] # NoJob
  <2>1. HandlerEnds(h) /\ refused' = refused \cup {running[h]} /\ UNCHANGED impact
    BY <1>7 DEF CreateImpact
  <2>2. /\ LocalTypes' /\ OthersSame(h) /\ pc'[h] = "idle" /\ running'[h] = NoJob
        /\ next'[h] = 0 /\ successes'[h] = 0 /\ failures'[h] = 0
    BY <1>3, <2>1, EndsIs
  <2>3. TypeOK'
    BY <1>1, <1>2, <1>3, <2>1, <2>2 DEF TypeOK, LocalTypes, OthersSame, Length
  <2>4. HandlerInv(h)'
    BY <2>2 DEF HandlerInv, Planning, Executing, TryPC
  <2> QED BY <1>1, <1>2, <1>4, <1>5, <2>1, <2>2, <2>3, <2>4, WorkingStep
<1> QED BY <1>6, <1>7

LEMMA CreateStepStep ==
    ASSUME RowInv, NEW h \in Handlers, CreateStep(h)
    PROVE  RowInv'
<1>1. /\ pc[h] = "createStep"
      /\ step' = [step EXCEPT ![running[h]][Target(h)] = "PENDING"]
      /\ NextTarget(h, "createStep", "lease")
      /\ UNCHANGED <<job, impact, marker, completion, running, successes, failures, newest,
                     refused, crashed>>
  BY DEF CreateStep, historyVars
<1>2. PICK j \in Jobs : j = running[h] /\ j # NoJob /\ Agrees(j) /\ HandlerInv(h)
  BY <1>1, InHand
<1>3. TypeOK
  BY DEF RowInv
<1>4. next[h] < Length(h) /\ job[j] = "PENDING"
  BY <1>1, <1>2 DEF HandlerInv, Planning
<1>5. Target(h) \in Targets /\ 0 < Length(h)
  BY <1>3, <1>4, TargetType
<1>6. /\ step' \in [Jobs -> [Targets -> StepStatus]] /\ step'[j][Target(h)] = "PENDING"
      /\ \A u \in Targets : u # Target(h) => step'[j][u] = step[j][u]
      /\ \A i \in Jobs : i # j => step'[i] = step[i]
  <2>1. "PENDING" \in StepStatus /\ step' = [step EXCEPT ![j][Target(h)] = "PENDING"]
    BY <1>1, <1>2 DEF StepStatus
  <2> QED BY <1>3, <1>5, <2>1, StepUpdate
<1>7. LocalTypes' /\ OthersSame(h)
  BY <1>1, <1>3, <1>4, NextTargetIs DEF PC, TypeOK, LocalTypes, OthersSame
<1>8. \/ pc'[h] = "createStep" /\ next'[h] = next[h] + 1 /\ next[h] + 1 < Length(h)
      \/ pc'[h] = "lease" /\ next'[h] = 0
  BY <1>1, <1>3, <1>4, NextTargetIs DEF PC
<1>9. Length(h)' = Length(h)
  BY <1>1 DEF Length
<1>10. TypeOK'
  BY <1>1, <1>3, <1>6, <1>7, <1>8, <1>9 DEF TypeOK, LocalTypes, OthersSame, Length
<1>11. \A t \in Targets : step'[j][t] \in {"ABSENT", "PENDING"}
  BY <1>1, <1>2, <1>6 DEF HandlerInv, Planning
<1>12. HandlerInv(h)'
  BY <1>1, <1>2, <1>4, <1>5, <1>8, <1>9, <1>11 DEF HandlerInv, Planning, Executing, TryPC
<1>13. Agrees(j)'
  BY <1>1, <1>2, <1>4 DEF Agrees, Final
<1> QED BY <1>1, <1>2, <1>4, <1>6, <1>7, <1>8, <1>10, <1>12, <1>13, WorkingStep

\* The lease of a planned job is never refused.
LEMMA LeaseStep ==
    ASSUME RowInv, NEW h \in Handlers, Lease(h)
    PROVE  RowInv'
<1>1. pc[h] = "lease"
  BY DEF Lease
<1>2. PICK j \in Jobs : j = running[h] /\ j # NoJob /\ Agrees(j) /\ HandlerInv(h)
  BY <1>1, InHand
<1>3. TypeOK
  BY DEF RowInv
<1>4. job[j] = "PENDING" /\ next[h] = 0 /\ 0 < Length(h) /\ successes[h] = 0 /\ failures[h] = 0
  BY <1>1, <1>2 DEF HandlerInv, Planning, Executing, TryPC
<1>5. /\ job' = [job EXCEPT ![running[h]] = "RUNNING"] /\ Goto(h, "startStep")
      /\ UNCHANGED <<running, next, successes, failures>>
      /\ UNCHANGED <<step, impact, marker, completion, newest, refused, crashed>>
  BY <1>2, <1>4 DEF Lease, Leasable, historyVars
<1>6. /\ job' \in [Jobs -> JobStatus] /\ job'[j] = "RUNNING"
      /\ \A i \in Jobs : i # j => job'[i] = job[i]
  BY <1>2, <1>3, <1>5, JobUpdate DEF JobStatus
<1>7. /\ LocalTypes' /\ OthersSame(h) /\ pc'[h] = "startStep" /\ running'[h] = j
      /\ next'[h] = 0 /\ successes'[h] = 0 /\ failures'[h] = 0
  BY <1>2, <1>3, <1>4, <1>5, GotoIs DEF PC, TryPC
<1>8. Length(h)' = Length(h)
  BY <1>5 DEF Length
<1>9. TypeOK'
  BY <1>3, <1>5, <1>6, <1>7, <1>8 DEF TypeOK, LocalTypes, OthersSame, Length
<1>10. CountersAgree(h)'
  BY <1>7 DEF CountersAgree, Done
<1>11. HandlerInv(h)'
  BY <1>2, <1>4, <1>6, <1>7, <1>8, <1>10 DEF HandlerInv, Planning, Executing, TryPC
<1>12. Agrees(j)'
  BY <1>2, <1>4, <1>5, <1>6 DEF Agrees, Final
<1> QED BY <1>1, <1>2, <1>5, <1>6, <1>7, <1>9, <1>11, <1>12, WorkingStep

\* What the steps of executePlan have in common before its end.
LEMMA AtTarget ==
    ASSUME RowInv, NEW h \in Handlers, pc[h] \in TryPC \cup {"failStep", "markStale"}
    PROVE  /\ TypeOK /\ HandlerInv(h)
           /\ running[h] \in Jobs /\ running[h] # NoJob /\ Agrees(running[h])
           /\ pc[h] \notin {"idle", "create"}
           /\ next[h] < Length(h) /\ 0 < Length(h)
           /\ Target(h) \in Targets
           /\ job[running[h]] = "RUNNING" /\ CountersAgree(h)
<1>1. pc[h] \notin {"idle", "create"} /\ pc[h] \in Executing /\ pc[h] # "finalize"
  BY DEF TryPC, Executing
<1>2. HandlerInv(h) /\ TypeOK
  BY <1>1, InHand DEF RowInv
<1>3. next[h] < Length(h) /\ job[running[h]] = "RUNNING" /\ CountersAgree(h)
  BY <1>1, <1>2 DEF HandlerInv, TryPC, Executing
<1> QED BY <1>1, <1>2, <1>3, InHand, TargetType

\* Steps that leave the rows of the job alone.
LEMMA LookingStep ==
    ASSUME RowInv, NEW h \in Handlers,
           Evaluate(h) \/ FindMarker(h) \/ ClearMarker(h) \/ Throw(h)
    PROVE  RowInv'
<1>1. /\ pc[h] \in TryPC
      /\ \E label \in {"findMarker", "clearMarker", "finishStep", "failStep"} : Goto(h, label)
      /\ UNCHANGED <<job, step, impact, completion, running, next, successes, failures, refused,
                     crashed>>
  BY DEF Evaluate, FindMarker, ClearMarker, Throw, TryPC, rowVars, historyVars
<1>2. PICK label \in {"findMarker", "clearMarker", "finishStep", "failStep"} : Goto(h, label)
  BY <1>1
<1>3. PICK j \in Jobs : /\ j = running[h] /\ j # NoJob /\ Agrees(j) /\ HandlerInv(h)
                        /\ TypeOK /\ pc[h] \notin {"idle", "create"}
                        /\ next[h] < Length(h) /\ Target(h) \in Targets
                        /\ job[j] = "RUNNING" /\ CountersAgree(h)
  BY <1>1, AtTarget
<1>4. /\ LocalTypes' /\ OthersSame(h)
      /\ pc'[h] = label /\ running'[h] = running[h] /\ next'[h] = next[h]
      /\ successes'[h] = successes[h] /\ failures'[h] = failures[h]
  BY <1>1, <1>2, <1>3, GotoIs DEF PC, TryPC
<1>5. Length(h)' = Length(h) /\ Target(h)' = Target(h)
  BY <1>1 DEF Length, Target
<1>6. marker' \in [Targets -> Marker] /\ newest' \in [Targets -> Nat]
  <2>1. CASE UNCHANGED <<marker, newest>>
    BY <1>3, <2>1 DEF TypeOK
  <2>2. CASE ClearMarker(h) /\ ~UNCHANGED <<marker, newest>>
    <3>1. /\ marker' = [marker EXCEPT ![Target(h)] =
               [status |-> "CLEARED", version |-> marker[Target(h)].version, by |-> j]]
          /\ newest' = [newest EXCEPT ![Target(h)] =
               IF Fingerprint(running[h]) >= newest[Target(h)] THEN 0 ELSE newest[Target(h)]]
      BY <1>3, <2>2 DEF ClearMarker, ClearStaleState
    <3>2. marker[Target(h)] \in Marker /\ newest[Target(h)] \in Nat
      BY <1>3 DEF TypeOK
    <3>3. marker[Target(h)].version \in Nat
      BY <3>2 DEF Marker
    <3>4. [status |-> "CLEARED", version |-> marker[Target(h)].version, by |-> j] \in Marker
      BY <3>3 DEF Marker
    <3> QED BY <1>3, <3>1, <3>2, <3>4 DEF TypeOK
  <2> QED BY <2>1, <2>2 DEF Evaluate, FindMarker, ClearMarker, Throw, rowVars, historyVars
<1>7. TypeOK'
  BY <1>1, <1>3, <1>4, <1>5, <1>6 DEF TypeOK, LocalTypes, Length
<1>8. CountersAgree(h)'
  BY <1>1, <1>3, <1>4, CountersKept DEF TryPC
<1>9. label # "failStep" => step[j][Target(h)] = "RUNNING"
  <2>1. label # "failStep" => pc[h] \in {"evaluate", "findMarker", "clearMarker"}
    BY <1>2, <1>3, <1>4 DEF Evaluate, FindMarker, ClearMarker, Throw, Goto, TypeOK
  <2> QED BY <1>3, <2>1 DEF HandlerInv
<1>10. HandlerInv(h)'
  BY <1>1, <1>3, <1>4, <1>5, <1>8, <1>9 DEF HandlerInv, Planning, Executing, TryPC
<1>11. Agrees(j)'
  BY <1>1, <1>3 DEF Agrees
<1> QED BY <1>1, <1>3, <1>4, <1>7, <1>10, <1>11, WorkingStep

\* Steps that change the status of the step under way, and no counter.
LEMMA StartOrFailStep ==
    ASSUME RowInv, NEW h \in Handlers, StartStep(h) \/ FailStep(h)
    PROVE  RowInv'
<1> DEFINE status == IF pc[h] = "startStep" THEN "RUNNING" ELSE "FAILED"
           label == IF pc[h] = "startStep" THEN "evaluate" ELSE "markStale"
<1>1. /\ pc[h] \in {"startStep", "failStep"}
      /\ step' = [step EXCEPT ![running[h]][Target(h)] = status] /\ Goto(h, label)
      /\ UNCHANGED <<job, impact, marker, completion, running, next, successes, failures, newest,
                     refused, crashed>>
  BY DEF StartStep, FailStep, UpdateStepStatus, historyVars
<1>2. PICK j \in Jobs : /\ j = running[h] /\ j # NoJob /\ Agrees(j) /\ HandlerInv(h)
                        /\ TypeOK /\ pc[h] \notin {"idle", "create"}
                        /\ next[h] < Length(h) /\ Target(h) \in Targets
                        /\ job[j] = "RUNNING" /\ CountersAgree(h)
  BY <1>1, AtTarget DEF TryPC
<1>3. /\ status \in StepStatus /\ label \in {"evaluate", "markStale"}
      /\ label = "evaluate" => status = "RUNNING"
      /\ label = "markStale" => status = "FAILED"
  BY DEF StepStatus
<1> HIDE DEF status, label
<1>4. /\ step' \in [Jobs -> [Targets -> StepStatus]] /\ step'[j][Target(h)] = status
      /\ \A u \in Targets : u # Target(h) => step'[j][u] = step[j][u]
      /\ \A i \in Jobs : i # j => step'[i] = step[i]
  <2>1. step' = [step EXCEPT ![j][Target(h)] = status]
    BY <1>1, <1>2
  <2>2. step \in [Jobs -> [Targets -> StepStatus]]
    BY <1>2 DEF TypeOK
  <2> QED BY <1>2, <1>3, <2>1, <2>2
<1>5. /\ LocalTypes' /\ OthersSame(h)
      /\ pc'[h] = label /\ running'[h] = running[h] /\ next'[h] = next[h]
      /\ successes'[h] = successes[h] /\ failures'[h] = failures[h]
  <2>1. label \in PC
    BY <1>3 DEF PC, TryPC
  <2> QED BY <1>1, <1>2, <2>1, GotoIs
<1>6. Length(h)' = Length(h) /\ Target(h)' = Target(h)
  BY <1>1 DEF Length, Target
<1>7. TypeOK'
  BY <1>1, <1>2, <1>4, <1>5, <1>6 DEF TypeOK, LocalTypes, Length
<1>8. CountersAgree(h)'
  BY <1>1, <1>2, <1>3, <1>4, <1>5, CountersKept
<1>9. HandlerInv(h)'
  BY <1>1, <1>2, <1>3, <1>4, <1>5, <1>6, <1>8 DEF HandlerInv, Planning, Executing, TryPC
<1>10. Agrees(j)'
  BY <1>1, <1>2 DEF Agrees, Final
<1>11. pc'[h] \notin {"idle", "create"}
  BY <1>3, <1>5
<1> QED BY <1>1, <1>2, <1>4, <1>5, <1>7, <1>9, <1>10, <1>11, WorkingStep

\* Steps that count: on to the next target, or to the end.
LEMMA CountingStep ==
    ASSUME RowInv, NEW h \in Handlers, FinishStep(h) \/ MarkStale(h)
    PROVE  RowInv'
<1>1. /\ pc[h] \in {"finishStep", "markStale"} /\ NextTarget(h, "startStep", "finalize")
      /\ UNCHANGED <<job, impact, completion, running, refused, crashed>>
  BY DEF FinishStep, MarkStale, historyVars
<1>2. PICK j \in Jobs : /\ j = running[h] /\ j # NoJob /\ Agrees(j) /\ HandlerInv(h)
                        /\ TypeOK /\ pc[h] \notin {"idle", "create"}
                        /\ next[h] < Length(h) /\ 0 < Length(h) /\ Target(h) \in Targets
                        /\ job[j] = "RUNNING" /\ CountersAgree(h)
  BY <1>1, AtTarget DEF TryPC
<1>3. /\ pc' \in [Handlers -> PC] /\ next' \in [Handlers -> Nat]
      /\ \A g \in Handlers : g # h => pc'[g] = pc[g] /\ next'[g] = next[g]
      /\ \/ pc'[h] = "startStep" /\ next'[h] = next[h] + 1 /\ next[h] + 1 < Length(h)
         \/ pc'[h] = "finalize" /\ next'[h] = 0 /\ next[h] + 1 = Length(h)
  BY <1>1, <1>2, NextTargetIs DEF PC, TryPC
<1>4. /\ step' \in [Jobs -> [Targets -> StepStatus]]
      /\ \A u \in Targets : u # Target(h) => step'[j][u] = step[j][u]
      /\ \A i \in Jobs : i # j => step'[i] = step[i]
      /\ marker' \in [Targets -> Marker] /\ newest' \in [Targets -> Nat]
      /\ successes' \in [Handlers -> Nat] /\ failures' \in [Handlers -> Nat]
      /\ \A g \in Handlers : g # h => successes'[g] = successes[g] /\ failures'[g] = failures[g]
      /\ \/ /\ step'[j][Target(h)] = "SUCCEEDED"
            /\ successes'[h] = successes[h] + 1 /\ failures'[h] = failures[h]
         \/ /\ step'[j][Target(h)] = "FAILED"
            /\ successes'[h] = successes[h] /\ failures'[h] = failures[h] + 1
  <2>1. CASE FinishStep(h)
    <3>1. /\ step' = [step EXCEPT ![j][Target(h)] = "SUCCEEDED"] /\ "SUCCEEDED" \in StepStatus
          /\ successes' = [successes EXCEPT ![h] = successes[h] + 1]
          /\ UNCHANGED <<marker, newest, failures>>
      BY <1>2, <2>1 DEF FinishStep, UpdateStepStatus, StepStatus, historyVars
    <3>2. /\ step' \in [Jobs -> [Targets -> StepStatus]] /\ step'[j][Target(h)] = "SUCCEEDED"
          /\ \A u \in Targets : u # Target(h) => step'[j][u] = step[j][u]
          /\ \A i \in Jobs : i # j => step'[i] = step[i]
      <4>1. step \in [Jobs -> [Targets -> StepStatus]]
        BY <1>2 DEF TypeOK
      <4> QED BY <1>2, <3>1, <4>1
    <3>3. successes' \in [Handlers -> Nat] /\ successes'[h] = successes[h] + 1
          /\ \A g \in Handlers : g # h => successes'[g] = successes[g]
      BY <1>2, <3>1 DEF TypeOK
    <3> QED BY <1>2, <3>1, <3>2, <3>3 DEF TypeOK
  <2>2. CASE MarkStale(h)
    <3>1. /\ pc[h] = "markStale"
          /\ marker' = [marker EXCEPT ![Target(h)] = UpsertedMarker(marker[Target(h)], j)]
          /\ newest' = IF Fingerprint(j) > newest[Target(h)]
                       THEN [newest EXCEPT ![Target(h)] = Fingerprint(j)] ELSE newest
          /\ failures' = [failures EXCEPT ![h] = failures[h] + 1]
          /\ UNCHANGED <<step, successes>>
      BY <1>2, <2>2 DEF MarkStale, UpsertStaleState
    <3>2. step[j][Target(h)] = "FAILED"
      BY <1>2, <3>1 DEF HandlerInv
    <3>3. Fingerprint(j) \in Nat
      BY ReEvaluationAssumption DEF Fingerprint
    <3>4. UpsertedMarker(marker[Target(h)], j) \in Marker
      BY <3>3 DEF UpsertedMarker, Marker
    <3>5. marker' \in [Targets -> Marker] /\ newest' \in [Targets -> Nat]
      BY <1>2, <3>1, <3>3, <3>4 DEF TypeOK
    <3>6. failures' \in [Handlers -> Nat] /\ failures'[h] = failures[h] + 1
          /\ \A g \in Handlers : g # h => failures'[g] = failures[g]
      BY <1>2, <3>1 DEF TypeOK
    <3> QED BY <1>2, <3>1, <3>2, <3>5, <3>6 DEF TypeOK
  <2> QED BY <2>1, <2>2
<1>5. LocalTypes' /\ OthersSame(h) /\ running'[h] = running[h]
  BY <1>1, <1>2, <1>3, <1>4 DEF TypeOK, LocalTypes, OthersSame
<1>6. Length(h)' = Length(h)
  BY <1>1 DEF Length
<1>7. TypeOK'
  <2>1. \A g \in Handlers : g # h => Length(g)' = Length(g)
    BY <1>1 DEF Length
  <2>2. \A g \in Handlers : next'[g] = 0 \/ next'[g] < Length(g)'
    BY <1>2, <1>3, <1>6, <2>1 DEF TypeOK
  <2> QED BY <1>1, <1>2, <1>4, <1>5, <2>2 DEF TypeOK, LocalTypes
<1>8. CountersAgree(h)'
  <2>1. Done(h)' = next[h] + 1
    BY <1>3, <1>6 DEF Done
  <2> QED BY <1>1, <1>2, <1>4, <1>5, <2>1, CountersNext
<1>9. HandlerInv(h)'
  BY <1>1, <1>2, <1>3, <1>5, <1>6, <1>8 DEF HandlerInv, Planning, Executing, TryPC
<1>10. Agrees(j)'
  BY <1>1, <1>2 DEF Agrees, Final
<1>11. pc'[h] \notin {"idle", "create"}
  BY <1>3
<1> QED BY <1>1, <1>2, <1>4, <1>5, <1>7, <1>9, <1>10, <1>11, WorkingStep

\* The status a job ends with is read off the counters.
LEMMA FinalizeStep ==
    ASSUME RowInv, NEW h \in Handlers, Finalize(h)
    PROVE  RowInv'
<1> DEFINE status == FinalStatus(successes[h], failures[h])
<1>1. /\ pc[h] = "finalize" /\ HandlerEnds(h)
      /\ UNCHANGED <<step, impact, marker, newest, refused, crashed>>
  BY DEF Finalize, historyVars
<1>2. PICK j \in Jobs : j = running[h] /\ j # NoJob /\ Agrees(j) /\ HandlerInv(h)
  BY <1>1, InHand
<1>3. TypeOK
  BY DEF RowInv
<1>4. 0 < Length(h) /\ job[j] = "RUNNING" /\ CountersAgree(h)
  BY <1>1, <1>2 DEF HandlerInv, Executing
<1>5. Length(h) = Len(DownstreamTargets(j)) /\ Length(h) \in Nat
  BY <1>2, PlanType DEF Length
<1>6. /\ \A t : t \in Planned(j) <=> \E n \in 1..Length(h) : t = DownstreamTargets(j)[n]
      /\ Planned(j) # {}
  BY <1>4, <1>5 DEF Planned
<1>7. completion[j] = "ABSENT"
  BY <1>2, <1>4, <1>6 DEF Agrees, Final
<1>8. /\ job' = [job EXCEPT ![j] = status]
      /\ completion' = [completion EXCEPT ![j] = status]
  BY <1>2, <1>7 DEF Finalize
<1>9. /\ \A t \in Planned(j) : step[j][t] \in {"SUCCEEDED", "FAILED"}
      /\ failures[h] = 0 <=> \A t \in Planned(j) : step[j][t] = "SUCCEEDED"
      /\ successes[h] = 0 <=> \A t \in Planned(j) : step[j][t] = "FAILED"
  <2>1. Done(h) = Length(h)
    BY <1>1 DEF Done
  <2>2. \A n : StepOf(h, n) = step[j][DownstreamTargets(j)[n]]
    BY <1>2 DEF StepOf
  <2> QED BY <1>4, <1>6, <2>1, <2>2 DEF CountersAgree
<1>10. successes[h] \in Nat /\ failures[h] \in Nat
  BY <1>3 DEF TypeOK
<1>11. /\ status \in Final
       /\ status = "SUCCEEDED" <=> \A t \in Planned(j) : step[j][t] = "SUCCEEDED"
       /\ status = "FAILED" => \A t \in Planned(j) : step[j][t] = "FAILED"
  <2>1. CASE failures[h] = 0
    BY <1>9, <2>1 DEF FinalStatus, Final
  <2>2. CASE failures[h] > 0 /\ successes[h] > 0
    BY <1>9, <1>10, <2>2 DEF FinalStatus, Final
  <2>3. CASE failures[h] > 0 /\ successes[h] = 0
    BY <1>9, <1>10, <2>3 DEF FinalStatus, Final
  <2> QED BY <1>10, <2>1, <2>2, <2>3
<1> HIDE DEF status
<1>12. /\ job' \in [Jobs -> JobStatus] /\ job'[j] = status
       /\ \A i \in Jobs : i # j => job'[i] = job[i]
       /\ completion' \in [Jobs -> Final \cup {"ABSENT"}] /\ completion'[j] = status
       /\ \A i \in Jobs : i # j => completion'[i] = completion[i]
  BY <1>3, <1>8, <1>11 DEF TypeOK, JobStatus
<1>13. /\ LocalTypes' /\ OthersSame(h) /\ pc'[h] = "idle" /\ running'[h] = NoJob
       /\ next'[h] = 0 /\ successes'[h] = 0 /\ failures'[h] = 0
  BY <1>1, <1>3, EndsIs
<1>14. TypeOK'
  BY <1>1, <1>3, <1>12, <1>13 DEF TypeOK, LocalTypes, OthersSame, Length
<1>15. HandlerInv(h)'
  BY <1>13 DEF HandlerInv, Planning, Executing, TryPC
<1>16. Agrees(j)'
  BY <1>1, <1>9, <1>11, <1>12 DEF Agrees
<1>17. status # "ABSENT" /\ status \notin {"PENDING", "RUNNING"}
  BY <1>11 DEF Final
<1> QED BY <1>1, <1>2, <1>12, <1>13, <1>14, <1>15, <1>16, <1>17, WorkingStep

\* The death of a handler leaves its rows as they are.
LEMMA CrashStep ==
    ASSUME RowInv, NEW h \in Handlers, Crash(h)
    PROVE  RowInv'
<1>1. /\ pc[h] # "idle" /\ HandlerEnds(h) /\ crashed' = crashed \cup {running[h]}
      /\ UNCHANGED <<job, step, impact, marker, completion, newest, refused>>
  BY DEF Crash, rowVars
<1>2. TypeOK /\ running[h] \in Jobs
  BY <1>1 DEF RowInv, HandlerInv, TypeOK
<1>3. /\ LocalTypes' /\ OthersSame(h) /\ pc'[h] = "idle" /\ running'[h] = NoJob
      /\ next'[h] = 0 /\ successes'[h] = 0 /\ failures'[h] = 0
  BY <1>1, <1>2, EndsIs
<1>4. TypeOK'
  BY <1>1, <1>2, <1>3 DEF TypeOK, LocalTypes, OthersSame, Length
<1>5. HandlerInv(h)'
  BY <1>3 DEF HandlerInv, Planning, Executing, TryPC
<1>6. CASE pc[h] = "create"
  <2>1. \A g \in Handlers : g # h => HandlerInv(g)'
    BY <1>1, <1>3, OthersKeep DEF RowInv, OthersSame
  <2>2. OneExecutor' /\ FreshInv' /\ OutcomeAgrees'
    BY <1>1, <1>3 DEF RowInv, OneExecutor, OthersSame, FreshInv, OutcomeAgrees
  <2>3. EveryJobAccounted'
    BY <1>1, <1>3, <1>6 DEF RowInv, EveryJobAccounted, OthersSame
  <2> QED BY <1>4, <1>5, <2>1, <2>2, <2>3 DEF RowInv
<1>7. CASE pc[h] # "create"
  <2>1. PICK j \in Jobs : j = running[h] /\ j # NoJob /\ Agrees(j) /\ HandlerInv(h)
    BY <1>1, <1>7, InHand
  <2>2. Agrees(j)'
    BY <1>1, <2>1 DEF Agrees
  <2>3. job[j] # "ABSENT"
    BY <1>1, <1>2, <1>7, <2>1 DEF HandlerInv, Planning, Executing, TypeOK, PC
  <2> QED BY <1>1, <1>3, <1>4, <1>5, <1>7, <2>1, <2>2, <2>3, WorkingStep
<1> QED BY <1>6, <1>7

LEMMA RowStep ==
    ASSUME RowInv, [Next]_vars
    PROVE  RowInv'
<1>1. ASSUME NEW h \in Handlers, NEW j \in Jobs, Find(h, j)
      PROVE  RowInv'
  BY <1>1, FindStep
<1>2. ASSUME NEW h \in Handlers, Step(h)
      PROVE  RowInv'
  BY <1>2, CreateJobStep, NoOpStep, FindImpactStep, CreateImpactStep, CreateStepStep, LeaseStep,
     LookingStep, StartOrFailStep, CountingStep, FinalizeStep DEF Step
<1>3. ASSUME NEW h \in Handlers, Crash(h)
      PROVE  RowInv'
  BY <1>3, CrashStep
<1>4. CASE UNCHANGED vars
  <2>1. UNCHANGED <<job, step, impact, marker, completion, pc, running, next, successes, failures,
                    newest, refused, crashed>>
    BY <1>4 DEF vars, rowVars, handlerVars, historyVars
  <2>2. TypeOK'
    BY <2>1 DEF RowInv, TypeOK, Length
  <2>3. \A h \in Handlers : HandlerInv(h)'
    BY <2>1, OthersKeep DEF RowInv
  <2>4. OneExecutor' /\ FreshInv' /\ OutcomeAgrees' /\ EveryJobAccounted'
    BY <2>1 DEF RowInv, OneExecutor, FreshInv, OutcomeAgrees, EveryJobAccounted
  <2> QED BY <2>2, <2>3, <2>4 DEF RowInv
<1> QED BY <1>1, <1>2, <1>3, <1>4 DEF Next

-------------------------------------------------------------------------------
(* The markers *)

\* A failed step is told by the mark on its target: FailureLeavesMark, about one step.
Told(j, t) == step[j][t] = "FAILED" =>
    marker[t].status = "STALE" \/ ClearedByAnother(j, t) \/ j \in crashed \/ AtMark(j, t)

MarkInv == MarkerInv /\ FailureLeavesMark

LEMMA ToldIs == FailureLeavesMark <=> \A j \in Jobs, t \in Targets : Told(j, t)
BY DEF FailureLeavesMark, Told

\* Whoever is about to mark a target still is, or has died.
MarksPending == \A j, t : AtMark(j, t) => AtMark(j, t)' \/ j \in crashed'

LEMMA OtherMarksPending ==
    ASSUME NEW h \in Handlers, OthersSame(h),
           \/ pc[h] \notin {"failStep", "markStale"}
           \/ running[h] \in crashed'
           \/ /\ pc'[h] \in {"failStep", "markStale"}
              /\ running'[h] = running[h] /\ next'[h] = next[h]
    PROVE  MarksPending
BY DEF MarksPending, AtMark, OthersSame, Target

\* Neither markers nor steps change.
LEMMA QuietMarks ==
    ASSUME MarkInv, MarksPending, UNCHANGED <<marker, step>>, crashed \subseteq crashed'
    PROVE  MarkInv'
<1>1. MarkerInv'
  BY DEF MarkInv, MarkerInv
<1>2. ASSUME NEW j \in Jobs, NEW t \in Targets
      PROVE  Told(j, t)'
  <2> SUFFICES ASSUME step[j][t] = "FAILED", marker[t].status # "STALE", j \notin crashed',
                      ~AtMark(j, t)'
               PROVE  ClearedByAnother(j, t)'
    BY DEF Told
  <2>1. ClearedByAnother(j, t)
    BY ToldIs DEF MarkInv, Told, MarksPending
  <2>2. AtMark(marker[t].by, t) => AtMark(marker[t].by, t)' \/ marker[t].by \in crashed'
    <3>1. \A b : b = marker[t].by /\ AtMark(b, t) => AtMark(b, t)' \/ b \in crashed'
      BY DEF MarksPending
    <3> QED BY <3>1
  <2> QED BY <2>1, <2>2 DEF ClearedByAnother
<1> QED BY <1>1, <1>2 DEF MarkInv, FailureLeavesMark, Told

\* One step changes its status.
LEMMA StepMarks ==
    ASSUME RowInv, MarkInv, MarksPending, UNCHANGED <<marker, crashed>>,
           NEW k \in Jobs, NEW u \in Targets,
           \A j \in Jobs : j # k => step'[j] = step[j],
           \A t \in Targets : t # u => step'[k][t] = step[k][t],
           \/ step'[k][u] \in {"RUNNING", "SUCCEEDED"}
           \/ AtMark(k, u)'
           \/ step'[k][u] # "FAILED" /\ step[k][u] \notin {"RUNNING", "SUCCEEDED"}
    PROVE  MarkInv'
<1>1. MarkerInv'
  BY DEF MarkInv, MarkerInv
<1>2. ASSUME NEW j \in Jobs, NEW t \in Targets
      PROVE  Told(j, t)'
  <2> SUFFICES ASSUME step'[j][t] = "FAILED", marker[t].status # "STALE", j \notin crashed,
                      ~AtMark(j, t)'
               PROVE  ClearedByAnother(j, t)'
    BY DEF Told
  <2>1. ~(j = k /\ t = u)
    BY DEF Told
  <2>2. step[j][t] = "FAILED"
    BY <2>1
  <2>3. ClearedByAnother(j, t)
    BY <2>2, ToldIs DEF MarkInv, Told, MarksPending
  <2>4. PICK b \in Jobs : b = marker[t].by
    BY <2>3 DEF MarkInv, MarkerInv, ClearedByAnother
  <2>5. /\ marker[t].status = "CLEARED" /\ b # j
        /\ step[b][t] \in {"RUNNING", "SUCCEEDED"} \/ b \in crashed \/ AtMark(b, t)
    BY <2>3, <2>4 DEF ClearedByAnother
  <2>6. step'[b][t] \in {"RUNNING", "SUCCEEDED"} \/ b \in crashed' \/ AtMark(b, t)'
    <3>1. CASE b = k /\ t = u
      BY <2>5, <3>1 DEF MarksPending
    <3>2. CASE ~(b = k /\ t = u)
      BY <2>5, <3>2 DEF MarksPending
    <3> QED BY <3>1, <3>2
  <2>7. marker'[t].by = b /\ marker'[t].status = "CLEARED"
    BY <2>4, <2>5
  <2>8. AtMark(b, t)' <=> AtMark(marker[t].by, t)'
    BY <2>4, <2>7 DEF AtMark
  <2> QED BY <2>5, <2>6, <2>7, <2>8 DEF ClearedByAnother
<1> QED BY <1>1, <1>2 DEF MarkInv, FailureLeavesMark, Told

\* A job that clears a marker has evaluated the target.
LEMMA ClearMarks ==
    ASSUME RowInv, MarkInv, NEW h \in Handlers, ClearMarker(h)
    PROVE  MarkInv'
<1>1. pc[h] = "clearMarker" /\ Goto(h, "finishStep")
      /\ UNCHANGED <<step, running, next, successes, failures, crashed>>
  BY DEF ClearMarker
<1>2. PICK k \in Jobs : k = running[h] /\ HandlerInv(h) /\ TypeOK /\ Target(h) \in Targets
  BY <1>1, AtTarget DEF TryPC
<1>3. OthersSame(h)
  BY <1>1, <1>2, GotoIs DEF PC, TryPC
<1>4. MarksPending
  BY <1>1, <1>3, OtherMarksPending
<1>5. CASE UNCHANGED marker
  BY <1>1, <1>4, <1>5, QuietMarks
<1>6. CASE marker' # marker
  <2>1. PICK u \in Targets : u = Target(h)
    BY <1>2
  <2>2. marker' = [marker EXCEPT ![u] =
          [status |-> "CLEARED", version |-> marker[u].version, by |-> k]]
    BY <1>2, <1>6, <2>1 DEF ClearMarker, ClearStaleState
  <2>3. /\ marker'[u].status = "CLEARED" /\ marker'[u].by = k
        /\ \A t \in Targets : t # u => marker'[t] = marker[t]
    BY <1>2, <2>2 DEF TypeOK
  <2>4. step[k][u] = "RUNNING"
    BY <1>1, <1>2, <2>1 DEF HandlerInv
  <2>5. MarkerInv'
    BY <2>3 DEF MarkInv, MarkerInv
  <2>6. ASSUME NEW j \in Jobs, NEW t \in Targets
        PROVE  Told(j, t)'
    <3> SUFFICES ASSUME step[j][t] = "FAILED", marker'[t].status # "STALE", j \notin crashed,
                        ~AtMark(j, t)'
                 PROVE  ClearedByAnother(j, t)'
      BY <1>1 DEF Told
    <3>1. CASE t = u
      BY <1>1, <2>3, <2>4, <3>1 DEF ClearedByAnother
    <3>2. CASE t # u
      <4>1. marker'[t] = marker[t]
        BY <2>3, <3>2
      <4>2. ClearedByAnother(j, t)
        BY <1>1, <1>4, <4>1, ToldIs DEF MarkInv, Told, MarksPending
      <4>3. PICK b \in Jobs : b = marker[t].by
        BY <4>2 DEF MarkInv, MarkerInv, ClearedByAnother
      <4>4. AtMark(b, t) => AtMark(b, t)' \/ b \in crashed'
        BY <1>4 DEF MarksPending
      <4>5. AtMark(b, t)' <=> AtMark(marker[t].by, t)'
        BY <4>1, <4>3 DEF AtMark
      <4>6. AtMark(b, t) <=> AtMark(marker[t].by, t)
        BY <4>3
      <4> QED BY <1>1, <4>1, <4>2, <4>3, <4>4, <4>5, <4>6 DEF ClearedByAnother
    <3> QED BY <3>1, <3>2
  <2> QED BY <2>5, <2>6 DEF MarkInv, FailureLeavesMark, Told
<1> QED BY <1>5, <1>6

\* A mark that is set tells of every failure at its target.
LEMMA SetMarks ==
    ASSUME RowInv, MarkInv, NEW h \in Handlers, MarkStale(h)
    PROVE  MarkInv'
<1>1. /\ pc[h] = "markStale" /\ NextTarget(h, "startStep", "finalize")
      /\ failures' = [failures EXCEPT ![h] = failures[h] + 1]
      /\ UNCHANGED <<step, running, successes, crashed>>
  BY DEF MarkStale
<1>2. PICK k \in Jobs : /\ k = running[h] /\ TypeOK /\ Target(h) \in Targets
                        /\ next[h] < Length(h)
  BY <1>1, AtTarget
<1>3. OthersSame(h)
  BY <1>1, <1>2, NextTargetIs DEF PC, TryPC, TypeOK, OthersSame
<1>4. PICK u \in Targets : u = Target(h)
  BY <1>2
<1>5. marker' = [marker EXCEPT ![u] = UpsertedMarker(marker[u], k)]
  BY <1>2, <1>4 DEF MarkStale, UpsertStaleState
<1>6. marker'[u].status = "STALE" /\ \A t \in Targets : t # u => marker'[t] = marker[t]
  BY <1>2, <1>5 DEF TypeOK, UpsertedMarker
<1>7. MarkerInv'
  BY <1>6 DEF MarkInv, MarkerInv
<1>8. \A j, t : t # u /\ AtMark(j, t) => AtMark(j, t)'
  BY <1>3, <1>4 DEF AtMark, OthersSame, Target
<1>9. ASSUME NEW j \in Jobs, NEW t \in Targets
      PROVE  Told(j, t)'
  <2> SUFFICES ASSUME step[j][t] = "FAILED", marker'[t].status # "STALE", j \notin crashed,
                      ~AtMark(j, t)'
               PROVE  ClearedByAnother(j, t)'
    BY <1>1 DEF Told
  <2>1. t # u /\ marker'[t] = marker[t]
    BY <1>6
  <2>2. ClearedByAnother(j, t)
    BY <1>8, <2>1, ToldIs DEF MarkInv, Told
  <2>3. PICK b \in Jobs : b = marker[t].by
    BY <2>2 DEF MarkInv, MarkerInv, ClearedByAnother
  <2>4. AtMark(b, t) => AtMark(b, t)'
    BY <1>8, <2>1
  <2>5. AtMark(b, t)' <=> AtMark(marker[t].by, t)'
    BY <2>1, <2>3 DEF AtMark
  <2>6. AtMark(b, t) <=> AtMark(marker[t].by, t)
    BY <2>3
  <2> QED BY <1>1, <2>1, <2>2, <2>3, <2>4, <2>5, <2>6 DEF ClearedByAnother
<1> QED BY <1>7, <1>9 DEF MarkInv, FailureLeavesMark, Told

LEMMA MarkStep ==
    ASSUME RowInv, MarkInv, [Next]_vars
    PROVE  MarkInv'
<1>1. ASSUME NEW h \in Handlers, NEW j \in Jobs, Find(h, j)
      PROVE  MarkInv'
  <2>1. UNCHANGED <<step, marker, crashed>> /\ pc[h] = "idle" /\ OthersSame(h)
    BY <1>1 DEF Find, Goto, rowVars, historyVars, OthersSame, RowInv, TypeOK
  <2> QED BY <2>1, OtherMarksPending, QuietMarks
<1>2. ASSUME NEW h \in Handlers, CreateJob(h) \/ NoOp(h) \/ CreateImpact(h) \/ Lease(h) \/ Finalize(h)
      PROVE  MarkInv'
  <2>1. UNCHANGED <<step, marker, crashed>> /\ pc[h] \notin {"failStep", "markStale"}
    BY <1>2 DEF CreateJob, NoOp, CreateImpact, Lease, Finalize, historyVars
  <2>2. OthersSame(h)
    <3>1. CASE HandlerEnds(h)
      BY <3>1, EndsIs DEF RowInv
    <3>2. ASSUME NEW label \in PC, Goto(h, label), UNCHANGED <<running, next, successes, failures>>
          PROVE  OthersSame(h)
      BY <3>2, GotoIs DEF RowInv
    <3>3. CASE NextTarget(h, "findImpact", "createStep") /\ UNCHANGED <<running, successes, failures>>
      BY <3>3 DEF NextTarget, Goto, OthersSame, RowInv, TypeOK
    <3> QED BY <1>2, <3>1, <3>2, <3>3 DEF CreateJob, NoOp, CreateImpact, Lease, Finalize, PC, TryPC
  <2> QED BY <2>1, <2>2, OtherMarksPending, QuietMarks
<1>3. ASSUME NEW h \in Handlers, FindImpact(h) \/ Evaluate(h) \/ FindMarker(h) \/ Throw(h)
      PROVE  MarkInv'
  <2>1. UNCHANGED <<step, marker, crashed>> /\ pc[h] \notin {"failStep", "markStale"}
    BY <1>3 DEF FindImpact, Evaluate, FindMarker, Throw, TryPC, rowVars, historyVars
  <2>2. OthersSame(h)
    BY <1>3 DEF FindImpact, Evaluate, FindMarker, Throw, NextTarget, Goto, OthersSame, RowInv, TypeOK
  <2> QED BY <2>1, <2>2, OtherMarksPending, QuietMarks
<1>4. ASSUME NEW h \in Handlers, CreateStep(h)
      PROVE  MarkInv'
  <2>1. /\ pc[h] = "createStep" /\ NextTarget(h, "createStep", "lease")
        /\ step' = [step EXCEPT ![running[h]][Target(h)] = "PENDING"]
        /\ UNCHANGED <<marker, crashed, running, successes, failures>>
    BY <1>4 DEF CreateStep, historyVars
  <2>2. PICK k \in Jobs : k = running[h] /\ HandlerInv(h) /\ TypeOK
    BY <2>1, InHand DEF RowInv
  <2>3. next[h] < Length(h) /\ \A t \in Targets : step[k][t] \in {"ABSENT", "PENDING"}
    BY <2>1, <2>2 DEF HandlerInv, Planning
  <2>4. PICK u \in Targets : u = Target(h)
    BY <2>2, <2>3, TargetType
  <2>5. /\ \A j \in Jobs : j # k => step'[j] = step[j]
        /\ \A t \in Targets : t # u => step'[k][t] = step[k][t]
        /\ step'[k][u] = "PENDING"
    BY <2>1, <2>2, <2>4 DEF TypeOK
  <2>6. OthersSame(h)
    BY <2>1, <2>2 DEF NextTarget, Goto, OthersSame, TypeOK
  <2>7. MarksPending
    BY <2>1, <2>6, OtherMarksPending
  <2>8. step[k][u] \notin {"RUNNING", "SUCCEEDED"}
    BY <2>3
  <2> QED BY <2>1, <2>5, <2>7, <2>8, StepMarks
<1>5. ASSUME NEW h \in Handlers, StartStep(h) \/ FinishStep(h) \/ FailStep(h)
      PROVE  MarkInv'
  <2>1. /\ pc[h] \in TryPC \cup {"failStep"} /\ pc[h] # "markStale"
        /\ UNCHANGED <<marker, crashed, running, failures>>
    BY <1>5 DEF StartStep, FinishStep, FailStep, TryPC, historyVars
  <2>2. PICK k \in Jobs : k = running[h] /\ TypeOK /\ Target(h) \in Targets
    BY <2>1, AtTarget
  <2>3. PICK u \in Targets : u = Target(h)
    BY <2>2
  <2>4. PICK status \in {"RUNNING", "SUCCEEDED", "FAILED"} :
          /\ step' = [step EXCEPT ![k][u] = status]
          /\ status = "FAILED" => FailStep(h)
    BY <1>5, <2>2, <2>3 DEF StartStep, FinishStep, FailStep, UpdateStepStatus
  <2>5. /\ \A j \in Jobs : j # k => step'[j] = step[j]
        /\ \A t \in Targets : t # u => step'[k][t] = step[k][t]
        /\ step'[k][u] = status
    BY <2>2, <2>4 DEF TypeOK
  <2>6. OthersSame(h)
    BY <1>5, <2>1, <2>2 DEF StartStep, FinishStep, FailStep, NextTarget, Goto, OthersSame, TypeOK
  <2>7. FailStep(h) => pc'[h] = "markStale" /\ running'[h] = k /\ next'[h] = next[h]
    BY <2>1, <2>2 DEF FailStep, Goto, TypeOK
  <2>8. FailStep(h) => Target(h)' = u
    BY <2>2, <2>3, <2>7 DEF Target
  <2>9. status = "FAILED" => AtMark(k, u)'
    BY <2>4, <2>7, <2>8 DEF AtMark
  <2>10. ~FailStep(h) => pc[h] # "failStep"
    BY <1>5 DEF StartStep, FinishStep
  <2>11. MarksPending
    BY <2>1, <2>2, <2>6, <2>7, <2>10, OtherMarksPending
  <2> QED BY <2>1, <2>4, <2>5, <2>9, <2>11, StepMarks
<1>6. ASSUME NEW h \in Handlers, ClearMarker(h)
      PROVE  MarkInv'
  BY <1>6, ClearMarks
<1>7. ASSUME NEW h \in Handlers, MarkStale(h)
      PROVE  MarkInv'
  BY <1>7, SetMarks
<1>8. ASSUME NEW h \in Handlers, Crash(h)
      PROVE  MarkInv'
  <2>1. /\ UNCHANGED <<step, marker>> /\ crashed' = crashed \cup {running[h]} /\ HandlerEnds(h)
    BY <1>8 DEF Crash, rowVars
  <2>2. OthersSame(h)
    BY <2>1, EndsIs DEF RowInv
  <2>3. MarksPending
    BY <2>1, <2>2, OtherMarksPending
  <2> QED BY <2>1, <2>3, QuietMarks
<1>9. CASE UNCHANGED vars
  <2>1. UNCHANGED <<step, marker, crashed, pc, running, next>>
    BY <1>9 DEF vars, rowVars, handlerVars, historyVars
  <2>2. MarksPending
    BY <2>1 DEF MarksPending, AtMark, Target
  <2> QED BY <2>1, <2>2, QuietMarks
<1> QED BY <1>1, <1>2, <1>3, <1>4, <1>5, <1>6, <1>7, <1>8, <1>9 DEF Next, Step

-------------------------------------------------------------------------------
(* Theorems *)

LEMMA InvInit == Init => IInv
<1> SUFFICES ASSUME Init PROVE IInv
  OBVIOUS
<1>1. TypeOK
  <2>1. NoMarker \in Marker
    BY DEF NoMarker, Marker
  <2> QED BY <2>1 DEF Init, TypeOK, JobStatus, StepStatus, PC
<1>2. \A h \in Handlers : HandlerInv(h)
  BY DEF Init, HandlerInv, Planning, Executing, TryPC
<1>3. OneExecutor /\ FreshInv /\ EveryJobAccounted
  BY DEF Init, OneExecutor, FreshInv, EveryJobAccounted
<1>4. MarkerInv /\ FailureLeavesMark
  BY DEF Init, MarkerInv, NoMarker, FailureLeavesMark
<1>5. OutcomeAgrees
  BY DEF Init, OutcomeAgrees, Final
<1> QED BY <1>1, <1>2, <1>3, <1>4, <1>5 DEF IInv

\* The invariant above holds in every reachable state, for any handlers, jobs, targets and
\* any number of deaths.
THEOREM ReEvaluationInvariance == Spec => []IInv
<1>1. IInv /\ [Next]_vars => IInv'
  <2>1. IInv <=> RowInv /\ MarkInv
    BY DEF IInv, RowInv, MarkInv
  <2>2. IInv' <=> RowInv' /\ MarkInv'
    BY DEF IInv, RowInv, MarkInv
  <2> QED BY <2>1, <2>2, RowStep, MarkStep
<1> QED BY <1>1, InvInit, PTL DEF Spec

\* The types of the rows and of what the handlers remember; no handler runs past its plan.
THEOREM ReEvaluationTypeCorrectness == Spec => []TypeOK
<1>1. IInv => TypeOK
  BY DEF IInv
<1> QED BY <1>1, ReEvaluationInvariance, PTL

\* However many requests carry an idempotency key, one handler creates and executes its job.
THEOREM OneHandlerPerJob == Spec => []OneExecutor
<1>1. IInv => OneExecutor
  BY DEF IInv
<1> QED BY <1>1, ReEvaluationInvariance, PTL

\* The mark on the target, the status of the job and its event tell what failed.
THEOREM FailuresAreTold == Spec => []FailureIsTold
<1>1. IInv => FailureIsTold
  BY DEF IInv, FailureIsTold
<1> QED BY <1>1, ReEvaluationInvariance, PTL

\* A job that has not ended is in a handler's hands, or its handler died or was refused.
THEOREM JobsAreAccounted == Spec => []EveryJobAccounted
<1>1. IInv => EveryJobAccounted
  BY DEF IInv
<1> QED BY <1>1, ReEvaluationInvariance, PTL

\* Only a job that evaluated the version of a mark clears it, whatever other jobs did to
\* the mark between its look and its update.
THEOREM ClearingIsByVersion == Spec => ClearedByItsVersion
<1>1. IInv /\ [Next]_vars => [\A t \in Targets :
        marker[t].status = "STALE" /\ marker'[t].status = "CLEARED" =>
            \E h \in Handlers : /\ pc[h] = "clearMarker"
                                /\ Target(h) = t
                                /\ marker'[t].by = running[h]
                                /\ FactVersion[running[h]] = marker[t].version]_vars
  <2> SUFFICES ASSUME IInv, Next, NEW t \in Targets,
                      marker[t].status = "STALE", marker'[t].status = "CLEARED"
               PROVE  \E h \in Handlers : /\ pc[h] = "clearMarker"
                                          /\ Target(h) = t
                                          /\ marker'[t].by = running[h]
                                          /\ FactVersion[running[h]] = marker[t].version
    OBVIOUS
  <2>1. marker \in [Targets -> Marker] /\ marker'[t] # marker[t]
    BY DEF IInv, TypeOK
  <2>2. ASSUME NEW h \in Handlers, MarkStale(h)
        PROVE  FALSE
    BY <2>1, <2>2 DEF MarkStale, UpsertStaleState, UpsertedMarker
  <2>3. PICK h \in Handlers : ClearMarker(h)
    BY <2>1, <2>2 DEF Next, Step, Find, Crash, CreateJob, NoOp, FindImpact, CreateImpact, CreateStep,
       Lease, StartStep, Evaluate, FindMarker, FinishStep, Throw, FailStep, Finalize, rowVars
  <2>4. /\ pc[h] = "clearMarker"
        /\ marker[Target(h)].version = FactVersion[running[h]]
        /\ marker' = [marker EXCEPT ![Target(h)] = [status |-> "CLEARED",
                        version |-> marker[Target(h)].version, by |-> running[h]]]
    BY <2>1, <2>3 DEF ClearMarker, ClearStaleState, Clearable, Fingerprint
  <2>5. t = Target(h)
    BY <2>1, <2>4
  <2>6. marker'[t].by = running[h]
    BY <2>1, <2>4, <2>5
  <2> QED BY <2>4, <2>5, <2>6
<1> QED BY <1>1, ReEvaluationInvariance, PTL DEF Spec, ClearedByItsVersion
================================================================================

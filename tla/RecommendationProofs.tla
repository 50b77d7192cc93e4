-------------------------- MODULE RecommendationProofs --------------------------
(* However many evaluations and generations overlap, a recommendation can be     *)
(* traced back to one set of facts.  A request remembers what was newest when it *)
(* began; since rows are only ever appended, that is enough to compare what it    *)
(* stores with everything stored meanwhile.  And whatever the rules are, an answer *)
(* to an open question only helps, as long as no rule asks for an absence.         *)
EXTENDS Recommendation, FiniteSetTheorems, SequenceTheorems, NaturalsInduction,
        WellFoundedInduction, TLAPS

(* The invariant *)

\* The trace a row names says what the row says.
Traced(row) == row.trace \in DOMAIN traces /\ traces[row.trace] = NewTrace(row)

\* Rows that were there when the facts were read do not rest on newer facts.
EvaluationInv == \A r \in Evaluations : evalPc[r] \in {"storeTrace", "storeSnapshot"} =>
    /\ evalLocal[r].version <= factsVersion
    /\ evalLocal[r].began <= Len(snapshots)
    /\ \A i \in 1..evalLocal[r].began : snapshots[i].version <= evalLocal[r].version
    /\ evalPc[r] = "storeSnapshot" => Traced(evalLocal[r])

SnapshotInv == \A i \in DOMAIN snapshots :
    snapshots[i].version <= factsVersion /\ Traced(snapshots[i])

SnapshotOrder == \A i, j \in DOMAIN snapshots :
    i < j /\ snapshots[j].version < snapshots[i].version => snapshots[j].began < i

\* What a request remembers is still there, and no row stored before it began is newer.
Remembers(pc, local) ==
    /\ local.eligibility \in DOMAIN snapshots
    /\ local.began <= Len(recSnapshots)
    /\ \A i \in 1..local.began : recSnapshots[i].eligibility <= local.eligibility
    /\ pc # "storeRecommendation" =>
         \E k \in DOMAIN recommendations : recommendations[k] = local.eligibility
    /\ pc = "storeSnapshot" =>
         /\ local.portfolio \in DOMAIN portfolios
         /\ portfolios[local.portfolio] = local.eligibility

Storing == {"storeRecommendation", "storePortfolio", "storeSnapshot"}

GenerationInv == \A r \in Generations : recPc[r] \in Storing => Remembers(recPc[r], recLocal[r])

RecSnapshotInv == \A i \in DOMAIN recSnapshots :
    /\ recSnapshots[i].eligibility \in DOMAIN snapshots
    /\ recSnapshots[i].trace = snapshots[recSnapshots[i].eligibility].trace
    /\ recSnapshots[i].portfolio \in DOMAIN portfolios
    /\ portfolios[recSnapshots[i].portfolio] = recSnapshots[i].eligibility
    /\ \E k \in DOMAIN recommendations : recommendations[k] = recSnapshots[i].eligibility

RecSnapshotOrder == \A i, j \in DOMAIN recSnapshots :
    i < j /\ recSnapshots[j].eligibility < recSnapshots[i].eligibility => recSnapshots[j].began < i

EligibilityInv == EligibilityTypeOK /\ EvaluationInv /\ SnapshotInv /\ SnapshotOrder

RecommendationInv == RecommendationTypeOK /\ GenerationInv /\ RecSnapshotInv /\ RecSnapshotOrder

DecisionInv == EligibilityInv /\ RecommendationInv

-------------------------------------------------------------------------------
(* Rows are only appended *)

\* What Append leaves and what it adds.
LEMMA AppendRow ==
    ASSUME NEW S, NEW s \in Seq(S), NEW x \in S
    PROVE  /\ Append(s, x) \in Seq(S)
           /\ Len(s) \in Nat /\ Len(Append(s, x)) = Len(s) + 1
           /\ DOMAIN s = 1..Len(s) /\ DOMAIN Append(s, x) = 1..(Len(s) + 1)
           /\ \A i \in 1..Len(s) : Append(s, x)[i] = s[i]
           /\ Append(s, x)[Len(s) + 1] = x
OBVIOUS

\* A verdict is one of the two, whatever the rules are.
LEMMA VerdictType == \A known : Verdict(known) \in EligibilityStatus
BY DEF Verdict, EligibilityStatus

\* The types of what the steps read.
LEMMA EligibilityTypes ==
    ASSUME EligibilityTypeOK
    PROVE  /\ factsVersion \in Nat
           /\ Len(traces) \in Nat /\ DOMAIN traces = 1..Len(traces)
           /\ Len(snapshots) \in Nat /\ DOMAIN snapshots = 1..Len(snapshots)
           /\ \A i \in 1..Len(snapshots) : /\ snapshots[i].version \in Nat
                                          /\ snapshots[i].began \in Nat
                                          /\ snapshots[i].trace \in Nat
           /\ \A r \in Evaluations : /\ evalLocal[r] \in EvalLocal
                                    /\ evalLocal[r].status \in EligibilityStatus
                                    /\ evalLocal[r].version \in Nat
                                    /\ evalLocal[r].began \in Nat
                                    /\ evalLocal[r].trace \in Nat
<1>1. \A i \in 1..Len(snapshots) : snapshots[i] \in SnapshotRow
  BY DEF EligibilityTypeOK
<1>2. \A r \in Evaluations : evalLocal[r] \in EvalLocal
  BY DEF EligibilityTypeOK
<1>3. Len(traces) \in Nat /\ DOMAIN traces = 1..Len(traces)
  BY DEF EligibilityTypeOK
<1>4. Len(snapshots) \in Nat /\ DOMAIN snapshots = 1..Len(snapshots)
  BY DEF EligibilityTypeOK
<1> QED BY <1>1, <1>2, <1>3, <1>4 DEF EligibilityTypeOK, SnapshotRow, EvalLocal

\* A request overwrites only what it remembers itself.
LEMMA LocalUpdate ==
    ASSUME EligibilityTypeOK, NEW r \in Evaluations, NEW x \in EvalLocal,
           evalLocal' = [evalLocal EXCEPT ![r] = x]
    PROVE  /\ evalLocal' \in [Evaluations -> EvalLocal]
           /\ evalLocal'[r] = x
           /\ \A m \in Evaluations : m # r => evalLocal'[m] = evalLocal[m]
BY DEF EligibilityTypeOK

LEMMA StageUpdate ==
    ASSUME EligibilityTypeOK, NEW r \in Evaluations, NEW pc \in EvalPC,
           evalPc' = [evalPc EXCEPT ![r] = pc]
    PROVE  /\ evalPc' \in [Evaluations -> EvalPC]
           /\ evalPc'[r] = pc
           /\ \A m \in Evaluations : m # r => evalPc'[m] = evalPc[m]
BY DEF EligibilityTypeOK

-------------------------------------------------------------------------------
(* Evaluations *)

LEMMA EvaluateStep ==
    ASSUME EligibilityInv, NEW r \in Evaluations, Evaluate(r)
    PROVE  EligibilityInv'
<1> USE DEF EligibilityInv
<1> DEFINE x == [evalLocal[r] EXCEPT
                   !.status = Verdict(facts), !.version = factsVersion, !.began = Len(snapshots)]
<1>1. UNCHANGED <<facts, factsVersion, traces, snapshots>>
  BY DEF Evaluate
<1>2. /\ evalPc' = [evalPc EXCEPT ![r] = "storeTrace"]
      /\ evalLocal' = [evalLocal EXCEPT ![r] = x]
  BY DEF Evaluate, EvalGo, LatestSnapshot
<1>3. Verdict(facts) \in EligibilityStatus
  BY VerdictType
<1>4. x \in EvalLocal /\ x.version = factsVersion /\ x.began = Len(snapshots)
  BY <1>3, EligibilityTypes DEF EvalLocal
<1> HIDE DEF x
<1>5. /\ evalLocal' \in [Evaluations -> EvalLocal] /\ evalLocal'[r] = x
      /\ \A m \in Evaluations : m # r => evalLocal'[m] = evalLocal[m]
  BY <1>2, <1>4, LocalUpdate
<1>6. /\ evalPc' \in [Evaluations -> EvalPC] /\ evalPc'[r] = "storeTrace"
      /\ \A m \in Evaluations : m # r => evalPc'[m] = evalPc[m]
  BY <1>2, StageUpdate DEF EvalPC
<1>7. EligibilityTypeOK'
  BY <1>1, <1>5, <1>6 DEF EligibilityTypeOK
<1>8. EvaluationInv'
  <2> SUFFICES ASSUME NEW m \in Evaluations, evalPc'[m] \in {"storeTrace", "storeSnapshot"}
               PROVE  /\ evalLocal'[m].version <= factsVersion
                      /\ evalLocal'[m].began <= Len(snapshots)
                      /\ \A i \in 1..evalLocal'[m].began :
                            snapshots[i].version <= evalLocal'[m].version
                      /\ evalPc'[m] = "storeSnapshot" => Traced(evalLocal'[m])
    BY <1>1 DEF EvaluationInv, Traced
  <2>1. CASE m = r
    BY <1>4, <1>5, <1>6, <2>1, EligibilityTypes DEF SnapshotInv
  <2>2. CASE m # r
    BY <1>5, <1>6, <2>2 DEF EvaluationInv
  <2> QED BY <2>1, <2>2
<1>9. SnapshotInv' /\ SnapshotOrder'
  BY <1>1 DEF SnapshotInv, SnapshotOrder, Traced
<1> QED BY <1>7, <1>8, <1>9

LEMMA StoreTraceStep ==
    ASSUME EligibilityInv, NEW r \in Evaluations, StoreTrace(r)
    PROVE  EligibilityInv'
<1> USE DEF EligibilityInv
<1>1. CASE rules = <<>>
  <2>1. UNCHANGED <<facts, factsVersion, traces, snapshots, evalLocal>>
        /\ evalPc' = [evalPc EXCEPT ![r] = "failed"]
    BY <1>1 DEF StoreTrace, EvalGo
  <2> QED BY <2>1 DEF EligibilityTypeOK, EvalPC, EvaluationInv, SnapshotInv, SnapshotOrder, Traced
<1>2. CASE rules # <<>>
  <2> DEFINE row == NewTrace(evalLocal[r])
  <2>1. /\ UNCHANGED <<facts, factsVersion, snapshots>>
        /\ evalPc[r] = "storeTrace"
        /\ evalPc' = [evalPc EXCEPT ![r] = "storeSnapshot"]
        /\ traces' = Append(traces, row)
        /\ evalLocal' = [evalLocal EXCEPT ![r].trace = Len(traces) + 1]
    BY <1>2 DEF StoreTrace, EvalGo
  <2>2. row \in TraceRow /\ traces \in Seq(TraceRow)
    BY DEF NewTrace, TraceRow, EligibilityTypeOK, EvalLocal
  <2> HIDE DEF row
  <2>3. /\ traces' \in Seq(TraceRow) /\ Len(traces) \in Nat
        /\ DOMAIN traces = 1..Len(traces) /\ DOMAIN traces' = 1..(Len(traces) + 1)
        /\ \A i \in DOMAIN traces : traces'[i] = traces[i]
        /\ traces'[Len(traces) + 1] = row
    BY <2>1, <2>2, AppendRow
  <2> DEFINE x == [evalLocal[r] EXCEPT !.trace = Len(traces) + 1]
  <2>4. /\ x \in EvalLocal /\ x.trace = Len(traces) + 1
        /\ x.version = evalLocal[r].version /\ x.began = evalLocal[r].began
        /\ NewTrace(x) = row
    BY EligibilityTypes DEF EvalLocal, NewTrace, row
  <2>5. evalLocal' = [evalLocal EXCEPT ![r] = x]
    BY <2>1
  <2> HIDE DEF x
  <2>6. /\ evalLocal' \in [Evaluations -> EvalLocal] /\ evalLocal'[r] = x
        /\ \A m \in Evaluations : m # r => evalLocal'[m] = evalLocal[m]
    BY <2>4, <2>5, LocalUpdate
  <2>7. /\ evalPc' \in [Evaluations -> EvalPC] /\ evalPc'[r] = "storeSnapshot"
        /\ \A m \in Evaluations : m # r => evalPc'[m] = evalPc[m]
    BY <2>1, StageUpdate DEF EvalPC
  <2>8. EligibilityTypeOK'
    BY <2>1, <2>3, <2>6, <2>7 DEF EligibilityTypeOK
  <2>9. \A y : Traced(y) => y.trace \in DOMAIN traces' /\ traces'[y.trace] = NewTrace(y)
    BY <2>3 DEF Traced
  <2>10. x.trace \in DOMAIN traces' /\ traces'[x.trace] = NewTrace(x)
    BY <2>3, <2>4
  <2>11. EvaluationInv'
    <3> SUFFICES ASSUME NEW m \in Evaluations, evalPc'[m] \in {"storeTrace", "storeSnapshot"}
                 PROVE  /\ evalLocal'[m].version <= factsVersion
                        /\ evalLocal'[m].began <= Len(snapshots)
                        /\ \A i \in 1..evalLocal'[m].began :
                              snapshots[i].version <= evalLocal'[m].version
                        /\ evalPc'[m] = "storeSnapshot" =>
                              /\ evalLocal'[m].trace \in DOMAIN traces'
                              /\ traces'[evalLocal'[m].trace] = NewTrace(evalLocal'[m])
      BY <2>1 DEF EvaluationInv, Traced, NewTrace
    <3>1. CASE m = r
      BY <2>1, <2>4, <2>6, <2>7, <2>10, <3>1 DEF EvaluationInv
    <3>2. CASE m # r
      BY <2>6, <2>7, <2>9, <3>2 DEF EvaluationInv
    <3> QED BY <3>1, <3>2
  <2>12. SnapshotInv' /\ SnapshotOrder'
    BY <2>1, <2>9 DEF SnapshotInv, SnapshotOrder, Traced, NewTrace
  <2> QED BY <2>8, <2>11, <2>12
<1> QED BY <1>1, <1>2

LEMMA StoreSnapshotStep ==
    ASSUME EligibilityInv, NEW r \in Evaluations, StoreSnapshot(r)
    PROVE  EligibilityInv'
<1> USE DEF EligibilityInv
<1> DEFINE row == NewSnapshot(evalLocal[r])
<1>1. /\ UNCHANGED <<facts, factsVersion, traces, evalLocal>>
      /\ evalPc[r] = "storeSnapshot"
      /\ evalPc' = [evalPc EXCEPT ![r] = "report"]
      /\ snapshots' = Append(snapshots, row)
  BY DEF StoreSnapshot, EvalGo
<1>2. /\ Traced(evalLocal[r])
      /\ evalLocal[r].version <= factsVersion
      /\ \A i \in 1..evalLocal[r].began : snapshots[i].version <= evalLocal[r].version
      /\ evalLocal[r].began <= Len(snapshots)
  BY <1>1 DEF EvaluationInv
<1>3. row \in SnapshotRow
  BY <1>2 DEF Traced, NewSnapshot, SnapshotRow, EligibilityTypeOK, EvalLocal
<1>4. /\ row.version = evalLocal[r].version /\ row.began = evalLocal[r].began
      /\ Traced(row)
  BY <1>2 DEF NewSnapshot, Traced, NewTrace
<1> HIDE DEF row
<1>5. /\ snapshots' \in Seq(SnapshotRow) /\ Len(snapshots) \in Nat
      /\ Len(snapshots') = Len(snapshots) + 1
      /\ DOMAIN snapshots = 1..Len(snapshots) /\ DOMAIN snapshots' = 1..(Len(snapshots) + 1)
      /\ \A i \in DOMAIN snapshots : snapshots'[i] = snapshots[i]
      /\ snapshots'[Len(snapshots) + 1] = row
  BY <1>1, <1>3, AppendRow DEF EligibilityTypeOK
<1>6. EligibilityTypeOK'
  BY <1>1, <1>5 DEF EligibilityTypeOK, EvalPC
<1>7. EvaluationInv'
  BY <1>1, <1>5 DEF EvaluationInv, EligibilityTypeOK, EvalLocal, Traced
<1>8. SnapshotInv'
  BY <1>1, <1>2, <1>4, <1>5 DEF SnapshotInv, Traced
<1>9. SnapshotOrder'
  <2> SUFFICES ASSUME NEW i \in DOMAIN snapshots', NEW j \in DOMAIN snapshots', i < j,
                      snapshots'[j].version < snapshots'[i].version
               PROVE  snapshots'[j].began < i
    BY DEF SnapshotOrder
  <2>1. i \in DOMAIN snapshots /\ snapshots'[i] = snapshots[i]
    BY <1>5
  <2>2. CASE j \in DOMAIN snapshots
    BY <1>5, <2>1, <2>2 DEF SnapshotOrder
  <2>3. CASE j = Len(snapshots) + 1
    <3>1. ~(evalLocal[r].version >= snapshots[i].version)
      BY <1>4, <1>5, <2>1, <2>3, EligibilityTypes
    <3>2. i \notin 1..evalLocal[r].began
      BY <1>2, <3>1
    <3> QED BY <1>4, <1>5, <2>1, <2>3, <3>2, EligibilityTypes
  <2> QED BY <1>5, <2>2, <2>3
<1> QED BY <1>6, <1>7, <1>8, <1>9

\* The other steps of an evaluation, and answers, store no row.
LEMMA OtherEligibilityStep ==
    ASSUME EligibilityInv,
           \/ AnswerFact
           \/ \E r \in Evaluations :
                SkipReEvaluation(r) \/ ReportEvaluation(r) \/ FailEvaluation(r)
           \/ UNCHANGED eligibilityVars
    PROVE  EligibilityInv'
<1> USE DEF EligibilityInv
<1>1. CASE AnswerFact
  <2>1. UNCHANGED <<traces, snapshots, evalPc, evalLocal>> /\ factsVersion' = factsVersion + 1
    BY <1>1 DEF AnswerFact
  <2>2. facts' \in Facts
    BY <1>1 DEF AnswerFact, EligibilityTypeOK, Facts
  <2>3. EligibilityTypeOK'
    BY <2>1, <2>2 DEF EligibilityTypeOK
  <2>4. EvaluationInv'
    <3>1. \A m \in Evaluations :
            evalLocal[m].version <= factsVersion => evalLocal[m].version <= factsVersion + 1
      BY EligibilityTypes
    <3> QED BY <2>1, <3>1 DEF EvaluationInv, Traced
  <2>5. SnapshotInv'
    <3>1. \A i \in DOMAIN snapshots : snapshots[i].version <= factsVersion + 1
      BY EligibilityTypes DEF SnapshotInv
    <3> QED BY <2>1, <3>1 DEF SnapshotInv, Traced
  <2>6. SnapshotOrder'
    BY <2>1 DEF SnapshotOrder
  <2> QED BY <2>3, <2>4, <2>5, <2>6
<1>2. ASSUME NEW r \in Evaluations, SkipReEvaluation(r) \/ ReportEvaluation(r) \/ FailEvaluation(r)
      PROVE EligibilityInv'
  <2>1. /\ UNCHANGED <<facts, factsVersion, traces, snapshots, evalLocal>>
        /\ evalPc' = [evalPc EXCEPT ![r] = "done"] \/ evalPc' = [evalPc EXCEPT ![r] = "failed"]
    BY <1>2 DEF SkipReEvaluation, ReportEvaluation, FailEvaluation, EvalGo
  <2> QED BY <2>1 DEF EligibilityTypeOK, EvalPC, EvaluationInv, SnapshotInv, SnapshotOrder, Traced
<1>3. CASE UNCHANGED eligibilityVars
  BY <1>3 DEF eligibilityVars, EligibilityTypeOK, EvaluationInv, SnapshotInv, SnapshotOrder, Traced
<1> QED BY <1>1, <1>2, <1>3

LEMMA EligibilityStep ==
    ASSUME EligibilityInv, EligibilityNext \/ UNCHANGED eligibilityVars
    PROVE  EligibilityInv'
BY EvaluateStep, StoreTraceStep, StoreSnapshotStep, OtherEligibilityStep
   DEF EligibilityNext, EvaluationStep

\* Snapshots are never removed or rewritten.
SnapshotsGrow ==
    /\ Len(snapshots) \in Nat /\ Len(snapshots') \in Nat /\ Len(snapshots) <= Len(snapshots')
    /\ DOMAIN snapshots = 1..Len(snapshots) /\ DOMAIN snapshots' = 1..Len(snapshots')
    /\ \A i \in 1..Len(snapshots) : snapshots'[i] = snapshots[i]

LEMMA EligibilityGrows ==
    ASSUME EligibilityInv, EligibilityNext \/ UNCHANGED eligibilityVars
    PROVE  SnapshotsGrow
<1> USE DEF EligibilityInv
<1>1. Len(snapshots) \in Nat /\ DOMAIN snapshots = 1..Len(snapshots)
  BY EligibilityTypes
<1>2. ASSUME NEW r \in Evaluations, StoreSnapshot(r)
      PROVE  SnapshotsGrow
  <2> DEFINE row == NewSnapshot(evalLocal[r])
  <2>1. evalPc[r] = "storeSnapshot" /\ snapshots' = Append(snapshots, row)
    BY <1>2 DEF StoreSnapshot, EvalGo
  <2>2. Traced(evalLocal[r])
    BY <2>1 DEF EvaluationInv
  <2>3. row \in SnapshotRow /\ snapshots \in Seq(SnapshotRow)
    BY <2>2 DEF Traced, NewSnapshot, SnapshotRow, EligibilityTypeOK, EvalLocal
  <2> HIDE DEF row
  <2>4. /\ Len(snapshots') = Len(snapshots) + 1 /\ DOMAIN snapshots' = 1..(Len(snapshots) + 1)
        /\ \A i \in 1..Len(snapshots) : snapshots'[i] = snapshots[i]
    BY <2>1, <2>3, AppendRow
  <2> QED BY <1>1, <2>4 DEF SnapshotsGrow
<1>3. CASE UNCHANGED snapshots
  BY <1>1, <1>3 DEF SnapshotsGrow
<1>4. (\E r \in Evaluations : StoreSnapshot(r)) \/ UNCHANGED snapshots
  BY DEF EligibilityNext, EvaluationStep, AnswerFact, Evaluate, SkipReEvaluation, StoreTrace,
         ReportEvaluation, FailEvaluation, eligibilityVars
<1> QED BY <1>2, <1>3, <1>4

-------------------------------------------------------------------------------
(* Generations *)

LEMMA RecommendationTypes ==
    ASSUME RecommendationTypeOK
    PROVE  /\ Len(recommendations) \in Nat
           /\ DOMAIN recommendations = 1..Len(recommendations)
           /\ Len(portfolios) \in Nat /\ DOMAIN portfolios = 1..Len(portfolios)
           /\ Len(recSnapshots) \in Nat /\ DOMAIN recSnapshots = 1..Len(recSnapshots)
           /\ \A i \in 1..Len(recSnapshots) : /\ recSnapshots[i].eligibility \in Nat
                                             /\ recSnapshots[i].began \in Nat
           /\ \A r \in Generations : /\ recLocal[r].eligibility \in Nat
                                    /\ recLocal[r].portfolio \in Nat
                                    /\ recLocal[r].began \in Nat
<1>1. \A i \in 1..Len(recSnapshots) : recSnapshots[i] \in RecSnapshotRow
  BY DEF RecommendationTypeOK
<1>2. \A r \in Generations : recLocal[r] \in RecLocal
  BY DEF RecommendationTypeOK
<1> QED BY <1>1, <1>2, SMTT(20) DEF RecommendationTypeOK, RecSnapshotRow, RecLocal

LEMMA RecLocalUpdate ==
    ASSUME RecommendationTypeOK, NEW r \in Generations, NEW x \in RecLocal,
           recLocal' = [recLocal EXCEPT ![r] = x]
    PROVE  /\ recLocal' \in [Generations -> RecLocal]
           /\ recLocal'[r] = x
           /\ \A m \in Generations : m # r => recLocal'[m] = recLocal[m]
BY DEF RecommendationTypeOK

LEMMA RecStageUpdate ==
    ASSUME RecommendationTypeOK, NEW r \in Generations, NEW pc \in RecPC,
           recPc' = [recPc EXCEPT ![r] = pc]
    PROVE  /\ recPc' \in [Generations -> RecPC]
           /\ recPc'[r] = pc
           /\ \A m \in Generations : m # r => recPc'[m] = recPc[m]
BY DEF RecommendationTypeOK

\* New eligibility snapshots disturb nothing.
LEMMA OtherSnapshots ==
    ASSUME RecommendationInv, SnapshotsGrow, UNCHANGED recommendationVars
    PROVE  RecommendationInv'
<1> USE DEF RecommendationInv, recommendationVars
<1>1. RecommendationTypeOK' /\ RecSnapshotOrder'
  BY DEF RecommendationTypeOK, RecSnapshotOrder
<1>2. \A e : e \in DOMAIN snapshots => e \in DOMAIN snapshots' /\ snapshots'[e] = snapshots[e]
  BY DEF SnapshotsGrow
<1>3. GenerationInv'
  BY <1>2 DEF GenerationInv, Remembers
<1>4. RecSnapshotInv'
  BY <1>2 DEF RecSnapshotInv
<1> QED BY <1>1, <1>3, <1>4

LEMMA ReadEligibilityStep ==
    ASSUME EligibilityInv, RecommendationInv, NEW r \in Generations, ReadEligibility(r)
    PROVE  RecommendationInv'
<1> USE DEF RecommendationInv
<1> DEFINE x == [eligibility |-> Len(snapshots), portfolio |-> 0, began |-> Len(recSnapshots)]
           pc == IF Len(snapshots) = 0 THEN "failed" ELSE "storeRecommendation"
<1>1. UNCHANGED <<snapshots, recommendations, portfolios, recSnapshots>>
  BY DEF ReadEligibility, RecGo, eligibilityVars
<1>2. recPc' = [recPc EXCEPT ![r] = pc] /\ recLocal' = [recLocal EXCEPT ![r] = x]
  BY DEF ReadEligibility, RecGo, LatestSnapshot
<1>3. Len(snapshots) \in Nat /\ DOMAIN snapshots = 1..Len(snapshots)
  BY EligibilityTypes DEF EligibilityInv
<1>4. x \in RecLocal /\ pc \in RecPC
  BY <1>3, RecommendationTypes DEF RecLocal, RecPC
<1>5. \A i \in 1..Len(recSnapshots) : recSnapshots[i].eligibility <= Len(snapshots)
  BY <1>3, RecommendationTypes DEF RecSnapshotInv
<1>6. pc \in Storing => Remembers(pc, x)
  BY <1>3, <1>5, RecommendationTypes DEF Storing, Remembers
<1> HIDE DEF x, pc
<1>7. /\ recLocal' \in [Generations -> RecLocal] /\ recLocal'[r] = x
      /\ \A m \in Generations : m # r => recLocal'[m] = recLocal[m]
  BY <1>2, <1>4, RecLocalUpdate
<1>8. /\ recPc' \in [Generations -> RecPC] /\ recPc'[r] = pc
      /\ \A m \in Generations : m # r => recPc'[m] = recPc[m]
  BY <1>2, <1>4, RecStageUpdate
<1>9. RecommendationTypeOK'
  BY <1>1, <1>7, <1>8 DEF RecommendationTypeOK
<1>10. \A m \in Generations : recPc'[m] \in Storing => Remembers(recPc'[m], recLocal'[m])
  BY <1>6, <1>7, <1>8 DEF GenerationInv
<1>11. GenerationInv'
  BY <1>1, <1>10 DEF GenerationInv, Remembers, Storing
<1>12. RecSnapshotInv' /\ RecSnapshotOrder'
  BY <1>1 DEF RecSnapshotInv, RecSnapshotOrder
<1> QED BY <1>9, <1>11, <1>12

LEMMA StoreRecommendationStep ==
    ASSUME EligibilityInv, RecommendationInv, NEW r \in Generations, StoreRecommendation(r)
    PROVE  RecommendationInv'
<1> USE DEF RecommendationInv
<1>1. /\ UNCHANGED <<snapshots, portfolios, recSnapshots, recLocal>>
      /\ recPc[r] = "storeRecommendation"
      /\ recPc' = [recPc EXCEPT ![r] = "storePortfolio"]
      /\ recommendations' = Append(recommendations, recLocal[r].eligibility)
  BY DEF StoreRecommendation, RecGo, eligibilityVars
<1>2. Remembers("storeRecommendation", recLocal[r])
  BY <1>1 DEF GenerationInv, Storing
<1>3. recLocal[r].eligibility \in Nat \ {0}
  BY <1>2, EligibilityTypes, RecommendationTypes DEF Remembers, EligibilityInv
<1>4. recommendations \in Seq(Nat \ {0})
  BY DEF RecommendationTypeOK
<1>5. /\ recommendations' \in Seq(Nat \ {0}) /\ Len(recommendations) \in Nat
      /\ DOMAIN recommendations = 1..Len(recommendations)
      /\ DOMAIN recommendations' = 1..(Len(recommendations) + 1)
      /\ \A i \in 1..Len(recommendations) : recommendations'[i] = recommendations[i]
      /\ recommendations'[Len(recommendations) + 1] = recLocal[r].eligibility
  BY <1>1, <1>3, <1>4, AppendRow
<1>6. \A e : (\E k \in DOMAIN recommendations : recommendations[k] = e) =>
             (\E k \in DOMAIN recommendations' : recommendations'[k] = e)
  BY <1>5
<1>7. \E k \in DOMAIN recommendations' : recommendations'[k] = recLocal[r].eligibility
  BY <1>5
<1>8. /\ recPc' \in [Generations -> RecPC] /\ recPc'[r] = "storePortfolio"
      /\ \A m \in Generations : m # r => recPc'[m] = recPc[m]
  BY <1>1, RecStageUpdate DEF RecPC
<1>9. RecommendationTypeOK'
  BY <1>1, <1>5, <1>8 DEF RecommendationTypeOK
<1>10. GenerationInv'
  <2> SUFFICES ASSUME NEW m \in Generations, recPc'[m] \in Storing
               PROVE  Remembers(recPc[m], recLocal[m])'
    BY DEF GenerationInv, Remembers, Storing
  <2>1. CASE m = r
    BY <1>1, <1>2, <1>7, <1>8, <2>1 DEF Remembers
  <2>2. CASE m # r
    <3>1. Remembers(recPc[m], recLocal[m])
      BY <1>8, <2>2 DEF GenerationInv
    <3> QED BY <1>1, <1>6, <1>8, <2>2, <3>1 DEF Remembers
  <2> QED BY <2>1, <2>2
<1>11. RecSnapshotInv' /\ RecSnapshotOrder'
  BY <1>1, <1>6 DEF RecSnapshotInv, RecSnapshotOrder
<1> QED BY <1>9, <1>10, <1>11

LEMMA StorePortfolioStep ==
    ASSUME EligibilityInv, RecommendationInv, NEW r \in Generations, StorePortfolio(r)
    PROVE  RecommendationInv'
<1> USE DEF RecommendationInv
<1> DEFINE x == [recLocal[r] EXCEPT !.portfolio = Len(portfolios) + 1]
<1>1. /\ UNCHANGED <<snapshots, recommendations, recSnapshots>>
      /\ recPc[r] = "storePortfolio"
      /\ recPc' = [recPc EXCEPT ![r] = "storeSnapshot"]
      /\ portfolios' = Append(portfolios, recLocal[r].eligibility)
      /\ recLocal' = [recLocal EXCEPT ![r] = x]
  BY DEF StorePortfolio, RecGo, eligibilityVars
<1>2. Remembers("storePortfolio", recLocal[r])
  BY <1>1 DEF GenerationInv, Storing
<1>3. recLocal[r].eligibility \in Nat \ {0}
  BY <1>2, EligibilityTypes, RecommendationTypes DEF Remembers, EligibilityInv
<1>4. portfolios \in Seq(Nat \ {0}) /\ recLocal[r] \in RecLocal
  BY DEF RecommendationTypeOK
<1>5. /\ portfolios' \in Seq(Nat \ {0}) /\ Len(portfolios) \in Nat
      /\ DOMAIN portfolios = 1..Len(portfolios)
      /\ DOMAIN portfolios' = 1..(Len(portfolios) + 1)
      /\ \A i \in 1..Len(portfolios) : portfolios'[i] = portfolios[i]
      /\ portfolios'[Len(portfolios) + 1] = recLocal[r].eligibility
  BY <1>1, <1>3, <1>4, AppendRow
<1>6. /\ x \in RecLocal /\ x.portfolio = Len(portfolios) + 1
      /\ x.eligibility = recLocal[r].eligibility /\ x.began = recLocal[r].began
  BY <1>4, <1>5 DEF RecLocal
<1> HIDE DEF x
<1>7. /\ recLocal' \in [Generations -> RecLocal] /\ recLocal'[r] = x
      /\ \A m \in Generations : m # r => recLocal'[m] = recLocal[m]
  BY <1>1, <1>6, RecLocalUpdate
<1>8. /\ recPc' \in [Generations -> RecPC] /\ recPc'[r] = "storeSnapshot"
      /\ \A m \in Generations : m # r => recPc'[m] = recPc[m]
  BY <1>1, RecStageUpdate DEF RecPC
<1>9. RecommendationTypeOK'
  BY <1>1, <1>5, <1>7, <1>8 DEF RecommendationTypeOK
<1>10. GenerationInv'
  <2> SUFFICES ASSUME NEW m \in Generations, recPc'[m] \in Storing
               PROVE  Remembers(recPc[m], recLocal[m])'
    BY DEF GenerationInv, Remembers, Storing
  <2>1. CASE m = r
    BY <1>1, <1>2, <1>5, <1>6, <1>7, <1>8, <2>1 DEF Remembers
  <2>2. CASE m # r
    <3>1. Remembers(recPc[m], recLocal[m])
      BY <1>8, <2>2 DEF GenerationInv
    <3> QED BY <1>1, <1>5, <1>7, <1>8, <2>2, <3>1 DEF Remembers
  <2> QED BY <2>1, <2>2
<1>11. RecSnapshotInv' /\ RecSnapshotOrder'
  BY <1>1, <1>5 DEF RecSnapshotInv, RecSnapshotOrder
<1> QED BY <1>9, <1>10, <1>11

LEMMA StoreRecSnapshotStep ==
    ASSUME EligibilityInv, RecommendationInv, NEW r \in Generations, StoreRecSnapshot(r)
    PROVE  RecommendationInv'
<1> USE DEF RecommendationInv
<1> DEFINE row == Lineage(recLocal[r])
<1>1. /\ UNCHANGED <<snapshots, recommendations, portfolios, recLocal>>
      /\ recPc[r] = "storeSnapshot"
      /\ recPc' = [recPc EXCEPT ![r] = "report"]
      /\ recSnapshots' = Append(recSnapshots, row)
  BY DEF StoreRecSnapshot, RecGo, eligibilityVars
<1>2. Remembers("storeSnapshot", recLocal[r])
  BY <1>1 DEF GenerationInv, Storing
<1>3. /\ recLocal[r].eligibility \in DOMAIN snapshots
      /\ snapshots[recLocal[r].eligibility].trace \in Nat \ {0}
  <2>1. recLocal[r].eligibility \in DOMAIN snapshots
    BY <1>2 DEF Remembers
  <2>2. snapshots[recLocal[r].eligibility] \in SnapshotRow
    BY <2>1 DEF EligibilityInv, EligibilityTypeOK
  <2> QED BY <2>1, <2>2 DEF SnapshotRow
<1>4. /\ row.eligibility = recLocal[r].eligibility /\ row.began = recLocal[r].began
      /\ row.trace = snapshots[recLocal[r].eligibility].trace
      /\ row.portfolio = recLocal[r].portfolio
  BY DEF Lineage
<1>5. row \in RecSnapshotRow /\ recSnapshots \in Seq(RecSnapshotRow)
  BY SMTT(20), <1>2, <1>3, EligibilityTypes, RecommendationTypes
     DEF Lineage, RecSnapshotRow, Remembers, EligibilityInv, RecommendationTypeOK
<1> HIDE DEF row
<1>6. /\ recSnapshots' \in Seq(RecSnapshotRow) /\ Len(recSnapshots) \in Nat
      /\ Len(recSnapshots') = Len(recSnapshots) + 1
      /\ DOMAIN recSnapshots = 1..Len(recSnapshots)
      /\ DOMAIN recSnapshots' = 1..(Len(recSnapshots) + 1)
      /\ \A i \in 1..Len(recSnapshots) : recSnapshots'[i] = recSnapshots[i]
      /\ recSnapshots'[Len(recSnapshots) + 1] = row
  BY <1>1, <1>5, AppendRow
<1>7. /\ recPc' \in [Generations -> RecPC] /\ recPc'[r] = "report"
      /\ \A m \in Generations : m # r => recPc'[m] = recPc[m]
  BY <1>1, RecStageUpdate DEF RecPC
<1>8. RecommendationTypeOK'
  BY <1>1, <1>6, <1>7 DEF RecommendationTypeOK
<1>9. GenerationInv'
  <2> SUFFICES ASSUME NEW m \in Generations, recPc'[m] \in Storing
               PROVE  Remembers(recPc[m], recLocal[m])'
    BY DEF GenerationInv, Remembers, Storing
  <2>1. m # r /\ recPc'[m] = recPc[m]
    BY <1>7 DEF Storing
  <2>2. Remembers(recPc[m], recLocal[m])
    BY <2>1 DEF GenerationInv
  <2>3. recLocal[m].began \in Nat
    BY RecommendationTypes
  <2> QED BY <1>1, <1>6, <2>1, <2>2, <2>3 DEF Remembers
<1>10. RecSnapshotInv'
  BY <1>1, <1>2, <1>3, <1>4, <1>6 DEF RecSnapshotInv, Remembers
<1>11. RecSnapshotOrder'
  <2> SUFFICES ASSUME NEW i \in DOMAIN recSnapshots', NEW j \in DOMAIN recSnapshots', i < j,
                      recSnapshots'[j].eligibility < recSnapshots'[i].eligibility
               PROVE  recSnapshots'[j].began < i
    BY DEF RecSnapshotOrder
  <2>1. i \in DOMAIN recSnapshots /\ recSnapshots'[i] = recSnapshots[i]
    BY <1>6
  <2>2. CASE j \in DOMAIN recSnapshots
    BY <1>6, <2>1, <2>2 DEF RecSnapshotOrder
  <2>3. CASE j = Len(recSnapshots) + 1
    <3>1. ~(recSnapshots[i].eligibility <= recLocal[r].eligibility)
      BY <1>4, <1>6, <2>1, <2>3, RecommendationTypes
    <3>2. i \notin 1..recLocal[r].began
      BY <1>2, <3>1 DEF Remembers
    <3> QED BY <1>4, <1>6, <2>1, <2>3, <3>2, RecommendationTypes
  <2> QED BY <1>6, <2>2, <2>3
<1> QED BY <1>8, <1>9, <1>10, <1>11

\* A generation that ends, well or not, stores nothing.
LEMMA OtherGenerationStep ==
    ASSUME RecommendationInv, NEW r \in Generations, ReportGeneration(r) \/ FailGeneration(r)
    PROVE  RecommendationInv'
<1> USE DEF RecommendationInv
<1>1. /\ UNCHANGED <<snapshots, recommendations, portfolios, recSnapshots, recLocal>>
      /\ recPc' = [recPc EXCEPT ![r] = "done"] \/ recPc' = [recPc EXCEPT ![r] = "failed"]
  BY DEF ReportGeneration, FailGeneration, RecGo, eligibilityVars
<1>2. /\ recPc' \in [Generations -> RecPC] /\ recPc'[r] \in {"done", "failed"}
      /\ \A m \in Generations : m # r => recPc'[m] = recPc[m]
  BY <1>1, RecStageUpdate DEF RecPC
<1>3. RecommendationTypeOK'
  BY <1>1, <1>2 DEF RecommendationTypeOK
<1>4. GenerationInv'
  BY <1>1, <1>2 DEF GenerationInv, Remembers, Storing
<1>5. RecSnapshotInv' /\ RecSnapshotOrder'
  BY <1>1 DEF RecSnapshotInv, RecSnapshotOrder
<1> QED BY <1>3, <1>4, <1>5

-------------------------------------------------------------------------------
(* Evaluations and generations together *)

LEMMA DecisionInit == EligibilityInit /\ RecommendationInit => DecisionInv
<1> SUFFICES ASSUME EligibilityInit, RecommendationInit
             PROVE  DecisionInv
  OBVIOUS
<1>1. EligibilityTypeOK
  BY DEF EligibilityInit, EligibilityTypeOK, EvalPC, EvalLocal, EligibilityStatus
<1>2. EvaluationInv /\ SnapshotInv /\ SnapshotOrder
  BY DEF EligibilityInit, EvaluationInv, SnapshotInv, SnapshotOrder
<1>3. RecommendationTypeOK
  BY DEF RecommendationInit, RecommendationTypeOK, RecPC, RecLocal
<1>4. GenerationInv /\ RecSnapshotInv /\ RecSnapshotOrder
  BY DEF RecommendationInit, GenerationInv, Storing, RecSnapshotInv, RecSnapshotOrder
<1> QED BY <1>1, <1>2, <1>3, <1>4 DEF DecisionInv, EligibilityInv, RecommendationInv

LEMMA DecisionStep ==
    ASSUME DecisionInv, [DecisionNext]_decisionVars
    PROVE  DecisionInv'
<1> USE DEF DecisionInv
<1>1. CASE UNCHANGED decisionVars
  <2>1. UNCHANGED eligibilityVars /\ UNCHANGED recommendationVars
    BY <1>1 DEF decisionVars
  <2>2. EligibilityInv' /\ SnapshotsGrow
    BY <2>1, EligibilityStep, EligibilityGrows
  <2> QED BY <2>1, <2>2, OtherSnapshots
<1>2. CASE EligibilityNext /\ UNCHANGED recommendationVars
  <2>1. EligibilityInv' /\ SnapshotsGrow
    BY <1>2, EligibilityStep, EligibilityGrows
  <2> QED BY <1>2, <2>1, OtherSnapshots
<1>3. ASSUME NEW r \in Generations, GenerationStep(r)
      PROVE  DecisionInv'
  <2>1. UNCHANGED eligibilityVars
    BY <1>3 DEF GenerationStep, ReadEligibility, StoreRecommendation, StorePortfolio,
                StoreRecSnapshot, ReportGeneration, FailGeneration, RecGo
  <2>2. EligibilityInv'
    BY <2>1, EligibilityStep
  <2>3. RecommendationInv'
    BY <1>3, ReadEligibilityStep, StoreRecommendationStep, StorePortfolioStep,
       StoreRecSnapshotStep, OtherGenerationStep DEF GenerationStep
  <2> QED BY <2>2, <2>3
<1> QED BY <1>1, <1>2, <1>3 DEF DecisionNext

-------------------------------------------------------------------------------
(* Theorems *)

\* The invariant above holds in every reachable state, for any number of requests and any
\* rules.
THEOREM DecisionInvariance == DecisionSpec => []DecisionInv
<1>1. EligibilityInit /\ RecommendationInit => DecisionInv
  BY DecisionInit
<1>2. DecisionInv /\ [DecisionNext]_decisionVars => DecisionInv'
  BY DecisionStep
<1> QED BY <1>1, <1>2, PTL DEF DecisionSpec

\* The types of the rows and of what the requests remember, with the generations beside
\* the evaluations.
THEOREM DecisionTypeCorrectness == DecisionSpec => [](EligibilityTypeOK /\ RecommendationTypeOK)
<1>1. DecisionInv => EligibilityTypeOK /\ RecommendationTypeOK
  BY DEF DecisionInv, EligibilityInv, RecommendationInv
<1> QED BY <1>1, DecisionInvariance, PTL

\* However requests overlap and fail, a recommendation leads back over its portfolio and
\* its eligibility snapshot to one trace that says the same of the same facts, and a row
\* rests on older data than an earlier one only if the two requests overlapped.
THEOREM DecisionIsTraceable == DecisionSpec => []DecisionLineage
<1>1. DecisionInv => DecisionLineage
  <2> SUFFICES ASSUME DecisionInv
               PROVE  DecisionLineage
    OBVIOUS
  <2> USE DEF DecisionInv, EligibilityInv, RecommendationInv
  <2>1. ASSUME NEW row, Traced(row)
        PROVE  IsMatch(row) /\ traces[row.trace].version = row.version
    <3>1. traces[row.trace] = NewTrace(row)
      BY <2>1 DEF Traced
    <3>2. NewTrace(row).status = row.status /\ NewTrace(row).version = row.version
      BY DEF NewTrace
    <3> QED BY <3>1, <3>2 DEF IsMatch
  <2>2. \A e \in DOMAIN snapshots :
          IsMatch(snapshots[e]) /\ traces[snapshots[e].trace].version = snapshots[e].version
    BY <2>1 DEF SnapshotInv
  <2> QED BY <2>2 DEF DecisionLineage, RecSnapshotInv, RecSnapshotOrder, SnapshotOrder
<1> QED BY <1>1, DecisionInvariance, PTL

-------------------------------------------------------------------------------
(* The rule engine: an answer only helps *)

\* A set of numbers has a smallest one.
LEMMA SmallestIsThere ==
    ASSUME NEW S, S \subseteq Nat, S # {}
    PROVE  \E n \in S : \A m \in S : n <= m
<1>1. IsWellFoundedOn(OpToRel(<, Nat), Nat)
  BY NatLessThanWellFounded
<1>2. PICK n \in S : \A m \in S : <<m, n>> \notin OpToRel(<, Nat)
  BY <1>1, WFMin, Zenon
<1>3. \A m \in S : ~(m < n)
  BY <1>2 DEF OpToRel
<1> QED BY <1>3

\* The keys of one question: those of one attribute, or one key of none.
SameQuestion(k, key) == AttributesOf(k) \cap AttributesOf(key) # {} \/ k = key

\* What is known changed only where the question was open under each of its keys.
OnlyOpenAnswered(known, later) == \A key \in FactKeys : later[key] # known[key] =>
    \A k \in FactKeys : SameQuestion(k, key) => known[k] = Unanswered

\* The numbers answered before are read in the units they were read in.
SameUnits(known, later) == \A key \in FactKeys :
    TargetUnit[key] # NoUnit /\ Resolved(key, known) # Unanswered =>
        UnitOf(key, later) = UnitOf(key, known)

\* A condition looks only under keys of one question, its own key among them.
LEMMA LookupFacts ==
    ASSUME NEW key \in FactKeys
    PROVE  /\ LookupOrder[key] \in Seq(FactKeys)
           /\ \A i, j \in DOMAIN LookupOrder[key] :
                SameQuestion(LookupOrder[key][i], LookupOrder[key][j])
<1>1. CASE AttributesOf(key) = {}
  <2>1. LookupOrder[key] = <<key>>
    BY <1>1 DEF LookupOrder
  <2> QED BY <2>1 DEF SameQuestion
<1>2. CASE AttributesOf(key) # {}
  <2>1. PICK code \in AttributesOf(key) :
           LookupOrder[key] = <<key>> \o LegacyKeys[code] \o <<code>>
    BY <1>2 DEF LookupOrder
  <2>2. code \in FactKeys /\ LegacyKeys[code] \in Seq(FactKeys) /\ code \in AttributeCodes
    BY <2>1, EligibilityAssumption DEF AttributesOf
  <2>3. \A i \in DOMAIN LegacyKeys[code] : code \in AttributesOf(LegacyKeys[code][i])
    BY <2>2 DEF AttributesOf
  <2>4. code \in AttributesOf(code)
    BY <2>2 DEF AttributesOf
  <2> DEFINE legacy == LegacyKeys[code]
  <2> HIDE DEF legacy
  <2>5. PICK middle \in Seq(FactKeys) :
           /\ LookupOrder[key] = <<key>> \o middle \o <<code>>
           /\ \A i \in DOMAIN middle : code \in AttributesOf(middle[i])
    BY <2>1, <2>2, <2>3
  <2>6. LookupOrder[key] \in Seq(FactKeys)
    BY <2>2, <2>5
  <2>7. \A i \in DOMAIN LookupOrder[key] : code \in AttributesOf(LookupOrder[key][i])
    BY <2>1, <2>2, <2>4, <2>5
  <2> QED BY <2>6, <2>7 DEF SameQuestion
<1> QED BY <1>1, <1>2

\* A condition that finds an answer finds the same one later.
LEMMA FoundStays ==
    ASSUME NEW known, NEW later, NEW key \in FactKeys,
           OnlyOpenAnswered(known, later), Resolved(key, known) # Unanswered
    PROVE  Resolved(key, later) = Resolved(key, known)
<1> DEFINE order == LookupOrder[key]
           answered == {i \in DOMAIN order : known[order[i]] # Unanswered}
<1>1. answered # {}
  BY DEF Resolved
<1>2. \A i \in DOMAIN order : order[i] \in FactKeys
  BY LookupFacts
<1>3. \A i \in DOMAIN order : later[order[i]] = known[order[i]]
  <2> SUFFICES ASSUME NEW i \in DOMAIN order, later[order[i]] # known[order[i]] PROVE FALSE
    OBVIOUS
  <2>1. PICK j \in DOMAIN order : known[order[j]] # Unanswered
    BY <1>1
  <2>2. SameQuestion(order[j], order[i])
    BY LookupFacts
  <2> HIDE DEF order
  <2> QED BY <1>2, <2>1, <2>2 DEF OnlyOpenAnswered
<1>4. answered = {i \in DOMAIN order : later[order[i]] # Unanswered}
  BY <1>3
<1>5. (CHOOSE i \in answered : \A j \in answered : i <= j) \in DOMAIN order
  <2>1. PICK i \in answered : TRUE
    BY <1>1
  <2>2. order \in Seq(FactKeys)
    BY LookupFacts
  <2>3. \A n \in answered : n \in Nat
    BY <2>2
  <2>4. \E n \in answered : \A m \in answered : n <= m
    <3> HIDE DEF answered
    <3> QED BY <2>1, <2>3, SmallestIsThere
  <2> QED BY <2>4
<1> QED BY <1>1, <1>3, <1>4, <1>5 DEF Resolved

\* What a condition that asks for no absence said yes to, it says yes to later.
LEMMA ConditionStays ==
    ASSUME NEW known, NEW later, NEW c \in ConditionRow, OnlyOpenAnswered(known, later),
           SameUnits(known, later), c.operator # "NOT_EXISTS", ConditionPassed(c, known)
    PROVE  ConditionPassed(c, later)
<1>1. c.attribute \in FactKeys
  BY DEF ConditionRow
<1>2. Resolved(c.attribute, known) # Unanswered
  BY DEF ConditionPassed
<1>3. Resolved(c.attribute, later) = Resolved(c.attribute, known)
  BY <1>1, <1>2, FoundStays
<1>4. Compared(c.attribute, later) = Compared(c.attribute, known)
  <2>1. TargetUnit[c.attribute] # NoUnit => UnitOf(c.attribute, later) = UnitOf(c.attribute, known)
    BY <1>1, <1>2 DEF SameUnits
  <2> QED BY <1>3, <2>1 DEF Compared
<1> QED BY <1>2, <1>3, <1>4 DEF ConditionPassed

LEMMA PassedOrNot ==
    \A c, known : ConditionPassed(c, known) \in BOOLEAN
BY DEF ConditionPassed, Holds

\* The more of its results are true, the sooner a group that asks for no absence passes.
LEMMA MoreIsBetter ==
    ASSUME NEW group, group.operator \in GroupOperators \ {"NONE"}, group.threshold \in Int,
           NEW results \in Seq(BOOLEAN), NEW more \in Seq(BOOLEAN),
           DOMAIN more = DOMAIN results, \A i \in DOMAIN results : results[i] => more[i],
           Combined(group, results)
    PROVE  Combined(group, more)
<1> DEFINE passed == {i \in DOMAIN results : results[i]}
           passedMore == {i \in DOMAIN more : more[i]}
<1>1. /\ DOMAIN results = 1..Len(results) /\ Len(results) \in Nat /\ Len(more) = Len(results)
  OBVIOUS
<1>2. /\ IsFiniteSet(DOMAIN results) /\ Cardinality(DOMAIN results) = Len(results)
  <2>1. ASSUME NEW n \in Nat PROVE IsFiniteSet(1..n) /\ Cardinality(1..n) = n
    <3>1. 1 \in Int /\ n \in Int
      OBVIOUS
    <3>2. IsFiniteSet(1..n) /\ Cardinality(1..n) = IF 1 > n THEN 0 ELSE n - 1 + 1
      BY <3>1, FS_Interval
    <3> QED BY <3>2
  <2> QED BY <1>1, <2>1
<1>3. /\ passed \subseteq passedMore /\ passedMore \subseteq DOMAIN results
  OBVIOUS
<1>4. /\ IsFiniteSet(passedMore) /\ Cardinality(passedMore) <= Len(results)
  BY <1>2, <1>3, FS_Subset
<1>5. /\ IsFiniteSet(passed) /\ Cardinality(passed) <= Cardinality(passedMore)
  BY <1>3, <1>4, FS_Subset
<1>6. Cardinality(passed) \in Nat /\ Cardinality(passedMore) \in Nat
  BY <1>4, <1>5, FS_CardinalityType
<1>7. CASE results = <<>>
  BY <1>7 DEF Combined
<1>8. CASE results # <<>>
  <2> DEFINE n == Cardinality(passed)
             m == Cardinality(passedMore)
  <2>1. /\ group.operator = "ALL" => n = Len(results)
        /\ group.operator = "ANY" => n > 0
        /\ group.operator = "X_OF_Y" => n >= IF group.threshold = 0 THEN 1 ELSE group.threshold
    BY <1>8 DEF Combined, GroupOperators
  <2>2. /\ group.operator = "ALL" => m = Len(more)
        /\ group.operator = "ANY" => m > 0
        /\ group.operator = "X_OF_Y" => m >= IF group.threshold = 0 THEN 1 ELSE group.threshold
    <3> HIDE DEF passed, passedMore
    <3> QED BY <1>1, <1>4, <1>5, <1>6, <2>1
  <2> HIDE DEF n
  <2> QED BY <2>2 DEF Combined, GroupOperators
<1> QED BY <1>7, <1>8

LEMMA ResultsStay ==
    ASSUME NEW known, NEW later, OnlyOpenAnswered(known, later), SameUnits(known, later),
           NEW group, group.conditions \in Seq(ConditionRow), PositiveGroup(group)
    PROVE  /\ ConditionResults(group, known) \in Seq(BOOLEAN)
           /\ ConditionResults(group, later) \in Seq(BOOLEAN)
           /\ Len(ConditionResults(group, later)) = Len(ConditionResults(group, known))
           /\ \A i \in DOMAIN ConditionResults(group, known) :
                ConditionResults(group, known)[i] => ConditionResults(group, later)[i]
<1>1. /\ DOMAIN group.conditions = 1..Len(group.conditions) /\ Len(group.conditions) \in Nat
      /\ \A i \in DOMAIN group.conditions : group.conditions[i] \in ConditionRow
  OBVIOUS
<1>2. \A i \in DOMAIN group.conditions :
         ConditionPassed(group.conditions[i], known) => ConditionPassed(group.conditions[i], later)
  BY <1>1, ConditionStays DEF PositiveGroup
<1>3. \A what : /\ ConditionResults(group, what) \in Seq(BOOLEAN)
                /\ DOMAIN ConditionResults(group, what) = DOMAIN group.conditions
  BY <1>1, PassedOrNot DEF ConditionResults
<1>4. \A what : Len(ConditionResults(group, what)) = Len(group.conditions)
  BY <1>1, <1>3
<1> QED BY <1>2, <1>3, <1>4 DEF ConditionResults

LEMMA ChildStays ==
    ASSUME NEW known, NEW later, OnlyOpenAnswered(known, later), SameUnits(known, later),
           NEW child \in ChildGroupRow, PositiveGroup(child), ChildPassed(child, known)
    PROVE  ChildPassed(child, later)
<1>1. /\ child.operator \in GroupOperators \ {"NONE"} /\ child.threshold \in Int
      /\ child.conditions \in Seq(ConditionRow)
  BY DEF ChildGroupRow, PositiveGroup
<1>2. PICK before \in Seq(BOOLEAN) : before = ConditionResults(child, known)
  BY <1>1, ResultsStay
<1>3. PICK after \in Seq(BOOLEAN) : after = ConditionResults(child, later)
  BY <1>1, ResultsStay
<1>4. /\ Len(after) = Len(before) /\ \A i \in DOMAIN before : before[i] => after[i]
  BY <1>1, <1>2, <1>3, ResultsStay
<1>5. DOMAIN after = DOMAIN before
  BY <1>4
<1>6. Combined(child, before)
  BY <1>2 DEF ChildPassed
<1>7. Combined(child, after)
  BY <1>1, <1>4, <1>5, <1>6, MoreIsBetter
<1> QED BY <1>3, <1>7 DEF ChildPassed

\* The verdicts of the parts of a rule make a sequence.
LEMMA VerdictList ==
    ASSUME NEW n \in Nat, NEW verdicts \in [1..n -> BOOLEAN]
    PROVE  verdicts \in Seq(BOOLEAN) /\ Len(verdicts) = n
OBVIOUS

LEMMA RuleStays ==
    ASSUME NEW known, NEW later, OnlyOpenAnswered(known, later), SameUnits(known, later),
           NEW root \in RootGroupRow, Positive(root), RulePassed(root, known)
    PROVE  RulePassed(root, later)
<1>1. /\ root.operator \in GroupOperators \ {"NONE"} /\ root.threshold \in Int
      /\ root.conditions \in Seq(ConditionRow) /\ root.children \in Seq(ChildGroupRow)
      /\ PositiveGroup(root)
      /\ \A i \in DOMAIN root.children :
           root.children[i] \in ChildGroupRow /\ PositiveGroup(root.children[i])
  BY DEF RootGroupRow, Positive, PositiveGroup
<1>2. PICK own \in Seq(BOOLEAN) : own = ConditionResults(root, known)
  BY <1>1, ResultsStay
<1>3. PICK ownLater \in Seq(BOOLEAN) : ownLater = ConditionResults(root, later)
  BY <1>1, ResultsStay
<1>4. /\ Len(ownLater) = Len(own) /\ \A i \in DOMAIN own : own[i] => ownLater[i]
  BY <1>1, <1>2, <1>3, ResultsStay
<1>5. \A what, i : ChildPassed(root.children[i], what) \in BOOLEAN
  BY DEF ChildPassed, Combined
<1> DEFINE children(what) == [i \in DOMAIN root.children |-> ChildPassed(root.children[i], what)]
<1>6. \A what : /\ children(what) \in Seq(BOOLEAN)
                /\ DOMAIN children(what) = DOMAIN root.children
                /\ Len(children(what)) = Len(root.children)
  <2> SUFFICES ASSUME NEW what
               PROVE  /\ children(what) \in Seq(BOOLEAN)
                      /\ DOMAIN children(what) = DOMAIN root.children
                      /\ Len(children(what)) = Len(root.children)
    OBVIOUS
  <2>1. DOMAIN root.children = 1..Len(root.children) /\ Len(root.children) \in Nat
    BY <1>1
  <2>2. children(what) \in [1..Len(root.children) -> BOOLEAN]
    BY <1>5, <2>1
  <2>3. PICK n \in Nat : n = Len(root.children)
    BY <2>1
  <2>4. PICK verdicts \in [1..n -> BOOLEAN] : verdicts = children(what)
    BY ONLY <2>2, <2>3
  <2>5. verdicts \in Seq(BOOLEAN) /\ Len(verdicts) = n
    BY ONLY VerdictList
  <2> QED BY <2>1, <2>2, <2>3, <2>4, <2>5
<1>7. \A i \in DOMAIN root.children : children(known)[i] => children(later)[i]
  BY <1>1, ChildStays
<1>8. PICK below \in Seq(BOOLEAN) : below = children(known)
  BY <1>6
<1>9. PICK belowLater \in Seq(BOOLEAN) : belowLater = children(later)
  BY <1>6
<1>10. /\ Len(belowLater) = Len(below) /\ \A i \in DOMAIN below : below[i] => belowLater[i]
  BY <1>6, <1>7, <1>8, <1>9
<1>11. Combined(root, own \o below)
  BY <1>2, <1>8 DEF RulePassed
<1> HIDE DEF children
<1>12. /\ own \o below \in Seq(BOOLEAN) /\ ownLater \o belowLater \in Seq(BOOLEAN)
       /\ DOMAIN (ownLater \o belowLater) = DOMAIN (own \o below)
       /\ \A i \in DOMAIN (own \o below) : (own \o below)[i] => (ownLater \o belowLater)[i]
  <2>0. /\ own \o below \in Seq(BOOLEAN)
        /\ Len(own \o below) = Len(own) + Len(below)
        /\ ownLater \o belowLater \in Seq(BOOLEAN)
        /\ Len(ownLater \o belowLater) = Len(ownLater) + Len(belowLater)
    BY ConcatProperties, Zenon
  <2>1. /\ own \o below \in Seq(BOOLEAN) /\ ownLater \o belowLater \in Seq(BOOLEAN)
        /\ Len(own \o below) = Len(own) + Len(below)
        /\ Len(ownLater \o belowLater) = Len(own) + Len(below)
    BY <1>4, <1>10, <2>0
  <2>2. DOMAIN (own \o below) = 1..Len(own) + Len(below)
    BY <2>1
  <2>3. \A i \in 1..Len(own) + Len(below) :
           /\ (own \o below)[i] = IF i <= Len(own) THEN own[i] ELSE below[i - Len(own)]
           /\ (ownLater \o belowLater)[i] =
                IF i <= Len(own) THEN ownLater[i] ELSE belowLater[i - Len(own)]
    BY <1>4, <1>10, ConcatProperties
  <2>4. \A i \in 1..Len(own) + Len(below) :
           (own \o below)[i] => (ownLater \o belowLater)[i]
    BY <1>4, <1>10, <2>3
  <2> QED BY <2>1, <2>2, <2>4
<1>13. Combined(root, ownLater \o belowLater)
  BY <1>1, <1>11, <1>12, MoreIsBetter
<1> QED BY <1>3, <1>9, <1>13 DEF RulePassed, children

LEMMA VerdictStays ==
    ASSUME NEW known, NEW later, OnlyOpenAnswered(known, later), SameUnits(known, later), rules \in RuleSets,
           \A i \in DOMAIN rules : Positive(rules[i]), Verdict(known) = "ELIGIBLE"
    PROVE  Verdict(later) = "ELIGIBLE"
<1>1. \A i \in DOMAIN rules : rules[i] \in RootGroupRow
  BY EligibilityAssumption
<1>2. rules # <<>> /\ \A i \in DOMAIN rules : RulePassed(rules[i], known)
  BY DEF Verdict
<1>3. \A i \in DOMAIN rules : RulePassed(rules[i], later)
  BY <1>1, <1>2, RuleStays
<1> QED BY <1>2, <1>3 DEF Verdict

LEMMA AnswerHelps ==
    rules \in RuleSets =>
        (/\ Verdict(facts) = "ELIGIBLE" /\ \A i \in DOMAIN rules : Positive(rules[i])
         /\ \A key \in FactKeys : facts'[key] # facts[key] =>
             \A k \in FactKeys : AttributesOf(k) \cap AttributesOf(key) # {} \/ k = key
                                   => facts[k] = Unanswered
         /\ \A key \in FactKeys : TargetUnit[key] # NoUnit /\ Resolved(key, facts) # Unanswered
                                     => UnitOf(key, facts') = UnitOf(key, facts)
         => Verdict(facts') = "ELIGIBLE")
<1> SUFFICES ASSUME rules \in RuleSets,
                    Verdict(facts) = "ELIGIBLE", \A i \in DOMAIN rules : Positive(rules[i]),
                    \A key \in FactKeys : facts'[key] # facts[key] =>
                        \A k \in FactKeys : AttributesOf(k) \cap AttributesOf(key) # {} \/ k = key
                                              => facts[k] = Unanswered,
                    \A key \in FactKeys : TargetUnit[key] # NoUnit /\ Resolved(key, facts) # Unanswered
                                            => UnitOf(key, facts') = UnitOf(key, facts)
             PROVE  Verdict(facts') = "ELIGIBLE"
  OBVIOUS
<1>1. OnlyOpenAnswered(facts, facts') /\ SameUnits(facts, facts')
  BY DEF OnlyOpenAnswered, SameQuestion, SameUnits
<1> QED BY <1>1, VerdictStays

\* No step of the program changes a rule.
LEMMA RulesStay ==
    ASSUME [DecisionNext]_decisionVars
    PROVE  rules' = rules
<1>1. CASE UNCHANGED decisionVars
  BY <1>1 DEF decisionVars, eligibilityVars
<1>2. CASE EligibilityNext
  BY <1>2 DEF EligibilityNext, EvaluationStep, Evaluate, SkipReEvaluation, StoreTrace,
              StoreSnapshot, ReportEvaluation, FailEvaluation, AnswerFact
<1>3. ASSUME NEW r \in Generations, GenerationStep(r)
      PROVE  rules' = rules
  BY <1>3 DEF GenerationStep, ReadEligibility, StoreRecommendation, StorePortfolio,
              StoreRecSnapshot, ReportGeneration, FailGeneration, RecGo, eligibilityVars
<1> QED BY <1>1, <1>2, <1>3 DEF DecisionNext

\* An answer to an open question never costs a citizen an eligibility that rests on no
\* absence, whatever operators, thresholds and groups the rules combine and in whatever units
\* the numbers are, unless it gives a number answered before another unit.
THEOREM AnsweringHelps == DecisionSpec => AnsweringNeverHurts
<1>1. EligibilityInit => rules \in RuleSets
  BY DEF EligibilityInit
<1>2. rules \in RuleSets /\ [DecisionNext]_decisionVars => (rules \in RuleSets)'
  BY RulesStay
<1> QED BY <1>1, <1>2, AnswerHelps, PTL DEF DecisionSpec, AnsweringNeverHurts
================================================================================

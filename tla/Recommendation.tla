---------------------------- MODULE Recommendation ----------------------------
(* Recommendations from the latest eligibility snapshot, together with the      *)
(* evaluations that store those snapshots:                                      *)
(*   recommendation-generation.service.ts           generateRecommendations     *)
(*   prisma-recommendation.repository.ts, prisma-recommendation-portfolio.repository.ts, *)
(*   prisma-recommendation-snapshot.repository.ts                               *)
(*                                                                              *)
(* An eligibility snapshot has the result of one policy, and that policy is the *)
(* candidate whether its result says so or is only the fallback: ranking and    *)
(* optimisation have one candidate to work on.                                  *)
(*                                                                              *)
(* Left out: scores, readiness and explanations; the difference to the previous  *)
(* portfolio, which is computed and dropped; preferences and feedback; the       *)
(* lifecycle of a recommendation, which nothing moves.                           *)
EXTENDS Eligibility

CONSTANT Generations    \* calls of generateRecommendations

VARIABLES
    recommendations,    \* Recommendation rows: the eligibility snapshot each came from (history)
    portfolios,         \* RecommendationPortfolio rows: snapshotId
    recSnapshots,       \* RecommendationSnapshot rows in the order of their creation
    recPc,              \* where each request is
    recLocal            \* what it remembers from its earlier calls

recommendationVars == <<recommendations, portfolios, recSnapshots, recPc, recLocal>>
decisionVars == <<eligibilityVars, recommendationVars>>

-------------------------------------------------------------------------------
(* Types *)

\* began: the number of recommendation snapshots when the eligibility was read (history).
RecSnapshotRow == [eligibility : Nat \ {0}, trace : Nat \ {0}, portfolio : Nat \ {0}, began : Nat]

RecPC == {"idle", "storeRecommendation", "storePortfolio", "storeSnapshot", "report",
          "done", "failed"}

RecLocal == [eligibility : Nat, portfolio : Nat, began : Nat]

RecommendationInit ==
    /\ recommendations = <<>>
    /\ portfolios = <<>>
    /\ recSnapshots = <<>>
    /\ recPc = [r \in Generations |-> "idle"]
    /\ recLocal = [r \in Generations |-> [eligibility |-> 0, portfolio |-> 0, began |-> 0]]

-------------------------------------------------------------------------------
(* Steps of a generation *)

RecGo(r, from, to) ==
    /\ recPc[r] = from
    /\ recPc' = [recPc EXCEPT ![r] = to]
    /\ UNCHANGED eligibilityVars

\* getLatestSnapshot, and the ranking of its policy.
ReadEligibility(r) ==
    /\ RecGo(r, "idle", IF LatestSnapshot = 0 THEN "failed" ELSE "storeRecommendation")
    /\ recLocal' = [recLocal EXCEPT ![r] =
         [eligibility |-> LatestSnapshot, portfolio |-> 0, began |-> Len(recSnapshots)]]
    /\ UNCHANGED <<recommendations, portfolios, recSnapshots>>

\* createRecommendation
StoreRecommendation(r) ==
    /\ RecGo(r, "storeRecommendation", "storePortfolio")
    /\ recommendations' = Append(recommendations, recLocal[r].eligibility)
    /\ UNCHANGED <<portfolios, recSnapshots, recLocal>>

\* findLatestByUserId, which only feeds the difference, and createPortfolio.
StorePortfolio(r) ==
    /\ RecGo(r, "storePortfolio", "storeSnapshot")
    /\ portfolios' = Append(portfolios, recLocal[r].eligibility)
    /\ recLocal' = [recLocal EXCEPT ![r].portfolio = Len(portfolios) + 1]
    /\ UNCHANGED <<recommendations, recSnapshots>>

\* The newest rows, whoever stored them.
NewestLineage(local) ==
    [eligibility |-> LatestSnapshot, trace |-> snapshots[LatestSnapshot].trace,
     portfolio |-> Len(portfolios), began |-> local.began]

\* What createSnapshot is given: all from the snapshot that was read at the start.
Lineage(local) ==
    [eligibility |-> local.eligibility, trace |-> snapshots[local.eligibility].trace,
     portfolio |-> local.portfolio, began |-> local.began]

\* createSnapshot: its context, which nothing else refers to, and its row.
StoreRecSnapshot(r) ==
    /\ RecGo(r, "storeSnapshot", "report")
    /\ recSnapshots' = Append(recSnapshots, Lineage(recLocal[r]))
    /\ UNCHANGED <<recommendations, portfolios, recLocal>>

\* recordAnalytics and publish
ReportGeneration(r) ==
    /\ RecGo(r, "report", "done")
    /\ UNCHANGED <<recommendations, portfolios, recSnapshots, recLocal>>

\* A call is rejected, or the process dies, between two calls.
FailGeneration(r) ==
    /\ recPc[r] \notin {"idle", "done", "failed"}
    /\ recPc' = [recPc EXCEPT ![r] = "failed"]
    /\ UNCHANGED <<eligibilityVars, recommendations, portfolios, recSnapshots, recLocal>>

GenerationStep(r) ==
    \/ ReadEligibility(r) \/ StoreRecommendation(r) \/ StorePortfolio(r)
    \/ StoreRecSnapshot(r) \/ ReportGeneration(r)
    \/ FailGeneration(r)

\* Evaluations and generations share the snapshots.
DecisionNext ==
    \/ EligibilityNext /\ UNCHANGED recommendationVars
    \/ \E r \in Generations : GenerationStep(r)

DecisionSpec == EligibilityInit /\ RecommendationInit /\ [][DecisionNext]_decisionVars

-------------------------------------------------------------------------------
(* Properties *)

RecommendationTypeOK ==
    /\ recommendations \in Seq(Nat \ {0})
    /\ portfolios \in Seq(Nat \ {0})
    /\ recSnapshots \in Seq(RecSnapshotRow)
    /\ recPc \in [Generations -> RecPC]
    /\ recLocal \in [Generations -> RecLocal]

\* However evaluations, answers and generations overlap and wherever one of them stops,
\* a recommendation can be traced back through one line of rows: its portfolio was built
\* from the eligibility snapshot it names, that snapshot and its trace rest on the same
\* facts and say the same, and a recommendation was stored for the portfolio.  A later
\* row rests on older data than an earlier one only if the two calls overlapped.
DecisionLineage ==
    /\ \A i \in DOMAIN recSnapshots :
        LET row   == recSnapshots[i]
            basis == snapshots[row.eligibility]
        IN  /\ portfolios[row.portfolio] = row.eligibility
            /\ \E k \in DOMAIN recommendations : recommendations[k] = row.eligibility
            /\ row.trace = basis.trace
            /\ IsMatch(basis) /\ traces[row.trace].version = basis.version
    /\ \A i, j \in DOMAIN recSnapshots :
        i < j /\ recSnapshots[j].eligibility < recSnapshots[i].eligibility
            => recSnapshots[j].began < i
    /\ \A i, j \in DOMAIN snapshots :
        i < j /\ snapshots[j].version < snapshots[i].version => snapshots[j].began < i
===============================================================================

---------------------------- MODULE MCReEvaluation ----------------------------
(* A small instance of ReEvaluation for TLC: two triggers of version 1 that    *)
(* quote the same event, a trigger of version 2, and one of a type on which no  *)
(* decision depends.                                                           *)
EXTENDS ReEvaluation, TLC

CONSTANTS old, again, new, other, none, h1, h2, recommendation, journey, e1, e2

MCJobs == {old, again, new, other}
MCHandlers == {h1, h2}
MCTargets == {recommendation, journey}
MCSourceEvents == {e1, e2}
MCTargetOrder == <<recommendation, journey>>
MCTriggerType == [j \in MCJobs |-> IF j = other THEN "DOCUMENT_UPLOADED" ELSE "FACT_CHANGED"]
MCFactVersion == [j \in MCJobs |-> IF j = new THEN 2 ELSE 1]
MCSourceEvent == [j \in MCJobs |-> IF j \in {old, again} THEN e1 ELSE e2]

\* The two triggers that quote the same event are alike, too.
Symmetry == {p @@ q : p \in Permutations(MCHandlers), q \in Permutations({old, again})}
===============================================================================

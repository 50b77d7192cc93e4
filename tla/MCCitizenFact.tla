---------------------------- MODULE MCCitizenFact ----------------------------
(* A small instance of CitizenFact for TLC: two verifications and two answers  *)
(* of one key each, an addition and an update that leave the status alone, a   *)
(* reconciliation and a deletion.                                              *)
EXTENDS CitizenFact, TLC

CONSTANTS v1, v2, a1, a2, add1, add2, upd, rec, del, none, key

MCVerifications == {v1, v2}
MCAnswers == {a1, a2}
MCAdditions == {add1, add2}
MCUpdates == {upd}
MCReconciliations == {rec}
MCDeletions == {del}
MCKey == [r \in Keyed |-> key]
MCSubmitted == [r \in Editors |-> IF r \in Reconciliations THEN "DOCUMENT_VERIFIED" ELSE "UNDEFINED"]

Symmetry == Permutations(MCVerifications) \cup Permutations(MCAnswers)
                \cup Permutations(MCAdditions)
===============================================================================

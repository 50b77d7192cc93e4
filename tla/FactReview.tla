-------------------------------- MODULE FactReview --------------------------------
(* How a verification of a fact is judged, what it leaves for a later replay, and   *)
(* the review it may ask for, with the officers who assign and decide it.           *)
(* CitizenFact says what the same verification does to the fact; here the fact is   *)
(* its source and its age.  Every verification has an idempotency key of its own.   *)
(*                                                                                  *)
(* The evidence is that of one document.  The upload pipeline stops before it      *)
(* stores any, so that today only a citizen without documents or without evidence  *)
(* occurs.                                                                          *)
EXTENDS Integers

CONSTANTS
    FactVerifications,  \* calls of runVerification
    ReviewCalls,        \* calls of assignReview and completeReview
    Officers,
    FactSource,         \* source of the fact
    EvidenceStates,     \* what may be stored about the document of the fact
    DefaultTrust,       \* trust of a verified document without a score
    MinimumTrust,       \* of the default policy, and of the one in the seeds
    ExpiryDays,         \* age at which a fact is stale
    WarningDays,        \* how long before it is expiring
    MaxAge,             \* bound: age of the fact
    Nothing               \* no row, no value

Freshnesses == {"FRESH", "EXPIRING_SOON", "STALE"}
Strategies == {"REQUIRE_MANUAL_REVIEW", "DEFER", "ACCEPT_GOVERNMENT", "ACCEPT_CITIZEN"}
Verdicts == {"APPROVED", "REJECTED"}

Judgement == [strategy : Strategies, freshness : Freshnesses, policy : Nat, stored : BOOLEAN]
SnapshotRow == [freshness : Freshnesses, policy : Nat]

Review == [version : Nat, status : {"PENDING", "ASSIGNED"} \cup Verdicts,
           reviewer : Officers \cup {Nothing}, decision : Verdicts \cup {Nothing}]
NewReview == [version |-> 1, status |-> "PENDING", reviewer |-> Nothing, decision |-> Nothing]

Change == {[status |-> "ASSIGNED", reviewer |-> officer] : officer \in Officers} \cup
          {[status |-> verdict, decision |-> verdict] : verdict \in Verdicts}

ReviewCall == [step : {"idle", "found", "refused", "done"}, of : FactVerifications \cup {Nothing},
               change : Change \cup {Nothing}, read : Review \cup {Nothing}]

ASSUME FactReviewAssumption ==
    /\ MinimumTrust \in Nat
    /\ DefaultTrust \in Nat
    /\ ExpiryDays \in Nat
    /\ WarningDays \in 0..ExpiryDays
    /\ MaxAge \in Nat
    /\ Nothing \notin Officers \cup Nat \cup Judgement \cup SnapshotRow \cup Review
    /\ FactSource \in {"MANUAL", "SELF_DECLARED"}

VARIABLES
    policyRow,          \* threshold of the stored policy, version 1, or Nothing
    documentEvidence,   \* what is stored about the document
    age,                \* days since the fact was written
    judged,             \* what each verification found, or Nothing
    runs,               \* FactVerificationRun and Resolution rows, or Nothing
    snapshots,          \* FactVerificationSnapshot row of each verification, or Nothing
    factReviews,        \* FactVerificationReview row each verification asked for, or Nothing
    verification,       \* where each verification is
    call                \* where each officer's call is, and what it has read

reviewVars == <<policyRow, documentEvidence, age, judged, runs, snapshots, factReviews, verification, call>>

IdleCall == [step |-> "idle", of |-> Nothing, change |-> Nothing, read |-> Nothing]

-----------------------------------------------------------------------------
(* Judging *)

\* A chain that has a document and evidence for the fact is traced, whatever state the
\* document is in; only a verified one vouches for its trust without a score.
Traced(e) == e.documents /\ e.evidence

Trust(e) ==
    CASE ~Traced(e) \/ e.status # "ACTIVE" -> 0
      [] e.verification # "VERIFIED"       -> e.trust
      [] OTHER                             -> IF e.trust = 0 THEN DefaultTrust ELSE e.trust

Freshness(days) ==
    CASE days >= ExpiryDays               -> "STALE"
      [] days >= ExpiryDays - WarningDays -> "EXPIRING_SOON"
      [] OTHER                            -> "FRESH"

\* Without a row, the built-in policy.
ActivePolicy == IF policyRow = Nothing THEN MinimumTrust ELSE policyRow

\* The only competing value is the fact's own, so that its own source wins.
AcceptedSource == IF FactSource = "SELF_DECLARED" THEN "ACCEPT_CITIZEN" ELSE "ACCEPT_GOVERNMENT"

Strategy(minimum) ==
    CASE ~Traced(documentEvidence)         -> "REQUIRE_MANUAL_REVIEW"
      [] Freshness(age) # "FRESH"          -> "REQUIRE_MANUAL_REVIEW"
      [] Trust(documentEvidence) < minimum -> "DEFER"
      [] OTHER                             -> AcceptedSource

NeedsReview(v) == judged[v].strategy = "REQUIRE_MANUAL_REVIEW"

-----------------------------------------------------------------------------
(* runVerification *)

\* Policy, documents, evidence and freshness, each with a query of its own.
Judge(v) ==
    /\ verification[v] = "idle"
    /\ judged' = [judged EXCEPT ![v] =
          [strategy |-> Strategy(ActivePolicy), freshness |-> Freshness(age),
           policy |-> ActivePolicy, stored |-> policyRow # Nothing]]
    /\ verification' = [verification EXCEPT ![v] = "judged"]
    /\ UNCHANGED <<policyRow, documentEvidence, age, runs, snapshots, factReviews, call>>

\* Not part of the transaction: the row stays when that is rolled back.
TakeSnapshot(v) ==
    /\ verification[v] = "judged"
    /\ snapshots' = [snapshots EXCEPT ![v] =
          [freshness |-> judged[v].freshness, policy |-> judged[v].policy]]
    /\ verification' = [verification EXCEPT ![v] = "snapshot taken"]
    /\ UNCHANGED <<policyRow, documentEvidence, age, judged, runs, factReviews, call>>

\* The fact is written, which makes it fresh, also when a review is needed.
CommitVerification(v) ==
    /\ verification[v] = "snapshot taken"
    /\ runs' = [runs EXCEPT ![v] = judged[v]]
    /\ factReviews' = [factReviews EXCEPT ![v] = IF NeedsReview(v) THEN NewReview ELSE Nothing]
    /\ age' = 0
    /\ verification' = [verification EXCEPT ![v] = "done"]
    /\ UNCHANGED <<policyRow, documentEvidence, judged, snapshots, call>>

RollBack(v) ==
    /\ verification[v] \in {"judged", "snapshot taken"}
    /\ verification' = [verification EXCEPT ![v] = "failed"]
    /\ UNCHANGED <<policyRow, documentEvidence, age, judged, runs, snapshots, factReviews, call>>

-----------------------------------------------------------------------------
(* assignReview and completeReview, for officers and administrators only *)

\* Either may find the review in any status, decided ones too.
FindReview(c) ==
    /\ call[c].step = "idle"
    /\ \/ \E v \in FactVerifications, change \in Change :
            /\ factReviews[v] # Nothing
            /\ call' = [call EXCEPT ![c] = [step |-> "found", of |-> v, change |-> change,
                                            read |-> factReviews[v]]]
       \/ call' = [call EXCEPT ![c].step = "refused"]
    /\ UNCHANGED <<policyRow, documentEvidence, age, judged, runs, snapshots, factReviews, verification>>

\* A slip: what is not given is kept, the new status too.
StatusOnly(read, change) ==
    [version |-> read.version + 1, status |-> change.status,
     reviewer |-> read.reviewer, decision |-> read.decision]

\* What the call does not give is written back as it was read.
Updated(read, change) ==
    [version  |-> read.version + 1,
     status   |-> change.status,
     reviewer |-> IF "reviewer" \in DOMAIN change THEN change.reviewer ELSE read.reviewer,
     decision |-> IF "decision" \in DOMAIN change THEN change.decision ELSE read.decision]

UpdateReview(c) ==
    /\ call[c].step = "found"
    /\ factReviews' = [factReviews EXCEPT ![call[c].of] = Updated(call[c].read, call[c].change)]
    /\ call' = [call EXCEPT ![c] = [IdleCall EXCEPT !.step = "done"]]
    /\ UNCHANGED <<policyRow, documentEvidence, age, judged, runs, snapshots, verification>>

-----------------------------------------------------------------------------
(* Time, and the seeds of a deployment *)

FactAges ==
    /\ age < MaxAge
    /\ age' = age + 1
    /\ UNCHANGED <<policyRow, documentEvidence, judged, runs, snapshots, factReviews, verification, call>>

\* The seeds leave a policy that is stored as it is.
Seeded == IF policyRow = Nothing THEN MinimumTrust ELSE policyRow

SeedPolicy ==
    /\ policyRow' = Seeded
    /\ UNCHANGED <<documentEvidence, age, judged, runs, snapshots, factReviews, verification, call>>

-----------------------------------------------------------------------------
FactReviewInit ==
    /\ policyRow = Nothing
    /\ documentEvidence \in EvidenceStates
    /\ age = 0
    /\ judged = [v \in FactVerifications |-> Nothing]
    /\ runs = [v \in FactVerifications |-> Nothing]
    /\ snapshots = [v \in FactVerifications |-> Nothing]
    /\ factReviews = [v \in FactVerifications |-> Nothing]
    /\ verification = [v \in FactVerifications |-> "idle"]
    /\ call = [c \in ReviewCalls |-> IdleCall]

FactReviewNext ==
    \/ \E v \in FactVerifications :
        \/ Judge(v)
        \/ TakeSnapshot(v)
        \/ CommitVerification(v)
        \/ RollBack(v)
    \/ \E c \in ReviewCalls : FindReview(c) \/ UpdateReview(c)
    \/ FactAges
    \/ SeedPolicy

FactReviewSpec == FactReviewInit /\ [][FactReviewNext]_reviewVars

-----------------------------------------------------------------------------
(* Properties *)

FactReviewTypeOK ==
    /\ policyRow \in Nat \cup {Nothing}
    /\ documentEvidence \in EvidenceStates
    /\ age \in 0..MaxAge
    /\ judged \in [FactVerifications -> Judgement \cup {Nothing}]
    /\ runs \in [FactVerifications -> Judgement \cup {Nothing}]
    /\ snapshots \in [FactVerifications -> SnapshotRow \cup {Nothing}]
    /\ factReviews \in [FactVerifications -> Review \cup {Nothing}]
    /\ verification \in [FactVerifications ->
          {"idle", "judged", "snapshot taken", "done", "failed"}]
    /\ call \in [ReviewCalls -> ReviewCall]

\* Whoever replays a run finds the policy version and the snapshot it was judged by.
Replays(v) ==
    /\ snapshots[v] # Nothing
    /\ policyRow = runs[v].policy
    /\ snapshots[v] = [freshness |-> runs[v].freshness, policy |-> runs[v].policy]

\* However officers' calls overlap and write back what they read before, status, verdict
\* and reviewer of a review belong together.
ReviewAgrees(review) ==
    /\ review.status = "PENDING"  => review = NewReview
    /\ review.status = "ASSIGNED" => review.reviewer # Nothing
    /\ review.status \in Verdicts => review.decision = review.status

\* A verification that was committed can be accounted for ever after: one that a stored
\* policy judged replays to what it found, whatever is seeded later, and the review it
\* asked for says of itself only what an officer said in one call.
\* (FactVerificationReplayService.replayVerification, PrismaFactVerificationRepository.updateReview)
VerificationAccountable ==
    \A v \in FactVerifications :
        runs[v] # Nothing =>
            /\ runs[v].stored => Replays(v)
            /\ factReviews[v] # Nothing => ReviewAgrees(factReviews[v])
===============================================================================

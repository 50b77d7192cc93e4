------------------------------ MODULE KnowledgeProofs ------------------------------
(* The knowledge about policies, as refreshes store it and as a search finds it.       *)
(* However refreshes of one source overlap and fail, the job of each tells what became *)
(* of it.  Versions are only added and numbers only grow, so that what a refresh read   *)
(* is still there; a document loses its current version only in somebody's hands.       *)
(* However the versions are replaced while a search is under way, its answer is made of *)
(* versions that were on offer meanwhile, in order, and misses nothing without a reason. *)
EXTENDS KnowledgeIngestion, CandidateRetrieval, FiniteSetTheorems, NaturalsInduction,
        WellFoundedInduction, TLAPS

(* The invariant *)

\* The versions' contents of the refresh are stored.
Stored(r) == \E v \in DOMAIN versions : versions[v].fingerprint = ingestLocal[r].fingerprint

\* What a refresh knows, and its job, by where it is.
RefreshInv(r) ==
    /\ ingestLocal[r].number <= policy.number
    /\ ingestPc[r] \in {"incrementVersion", "retireVersions", "createVersion"} =>
          ingestLocal[r].number > 0
    /\ ingestPc[r] \in {"checkDuplicate", "findDocument", "createDocument", "incrementVersion",
                        "retireVersions", "createVersion"} => ingestLocal[r].fingerprint > 0
    /\ ingestPc[r] \in {"idle", "fetch", "checkDuplicate", "findDocument", "createDocument",
                        "incrementVersion", "retireVersions", "createVersion"} =>
          ingestLocal[r].stored = 0
    /\ ingestPc[r] = "createChunks" => ingestLocal[r].stored \in DOMAIN versions
    /\ \/ ingestPc[r] \in {"createChunks", "activate", "publishProcessed", "complete"}
       \/ jobs[r] = "COMPLETED"
       => Stored(r)
    /\ ingestPc[r] = "idle" => jobs[r] = "none"
    /\ ingestPc[r] \in PipelineCalls \cup {"complete"} => jobs[r] = "RUNNING"
    /\ ingestPc[r] = "publishCompleted" => jobs[r] = "COMPLETED"
    /\ ingestPc[r] = "failJob" => jobs[r] \in {"RUNNING", "COMPLETED"}
    /\ ingestPc[r] = "degrade" => jobs[r] = "FAILED"
    /\ ingestPc[r] = "done" => jobs[r] \in {"COMPLETED", "FAILED"}

\* A refresh that retired the versions and stored none.
BetweenHalves(r) ==
    /\ ingestLocal[r].number > 0 /\ ingestLocal[r].stored = 0
    /\ ingestPc[r] \in {"createVersion", "failJob", "degrade", "done", "dead"}
    /\ jobs[r] # "COMPLETED"

NumbersReached == \A v \in DOMAIN versions : versions[v].number <= policy.number
SomeFailed == health = "DEGRADED" => \E r \in Refreshes : jobs[r] = "FAILED"
SomeCurrent ==
    \/ DOMAIN versions = {}
    \/ \E v \in DOMAIN versions : versions[v].current
    \/ \E r \in Refreshes : BetweenHalves(r)
ActiveHasVersion == policy.status = "ACTIVE" => DOMAIN versions # {}

KnowledgeInv ==
    /\ KnowledgeTypeOK
    /\ \A r \in Refreshes : RefreshInv(r)
    /\ NumbersReached
    /\ SomeFailed
    /\ SomeCurrent
    /\ ActiveHasVersion

-------------------------------------------------------------------------------
(* Numbers only grow, and versions are only added *)

Grows ==
    /\ policy.number <= policy'.number
    /\ DOMAIN versions \subseteq DOMAIN versions'
    /\ \A v \in DOMAIN versions : /\ versions'[v].number = versions[v].number
                                  /\ versions'[v].fingerprint = versions[v].fingerprint

\* The step is not one of q.
Spared(q) ==
    ingestPc'[q] = ingestPc[q] /\ ingestLocal'[q] = ingestLocal[q] /\ jobs'[q] = jobs[q]

\* The types of what the steps read.
LEMMA KnowledgeTypes ==
    ASSUME KnowledgeTypeOK
    PROVE  /\ policy.number \in Nat
           /\ Len(versions) \in Nat /\ DOMAIN versions = 1..Len(versions)
           /\ \A v \in DOMAIN versions : /\ versions[v] \in VersionRow
                                         /\ versions[v].number \in Nat \ {0}
                                         /\ versions[v].fingerprint \in Nat \ {0}
           /\ \A r \in Refreshes : /\ ingestLocal[r] \in IngestLocal
                                   /\ ingestLocal[r].fingerprint \in Nat
                                   /\ ingestLocal[r].number \in Nat
                                   /\ ingestLocal[r].stored \in Nat
<1>1. \A v \in DOMAIN versions : versions[v] \in VersionRow
  BY DEF KnowledgeTypeOK
<1>2. \A r \in Refreshes : ingestLocal[r] \in IngestLocal
  BY DEF KnowledgeTypeOK
<1>3. Len(versions) \in Nat /\ DOMAIN versions = 1..Len(versions)
  BY DEF KnowledgeTypeOK
<1> QED BY <1>1, <1>2, <1>3 DEF KnowledgeTypeOK, PolicyRow, VersionRow, IngestLocal

\* A refresh moves alone.
LEMMA Moved ==
    ASSUME KnowledgeTypeOK, NEW r \in Refreshes, NEW from, NEW to \in IngestPC,
           IngestGo(r, from, to)
    PROVE  /\ ingestPc' \in [Refreshes -> IngestPC]
           /\ ingestPc[r] = from /\ ingestPc'[r] = to
           /\ \A q \in Refreshes : q # r => ingestPc'[q] = ingestPc[q]
           /\ interrupted' \subseteq Refreshes
BY DEF IngestGo, KnowledgeTypeOK

\* It overwrites only what it remembers itself, and the status of its own job.
LEMMA Remembered ==
    ASSUME KnowledgeTypeOK, NEW r \in Refreshes, NEW x \in IngestLocal,
           ingestLocal' = [ingestLocal EXCEPT ![r] = x]
    PROVE  /\ ingestLocal' \in [Refreshes -> IngestLocal]
           /\ ingestLocal'[r] = x
           /\ \A q \in Refreshes : q # r => ingestLocal'[q] = ingestLocal[q]
BY DEF KnowledgeTypeOK

LEMMA JobMoved ==
    ASSUME KnowledgeTypeOK, NEW r \in Refreshes, NEW status \in JobStatuses,
           jobs' = [jobs EXCEPT ![r] = status]
    PROVE  /\ jobs' \in [Refreshes -> JobStatuses]
           /\ jobs'[r] = status
           /\ \A q \in Refreshes : q # r => jobs'[q] = jobs[q]
BY DEF KnowledgeTypeOK

\* What a refresh knows stays true while others work, and it stays between the halves.
LEMMA OthersKeep ==
    ASSUME KnowledgeTypeOK, policy'.number \in Nat, Grows,
           NEW q \in Refreshes, RefreshInv(q), Spared(q)
    PROVE  /\ RefreshInv(q)'
           /\ BetweenHalves(q) => BetweenHalves(q)'
<1>1. Stored(q) => Stored(q)'
  BY DEF Stored, Grows, Spared
<1>2. ingestLocal'[q].number <= policy'.number
  BY KnowledgeTypes DEF RefreshInv, Grows, Spared
<1>3. ingestLocal[q].stored \in DOMAIN versions => ingestLocal'[q].stored \in DOMAIN versions'
  BY DEF Grows, Spared
<1>4. BetweenHalves(q) => BetweenHalves(q)'
  BY DEF BetweenHalves, Spared
<1>5. RefreshInv(q)'
  BY <1>1, <1>2, <1>3 DEF RefreshInv, Spared
<1> QED BY <1>4, <1>5

\* The parts of the invariant that are about all refreshes, after a step of one.
LEMMA Together ==
    ASSUME KnowledgeInv, NEW r \in Refreshes, KnowledgeTypeOK', Grows,
           \A q \in Refreshes : q # r => Spared(q),
           RefreshInv(r)'
    PROVE  \A q \in Refreshes : RefreshInv(q)'
<1>1. policy'.number \in Nat
  BY KnowledgeTypes DEF KnowledgeTypeOK, PolicyRow
<1> TAKE q \in Refreshes
<1>2. CASE q = r
  BY <1>2
<1>3. CASE q # r
  BY <1>1, <1>3, OthersKeep DEF KnowledgeInv
<1> QED BY <1>2, <1>3

\* A step that leaves document, versions and source alone disturbs only what is said of
\* the refresh itself.
LEMMA RowsAlone ==
    ASSUME KnowledgeInv, NEW r \in Refreshes, KnowledgeTypeOK',
           UNCHANGED <<policy, versions, health>>,
           \A q \in Refreshes : q # r => Spared(q),
           RefreshInv(r)',
           jobs[r] = "FAILED" => jobs'[r] = "FAILED",
           BetweenHalves(r) => BetweenHalves(r)'
    PROVE  KnowledgeInv'
<1>1. Grows
  BY KnowledgeTypes DEF Grows, KnowledgeInv
<1>2. \A q \in Refreshes : RefreshInv(q)'
  BY <1>1, Together
<1>3. NumbersReached' /\ ActiveHasVersion'
  BY DEF KnowledgeInv, NumbersReached, ActiveHasVersion
<1>4. SomeFailed'
  BY DEF KnowledgeInv, SomeFailed, Spared
<1>5. \A q \in Refreshes : BetweenHalves(q) => BetweenHalves(q)'
  BY DEF BetweenHalves, Spared
<1>6. SomeCurrent'
  BY <1>5 DEF KnowledgeInv, SomeCurrent
<1> QED BY <1>2, <1>3, <1>4, <1>6 DEF KnowledgeInv

-------------------------------------------------------------------------------
(* Steps that leave the rows of the document alone *)

LEMMA StartKeeps ==
    ASSUME KnowledgeInv, NEW r \in Refreshes, StartRefresh(r)
    PROVE  KnowledgeInv'
<1>1. KnowledgeTypeOK /\ RefreshInv(r)
  BY DEF KnowledgeInv
<1>2. /\ ingestPc' \in [Refreshes -> IngestPC]
      /\ ingestPc[r] = "idle" /\ ingestPc'[r] = "fetch"
      /\ \A q \in Refreshes : q # r => ingestPc'[q] = ingestPc[q]
      /\ interrupted' \subseteq Refreshes
  BY <1>1, Moved DEF StartRefresh, IngestPC, PipelineCalls
<1>3. /\ jobs' \in [Refreshes -> JobStatuses]
      /\ jobs'[r] = "RUNNING"
      /\ \A q \in Refreshes : q # r => jobs'[q] = jobs[q]
  BY <1>1, JobMoved DEF StartRefresh, JobStatuses
<1>4. UNCHANGED <<policy, versions, health, instant, ingestLocal>>
  BY DEF StartRefresh
<1>5. KnowledgeTypeOK'
  BY <1>1, <1>2, <1>3, <1>4 DEF KnowledgeTypeOK
<1>6. RefreshInv(r)'
  BY <1>1, <1>2, <1>3, <1>4 DEF RefreshInv, PipelineCalls, Stored
<1>7. \A q \in Refreshes : q # r => Spared(q)
  BY <1>2, <1>3, <1>4 DEF Spared
<1>8. ~BetweenHalves(r) /\ jobs[r] # "FAILED"
  BY <1>1, <1>2 DEF BetweenHalves, RefreshInv
<1> QED BY <1>4, <1>5, <1>6, <1>7, <1>8, RowsAlone

LEMMA FetchKeeps ==
    ASSUME KnowledgeInv, NEW r \in Refreshes, Fetch(r)
    PROVE  KnowledgeInv'
<1>1. KnowledgeTypeOK /\ RefreshInv(r)
  BY DEF KnowledgeInv
<1>2. PICK now \in {instant, instant + 1} :
      /\ IngestGo(r, "fetch", "checkDuplicate")
      /\ instant' = now
      /\ ingestLocal' = [ingestLocal EXCEPT ![r].fingerprint = now]
      /\ UNCHANGED <<policy, versions, jobs, health>>
  BY DEF Fetch
<1>3. now \in Nat \ {0}
  BY <1>1, <1>2 DEF KnowledgeTypeOK
<1>4. /\ ingestPc' \in [Refreshes -> IngestPC]
      /\ ingestPc[r] = "fetch" /\ ingestPc'[r] = "checkDuplicate"
      /\ \A q \in Refreshes : q # r => ingestPc'[q] = ingestPc[q]
      /\ interrupted' \subseteq Refreshes
  BY <1>1, <1>2, Moved DEF IngestPC, PipelineCalls
<1>5. [ingestLocal[r] EXCEPT !.fingerprint = now] \in IngestLocal
  BY <1>1, <1>3, KnowledgeTypes DEF IngestLocal
<1>6. /\ ingestLocal' \in [Refreshes -> IngestLocal]
      /\ ingestLocal'[r] = [ingestLocal[r] EXCEPT !.fingerprint = now]
      /\ \A q \in Refreshes : q # r => ingestLocal'[q] = ingestLocal[q]
  BY <1>1, <1>2, <1>5, Remembered
<1>7. ingestLocal[r] \in IngestLocal
  BY <1>1, KnowledgeTypes
<1>8. /\ ingestLocal'[r].fingerprint = now
      /\ ingestLocal'[r].number = ingestLocal[r].number
      /\ ingestLocal'[r].stored = ingestLocal[r].stored
  BY <1>6, <1>7 DEF IngestLocal
<1>9. KnowledgeTypeOK'
  BY <1>1, <1>2, <1>3, <1>4, <1>6 DEF KnowledgeTypeOK
<1>10. RefreshInv(r)'
  BY <1>1, <1>2, <1>3, <1>4, <1>8 DEF RefreshInv, PipelineCalls, Stored
<1>11. \A q \in Refreshes : q # r => Spared(q)
  BY <1>2, <1>4, <1>6 DEF Spared
<1>12. ~BetweenHalves(r)
  BY <1>4 DEF BetweenHalves
<1> QED BY <1>2, <1>9, <1>10, <1>11, <1>12, RowsAlone

\* A step that only moves on: RefreshInv of the place it comes to is what is left to show.
LEMMA OnlyMoves ==
    ASSUME KnowledgeInv, NEW r \in Refreshes,
           ingestPc' \in [Refreshes -> IngestPC],
           \A q \in Refreshes : q # r => ingestPc'[q] = ingestPc[q],
           interrupted' \subseteq Refreshes,
           UNCHANGED <<policy, versions, jobs, health, instant, ingestLocal>>,
           RefreshInv(r)',
           BetweenHalves(r) => BetweenHalves(r)'
    PROVE  KnowledgeInv'
<1>1. KnowledgeTypeOK'
  BY DEF KnowledgeInv, KnowledgeTypeOK
<1>2. \A q \in Refreshes : q # r => Spared(q)
  BY DEF Spared
<1> QED BY <1>1, <1>2, RowsAlone

LEMMA CheckKeeps ==
    ASSUME KnowledgeInv, NEW r \in Refreshes, CheckDuplicate(r)
    PROVE  KnowledgeInv'
<1>1. KnowledgeTypeOK /\ RefreshInv(r)
  BY DEF KnowledgeInv
<1> DEFINE to == IF Ingested(ingestLocal[r].fingerprint) THEN "complete" ELSE "findDocument"
<1>2. to \in IngestPC
  BY DEF IngestPC, PipelineCalls
<1>3. IngestGo(r, "checkDuplicate", to)
  BY DEF CheckDuplicate
<1>4. /\ ingestPc' \in [Refreshes -> IngestPC]
      /\ ingestPc[r] = "checkDuplicate" /\ ingestPc'[r] = to
      /\ \A q \in Refreshes : q # r => ingestPc'[q] = ingestPc[q]
      /\ interrupted' \subseteq Refreshes
  BY <1>1, <1>2, <1>3, Moved
<1>5. UNCHANGED <<policy, versions, jobs, health, instant, ingestLocal>>
  BY DEF CheckDuplicate
<1>6. RefreshInv(r)'
  BY <1>1, <1>4, <1>5 DEF RefreshInv, PipelineCalls, Stored, Ingested
<1>7. ~BetweenHalves(r)
  BY <1>4 DEF BetweenHalves
<1> QED BY <1>4, <1>5, <1>6, <1>7, OnlyMoves

LEMMA FindKeeps ==
    ASSUME KnowledgeInv, NEW r \in Refreshes, FindDocument(r)
    PROVE  KnowledgeInv'
<1>1. KnowledgeTypeOK /\ RefreshInv(r)
  BY DEF KnowledgeInv
<1> DEFINE to == IF Documented THEN "incrementVersion" ELSE "createDocument"
<1>2. to \in IngestPC
  BY DEF IngestPC, PipelineCalls
<1>3. IngestGo(r, "findDocument", to)
  BY DEF FindDocument
<1>4. /\ ingestPc' \in [Refreshes -> IngestPC]
      /\ ingestPc[r] = "findDocument" /\ ingestPc'[r] = to
      /\ \A q \in Refreshes : q # r => ingestPc'[q] = ingestPc[q]
      /\ interrupted' \subseteq Refreshes
  BY <1>1, <1>2, <1>3, Moved
<1>5. policy.number \in Nat /\ ingestLocal[r] \in IngestLocal
  BY <1>1, KnowledgeTypes
<1>6. [ingestLocal[r] EXCEPT !.number = policy.number] \in IngestLocal
  BY <1>5 DEF IngestLocal
<1>7. /\ ingestLocal' \in [Refreshes -> IngestLocal]
      /\ ingestLocal'[r] = [ingestLocal[r] EXCEPT !.number = policy.number]
      /\ \A q \in Refreshes : q # r => ingestLocal'[q] = ingestLocal[q]
  BY <1>1, <1>6, Remembered DEF FindDocument
<1>8. /\ ingestLocal'[r].fingerprint = ingestLocal[r].fingerprint
      /\ ingestLocal'[r].number = policy.number
      /\ ingestLocal'[r].stored = ingestLocal[r].stored
  BY <1>5, <1>7 DEF IngestLocal
<1>9. UNCHANGED <<policy, versions, jobs, health, instant>>
  BY DEF FindDocument
<1>10. KnowledgeTypeOK'
  BY <1>1, <1>4, <1>7, <1>9 DEF KnowledgeTypeOK
<1>11. RefreshInv(r)'
  BY <1>1, <1>4, <1>5, <1>8, <1>9 DEF RefreshInv, PipelineCalls, Stored, Documented
<1>12. \A q \in Refreshes : q # r => Spared(q)
  BY <1>4, <1>7, <1>9 DEF Spared
<1>13. ~BetweenHalves(r)
  BY <1>4 DEF BetweenHalves
<1> QED BY <1>9, <1>10, <1>11, <1>12, <1>13, RowsAlone

LEMMA PublishKeeps ==
    ASSUME KnowledgeInv, NEW r \in Refreshes, PublishProcessed(r) \/ PublishCompleted(r)
    PROVE  KnowledgeInv'
<1>1. KnowledgeTypeOK /\ RefreshInv(r)
  BY DEF KnowledgeInv
<1>2. UNCHANGED <<policy, versions, jobs, health, instant, ingestLocal>>
  BY DEF PublishProcessed, PublishCompleted
<1>3. CASE PublishProcessed(r)
  <2>1. /\ ingestPc' \in [Refreshes -> IngestPC]
        /\ ingestPc[r] = "publishProcessed" /\ ingestPc'[r] = "complete"
        /\ \A q \in Refreshes : q # r => ingestPc'[q] = ingestPc[q]
        /\ interrupted' \subseteq Refreshes
    BY <1>1, <1>3, Moved DEF PublishProcessed, IngestPC
  <2>2. RefreshInv(r)' /\ ~BetweenHalves(r)
    BY <1>1, <1>2, <2>1 DEF RefreshInv, PipelineCalls, Stored, BetweenHalves
  <2> QED BY <1>2, <2>1, <2>2, OnlyMoves
<1>4. CASE PublishCompleted(r)
  <2>1. /\ ingestPc' \in [Refreshes -> IngestPC]
        /\ ingestPc[r] = "publishCompleted" /\ ingestPc'[r] = "done"
        /\ \A q \in Refreshes : q # r => ingestPc'[q] = ingestPc[q]
        /\ interrupted' \subseteq Refreshes
    BY <1>1, <1>4, Moved DEF PublishCompleted, IngestPC
  <2>2. RefreshInv(r)' /\ ~BetweenHalves(r)
    BY <1>1, <1>2, <2>1 DEF RefreshInv, PipelineCalls, Stored, BetweenHalves
  <2> QED BY <1>2, <2>1, <2>2, OnlyMoves
<1> QED BY <1>3, <1>4

LEMMA CompleteKeeps ==
    ASSUME KnowledgeInv, NEW r \in Refreshes, CompleteJob(r)
    PROVE  KnowledgeInv'
<1>1. KnowledgeTypeOK /\ RefreshInv(r)
  BY DEF KnowledgeInv
<1>2. /\ ingestPc' \in [Refreshes -> IngestPC]
      /\ ingestPc[r] = "complete" /\ ingestPc'[r] = "publishCompleted"
      /\ \A q \in Refreshes : q # r => ingestPc'[q] = ingestPc[q]
      /\ interrupted' \subseteq Refreshes
  BY <1>1, Moved DEF CompleteJob, IngestPC
<1>3. /\ jobs' \in [Refreshes -> JobStatuses]
      /\ jobs'[r] = "COMPLETED"
      /\ \A q \in Refreshes : q # r => jobs'[q] = jobs[q]
  BY <1>1, JobMoved DEF CompleteJob, JobStatuses
<1>4. UNCHANGED <<policy, versions, health, instant, ingestLocal>>
  BY DEF CompleteJob
<1>5. KnowledgeTypeOK'
  BY <1>1, <1>2, <1>3, <1>4 DEF KnowledgeTypeOK
<1>6. RefreshInv(r)'
  BY <1>1, <1>2, <1>3, <1>4 DEF RefreshInv, PipelineCalls, Stored
<1>7. \A q \in Refreshes : q # r => Spared(q)
  BY <1>2, <1>3, <1>4 DEF Spared
<1>8. ~BetweenHalves(r) /\ jobs[r] # "FAILED"
  BY <1>1, <1>2 DEF BetweenHalves, RefreshInv
<1> QED BY <1>4, <1>5, <1>6, <1>7, <1>8, RowsAlone

LEMMA FailKeeps ==
    ASSUME KnowledgeInv, NEW r \in Refreshes, FailJob(r)
    PROVE  KnowledgeInv'
<1>1. KnowledgeTypeOK /\ RefreshInv(r)
  BY DEF KnowledgeInv
<1>2. /\ ingestPc' \in [Refreshes -> IngestPC]
      /\ ingestPc[r] = "failJob" /\ ingestPc'[r] = "degrade"
      /\ \A q \in Refreshes : q # r => ingestPc'[q] = ingestPc[q]
      /\ interrupted' \subseteq Refreshes
  BY <1>1, Moved DEF FailJob, IngestPC
<1>3. /\ jobs' \in [Refreshes -> JobStatuses]
      /\ jobs'[r] = "FAILED"
      /\ \A q \in Refreshes : q # r => jobs'[q] = jobs[q]
  BY <1>1, JobMoved DEF FailJob, JobStatuses
<1>4. UNCHANGED <<policy, versions, health, instant, ingestLocal>>
  BY DEF FailJob
<1>5. KnowledgeTypeOK'
  BY <1>1, <1>2, <1>3, <1>4 DEF KnowledgeTypeOK
<1>6. RefreshInv(r)'
  BY <1>1, <1>2, <1>3, <1>4 DEF RefreshInv, PipelineCalls, Stored
<1>7. \A q \in Refreshes : q # r => Spared(q)
  BY <1>2, <1>3, <1>4 DEF Spared
<1>8. BetweenHalves(r) => BetweenHalves(r)'
  BY <1>2, <1>3, <1>4 DEF BetweenHalves
<1> QED BY <1>3, <1>4, <1>5, <1>6, <1>7, <1>8, RowsAlone

LEMMA CutShortKeeps ==
    ASSUME KnowledgeInv, NEW r \in Refreshes, RejectCall(r) \/ AbandonRefresh(r)
    PROVE  KnowledgeInv'
<1>1. KnowledgeTypeOK /\ RefreshInv(r)
  BY DEF KnowledgeInv
<1>2. UNCHANGED <<policy, versions, jobs, health, instant, ingestLocal>>
  BY DEF RejectCall, AbandonRefresh
<1>3. interrupted' \subseteq Refreshes
  BY <1>1 DEF RejectCall, AbandonRefresh, KnowledgeTypeOK
<1>4. CASE RejectCall(r)
  <2>1. /\ ingestPc' \in [Refreshes -> IngestPC]
        /\ ingestPc'[r] = "failJob"
        /\ ingestPc[r] \in PipelineCalls \cup {"complete", "publishCompleted"}
        /\ \A q \in Refreshes : q # r => ingestPc'[q] = ingestPc[q]
    BY <1>1, <1>4 DEF RejectCall, IngestPC, KnowledgeTypeOK
  <2>2. RefreshInv(r)' /\ (BetweenHalves(r) => BetweenHalves(r)')
    BY <1>1, <1>2, <2>1 DEF RefreshInv, PipelineCalls, Stored, BetweenHalves
  <2> QED BY <1>2, <1>3, <2>1, <2>2, OnlyMoves
<1>5. CASE AbandonRefresh(r)
  <2>1. /\ ingestPc' \in [Refreshes -> IngestPC]
        /\ ingestPc'[r] = "dead"
        /\ \A q \in Refreshes : q # r => ingestPc'[q] = ingestPc[q]
    BY <1>1, <1>5 DEF AbandonRefresh, IngestPC, KnowledgeTypeOK
  <2>2. RefreshInv(r)' /\ (BetweenHalves(r) => BetweenHalves(r)')
    BY <1>1, <1>2, <2>1 DEF RefreshInv, PipelineCalls, Stored, BetweenHalves
  <2> QED BY <1>2, <1>3, <2>1, <2>2, OnlyMoves
<1> QED BY <1>4, <1>5

-------------------------------------------------------------------------------
(* Steps that change the rows of the document or the source *)

LEMMA DegradeKeeps ==
    ASSUME KnowledgeInv, NEW r \in Refreshes, Degrade(r)
    PROVE  KnowledgeInv'
<1>1. KnowledgeTypeOK /\ RefreshInv(r)
  BY DEF KnowledgeInv
<1>2. /\ ingestPc' \in [Refreshes -> IngestPC]
      /\ ingestPc[r] = "degrade" /\ ingestPc'[r] = "done"
      /\ \A q \in Refreshes : q # r => ingestPc'[q] = ingestPc[q]
      /\ interrupted' \subseteq Refreshes
  BY <1>1, Moved DEF Degrade, IngestPC
<1>3. health' = "DEGRADED" /\ UNCHANGED <<policy, versions, jobs, instant, ingestLocal>>
  BY DEF Degrade
<1>4. KnowledgeTypeOK'
  BY <1>1, <1>2, <1>3 DEF KnowledgeTypeOK, HealthStatus
<1>5. RefreshInv(r)'
  BY <1>1, <1>2, <1>3 DEF RefreshInv, PipelineCalls, Stored
<1>6. \A q \in Refreshes : q # r => Spared(q)
  BY <1>2, <1>3 DEF Spared
<1>7. Grows
  BY <1>1, <1>3, KnowledgeTypes DEF Grows
<1>8. \A q \in Refreshes : RefreshInv(q)'
  BY <1>4, <1>5, <1>6, <1>7, Together
<1>9. jobs'[r] = "FAILED"
  BY <1>1, <1>2, <1>3 DEF RefreshInv
<1>10. SomeFailed'
  BY <1>9 DEF SomeFailed
<1>11. \A q \in Refreshes : BetweenHalves(q) => BetweenHalves(q)'
  BY <1>2, <1>3, <1>6 DEF BetweenHalves, Spared
<1>12. NumbersReached' /\ ActiveHasVersion' /\ SomeCurrent'
  BY <1>3, <1>11 DEF KnowledgeInv, NumbersReached, ActiveHasVersion, SomeCurrent
<1> QED BY <1>4, <1>8, <1>10, <1>12 DEF KnowledgeInv

\* The document that is created has no versions yet: a version would have a number that
\* the document has not reached.
LEMMA CreateDocumentKeeps ==
    ASSUME KnowledgeInv, NEW r \in Refreshes, CreateDocument(r)
    PROVE  KnowledgeInv'
<1>1. KnowledgeTypeOK /\ RefreshInv(r)
  BY DEF KnowledgeInv
<1> DEFINE to == IF Documented THEN "failJob" ELSE "retireVersions"
<1>2. to \in IngestPC
  BY DEF IngestPC, PipelineCalls
<1>3. IngestGo(r, "createDocument", to)
  BY DEF CreateDocument
<1>4. /\ ingestPc' \in [Refreshes -> IngestPC]
      /\ ingestPc[r] = "createDocument" /\ ingestPc'[r] = to
      /\ \A q \in Refreshes : q # r => ingestPc'[q] = ingestPc[q]
      /\ interrupted' \subseteq Refreshes
  BY <1>1, <1>2, <1>3, Moved
<1>5. UNCHANGED <<versions, jobs, health, instant>>
  BY DEF CreateDocument
<1>6. ~BetweenHalves(r)
  BY <1>4 DEF BetweenHalves
<1>7. CASE Documented
  <2>1. UNCHANGED <<policy, ingestLocal>>
    BY <1>7 DEF CreateDocument
  <2>2. RefreshInv(r)'
    BY <1>1, <1>4, <1>5, <1>7, <2>1 DEF RefreshInv, PipelineCalls, Stored
  <2> QED BY <1>4, <1>5, <1>6, <2>1, <2>2, OnlyMoves
<1>8. CASE ~Documented
  <2>1. /\ policy' = [number |-> 1, status |-> "DOWNLOADED"]
        /\ ingestLocal' = [ingestLocal EXCEPT ![r].number = 1]
    BY <1>8 DEF CreateDocument
  <2>2. policy.number = 0 /\ ingestLocal[r] \in IngestLocal
    BY <1>1, <1>8, KnowledgeTypes DEF Documented
  <2>3. DOMAIN versions = {}
    <3>1. \A v \in DOMAIN versions : versions[v].number <= 0 /\ versions[v].number \in Nat \ {0}
      BY <1>1, <2>2, KnowledgeTypes DEF KnowledgeInv, NumbersReached
    <3>2. \A v \in DOMAIN versions : FALSE
      <4> TAKE v \in DOMAIN versions
      <4> DEFINE n == versions[v].number
      <4>1. n <= 0 /\ n \in Nat \ {0}
        BY <3>1
      <4> HIDE DEF n
      <4> QED BY <4>1
    <3> QED BY <3>2
  <2>4. [ingestLocal[r] EXCEPT !.number = 1] \in IngestLocal
    BY <2>2 DEF IngestLocal
  <2>5. /\ ingestLocal' \in [Refreshes -> IngestLocal]
        /\ ingestLocal'[r] = [ingestLocal[r] EXCEPT !.number = 1]
        /\ \A q \in Refreshes : q # r => ingestLocal'[q] = ingestLocal[q]
    BY <1>1, <2>1, <2>4, Remembered
  <2>6. /\ ingestLocal'[r].fingerprint = ingestLocal[r].fingerprint
        /\ ingestLocal'[r].number = 1
        /\ ingestLocal'[r].stored = ingestLocal[r].stored
    BY <2>2, <2>5 DEF IngestLocal
  <2>7. policy'.number = 1 /\ policy'.status = "DOWNLOADED" /\ policy' \in PolicyRow
    BY <2>1 DEF PolicyRow
  <2>8. KnowledgeTypeOK'
    BY <1>1, <1>4, <1>5, <2>5, <2>7 DEF KnowledgeTypeOK
  <2>9. RefreshInv(r)'
    BY <1>1, <1>4, <1>5, <1>8, <2>6, <2>7 DEF RefreshInv, PipelineCalls, Stored
  <2>10. \A q \in Refreshes : q # r => Spared(q)
    BY <1>4, <1>5, <2>5 DEF Spared
  <2>11. Grows
    BY <1>1, <1>5, <2>2, <2>7 DEF Grows
  <2>12. \A q \in Refreshes : RefreshInv(q)'
    BY <2>8, <2>9, <2>10, <2>11, Together
  <2>13. NumbersReached' /\ SomeCurrent' /\ ActiveHasVersion'
    BY <1>5, <2>3, <2>7 DEF NumbersReached, SomeCurrent, ActiveHasVersion
  <2>14. SomeFailed'
    BY <1>5 DEF KnowledgeInv, SomeFailed
  <2> QED BY <2>8, <2>12, <2>13, <2>14 DEF KnowledgeInv
<1> QED BY <1>7, <1>8

LEMMA PolicyKeeps ==
    ASSUME KnowledgeInv, NEW r \in Refreshes, IncrementVersion(r) \/ Activate(r)
    PROVE  KnowledgeInv'
<1>1. KnowledgeTypeOK /\ RefreshInv(r)
  BY DEF KnowledgeInv
<1>2. UNCHANGED <<versions, jobs, health, instant, ingestLocal>>
  BY DEF IncrementVersion, Activate
<1>3. policy \in PolicyRow /\ policy.number \in Nat
  BY <1>1, KnowledgeTypes DEF KnowledgeTypeOK
<1>4. /\ ingestPc' \in [Refreshes -> IngestPC]
      /\ \A q \in Refreshes : q # r => ingestPc'[q] = ingestPc[q]
      /\ interrupted' \subseteq Refreshes
      /\ policy' \in PolicyRow
      /\ policy.number <= policy'.number
      /\ RefreshInv(r)'
      /\ policy'.status = "ACTIVE" => policy.status = "ACTIVE" \/ DOMAIN versions # {}
      /\ ~BetweenHalves(r)
  <2>1. CASE IncrementVersion(r)
    <3>1. /\ ingestPc' \in [Refreshes -> IngestPC]
          /\ ingestPc[r] = "incrementVersion" /\ ingestPc'[r] = "retireVersions"
          /\ \A q \in Refreshes : q # r => ingestPc'[q] = ingestPc[q]
          /\ interrupted' \subseteq Refreshes
      BY <1>1, <2>1, Moved DEF IncrementVersion, IngestPC, PipelineCalls
    <3>2. policy' = [policy EXCEPT !.number = policy.number + 1]
      BY <2>1 DEF IncrementVersion
    <3>3. /\ policy' \in PolicyRow
          /\ policy'.number = policy.number + 1 /\ policy'.status = policy.status
      BY <1>3, <3>2 DEF PolicyRow
    <3>4. ingestLocal[r].number <= policy'.number
      BY <1>1, <1>3, <3>3, KnowledgeTypes DEF RefreshInv
    <3>5. RefreshInv(r)' /\ ~BetweenHalves(r)
      BY <1>1, <1>2, <3>1, <3>4 DEF RefreshInv, PipelineCalls, Stored, BetweenHalves
    <3> QED BY <1>3, <3>1, <3>3, <3>5
  <2>2. CASE Activate(r)
    <3>1. /\ ingestPc' \in [Refreshes -> IngestPC]
          /\ ingestPc[r] = "activate" /\ ingestPc'[r] = "publishProcessed"
          /\ \A q \in Refreshes : q # r => ingestPc'[q] = ingestPc[q]
          /\ interrupted' \subseteq Refreshes
      BY <1>1, <2>2, Moved DEF Activate, IngestPC, PipelineCalls
    <3>2. policy' = [policy EXCEPT !.status = "ACTIVE"]
      BY <2>2 DEF Activate
    <3>3. policy' \in PolicyRow /\ policy'.number = policy.number
      BY <1>3, <3>2 DEF PolicyRow
    <3>4. DOMAIN versions # {}
      BY <1>1, <3>1 DEF RefreshInv, Stored
    <3>5. RefreshInv(r)' /\ ~BetweenHalves(r)
      BY <1>1, <1>2, <3>1, <3>3 DEF RefreshInv, PipelineCalls, Stored, BetweenHalves
    <3> QED BY <1>3, <3>1, <3>3, <3>4, <3>5
  <2> QED BY <2>1, <2>2
<1>5. KnowledgeTypeOK'
  BY <1>1, <1>2, <1>4 DEF KnowledgeTypeOK
<1>6. \A q \in Refreshes : q # r => Spared(q)
  BY <1>2, <1>4 DEF Spared
<1>7. Grows
  BY <1>2, <1>4 DEF Grows
<1>8. \A q \in Refreshes : RefreshInv(q)'
  BY <1>4, <1>5, <1>6, <1>7, Together
<1>9. policy'.number \in Nat
  BY <1>4 DEF PolicyRow
<1>10. NumbersReached'
  BY <1>1, <1>2, <1>3, <1>4, <1>9, KnowledgeTypes DEF KnowledgeInv, NumbersReached
<1>11. ActiveHasVersion' /\ SomeFailed'
  BY <1>2, <1>4 DEF KnowledgeInv, ActiveHasVersion, SomeFailed
<1>12. \A q \in Refreshes : BetweenHalves(q) => BetweenHalves(q)'
  BY <1>4, <1>6 DEF BetweenHalves, Spared
<1>13. SomeCurrent'
  BY <1>2, <1>12 DEF KnowledgeInv, SomeCurrent
<1> QED BY <1>5, <1>8, <1>10, <1>11, <1>13 DEF KnowledgeInv

\* Whoever retires the versions is between the halves from then on.
LEMMA RetireKeeps ==
    ASSUME KnowledgeInv, NEW r \in Refreshes, RetireVersions(r)
    PROVE  KnowledgeInv'
<1>1. KnowledgeTypeOK /\ RefreshInv(r)
  BY DEF KnowledgeInv
<1>2. /\ ingestPc' \in [Refreshes -> IngestPC]
      /\ ingestPc[r] = "retireVersions" /\ ingestPc'[r] = "createVersion"
      /\ \A q \in Refreshes : q # r => ingestPc'[q] = ingestPc[q]
      /\ interrupted' \subseteq Refreshes
  BY <1>1, Moved DEF RetireVersions, IngestPC, PipelineCalls
<1>3. UNCHANGED <<policy, jobs, health, instant, ingestLocal>> /\ versions' = AllRetired
  BY DEF RetireVersions
<1>4. \A v \in DOMAIN versions : [versions[v] EXCEPT !.current = FALSE] \in VersionRow
  BY <1>1, KnowledgeTypes DEF VersionRow
<1>5. DOMAIN versions = 1..Len(versions) /\ Len(versions) \in Nat
  BY <1>1, KnowledgeTypes
<1>6. versions' \in Seq(VersionRow) /\ DOMAIN versions' = DOMAIN versions
  BY <1>3, <1>4, <1>5 DEF AllRetired
<1>7. \A v \in DOMAIN versions : /\ versions'[v].number = versions[v].number
                                 /\ versions'[v].fingerprint = versions[v].fingerprint
  <2> TAKE v \in DOMAIN versions
  <2>1. versions'[v] = [versions[v] EXCEPT !.current = FALSE] /\ versions[v] \in VersionRow
    BY <1>1, <1>3, KnowledgeTypes DEF AllRetired
  <2> QED BY <2>1 DEF VersionRow
<1>8. Grows
  BY <1>1, <1>3, <1>6, <1>7, KnowledgeTypes DEF Grows
<1>9. KnowledgeTypeOK'
  BY <1>1, <1>2, <1>3, <1>6 DEF KnowledgeTypeOK
<1>10. \A q \in Refreshes : q # r => Spared(q)
  BY <1>2, <1>3 DEF Spared
<1>11. RefreshInv(r)' /\ BetweenHalves(r)'
  BY <1>1, <1>2, <1>3, KnowledgeTypes DEF RefreshInv, PipelineCalls, Stored, BetweenHalves
<1>12. \A q \in Refreshes : RefreshInv(q)'
  BY <1>8, <1>9, <1>10, <1>11, Together
<1>13. NumbersReached' /\ ActiveHasVersion' /\ SomeFailed' /\ SomeCurrent'
  BY <1>3, <1>6, <1>7, <1>11
     DEF KnowledgeInv, NumbersReached, ActiveHasVersion, SomeFailed, SomeCurrent
<1> QED BY <1>9, <1>12, <1>13 DEF KnowledgeInv

LEMMA CreateVersionKeeps ==
    ASSUME KnowledgeInv, NEW r \in Refreshes, CreateVersion(r)
    PROVE  KnowledgeInv'
<1>1. KnowledgeTypeOK /\ RefreshInv(r)
  BY DEF KnowledgeInv
<1> DEFINE to == IF Refused(ingestLocal[r]) THEN "failJob" ELSE "createChunks"
<1>2. to \in IngestPC
  BY DEF IngestPC, PipelineCalls
<1>3. IngestGo(r, "createVersion", to)
  BY DEF CreateVersion
<1>4. /\ ingestPc' \in [Refreshes -> IngestPC]
      /\ ingestPc[r] = "createVersion" /\ ingestPc'[r] = to
      /\ \A q \in Refreshes : q # r => ingestPc'[q] = ingestPc[q]
      /\ interrupted' \subseteq Refreshes
  BY <1>1, <1>2, <1>3, Moved
<1>5. UNCHANGED <<policy, jobs, health, instant>>
  BY DEF CreateVersion
<1>6. CASE Refused(ingestLocal[r])
  <2>1. UNCHANGED <<versions, ingestLocal>>
    BY <1>6 DEF CreateVersion
  <2>2. RefreshInv(r)' /\ (BetweenHalves(r) => BetweenHalves(r)')
    BY <1>1, <1>4, <1>5, <1>6, <2>1 DEF RefreshInv, PipelineCalls, Stored, BetweenHalves
  <2> QED BY <1>4, <1>5, <2>1, <2>2, OnlyMoves
<1>7. CASE ~Refused(ingestLocal[r])
  <2> DEFINE row == NewVersion(ingestLocal[r])
             added == Len(versions) + 1
  <2>1. /\ versions' = Append(versions, row)
        /\ ingestLocal' = [ingestLocal EXCEPT ![r].stored = added]
    BY <1>7 DEF CreateVersion
  <2>2. /\ Len(versions) \in Nat /\ DOMAIN versions = 1..Len(versions)
        /\ versions \in Seq(VersionRow)
        /\ ingestLocal[r] \in IngestLocal
        /\ ingestLocal[r].number \in Nat /\ ingestLocal[r].fingerprint \in Nat
    BY <1>1, KnowledgeTypes DEF KnowledgeTypeOK
  <2>3. ingestLocal[r].number > 0 /\ ingestLocal[r].fingerprint > 0
    BY <1>1, <1>4 DEF RefreshInv
  <2>4. /\ row \in VersionRow /\ row.number = ingestLocal[r].number
        /\ row.fingerprint = ingestLocal[r].fingerprint /\ row.current
    BY <2>2, <2>3 DEF NewVersion, VersionRow
  <2>5. /\ versions' \in Seq(VersionRow)
        /\ DOMAIN versions' = 1..added
        /\ \A v \in DOMAIN versions : versions'[v] = versions[v]
        /\ versions'[added] = row
    <3> HIDE DEF row
    <3> QED BY <2>1, <2>2, <2>4
  <2>6. [ingestLocal[r] EXCEPT !.stored = added] \in IngestLocal
    BY <2>2 DEF IngestLocal
  <2>7. /\ ingestLocal' \in [Refreshes -> IngestLocal]
        /\ ingestLocal'[r] = [ingestLocal[r] EXCEPT !.stored = added]
        /\ \A q \in Refreshes : q # r => ingestLocal'[q] = ingestLocal[q]
    BY <1>1, <2>1, <2>6, Remembered
  <2>8. /\ ingestLocal'[r].fingerprint = ingestLocal[r].fingerprint
        /\ ingestLocal'[r].number = ingestLocal[r].number
        /\ ingestLocal'[r].stored = added
    BY <2>2, <2>7 DEF IngestLocal
  <2>9. added \in DOMAIN versions' /\ DOMAIN versions \subseteq DOMAIN versions'
    BY <2>2, <2>5
  <2>10. Stored(r)'
    BY <2>4, <2>5, <2>8, <2>9 DEF Stored
  <2>11. Grows
    BY <1>1, <1>5, <2>5, <2>9, KnowledgeTypes DEF Grows
  <2>12. KnowledgeTypeOK'
    BY <1>1, <1>4, <1>5, <2>5, <2>7 DEF KnowledgeTypeOK
  <2>13. \A q \in Refreshes : q # r => Spared(q)
    BY <1>4, <1>5, <2>7 DEF Spared
  <2>14. ingestPc'[r] = "createChunks"
    BY <1>4, <1>7
  <2>15. RefreshInv(r)'
    BY <1>1, <1>4, <1>5, <2>8, <2>9, <2>10, <2>14 DEF RefreshInv, PipelineCalls
  <2>16. \A q \in Refreshes : RefreshInv(q)'
    BY <2>11, <2>12, <2>13, <2>15, Together
  <2>17. \A v \in DOMAIN versions' : v \in DOMAIN versions \/ v = added
    BY <2>2, <2>5
  <2>18. row.number <= policy'.number
    BY <1>1, <1>5, <2>4 DEF RefreshInv
  <2>19. NumbersReached'
    BY <1>5, <2>5, <2>17, <2>18 DEF KnowledgeInv, NumbersReached
  <2>20. ActiveHasVersion' /\ SomeCurrent'
    BY <2>4, <2>5, <2>9 DEF ActiveHasVersion, SomeCurrent
  <2>21. SomeFailed'
    BY <1>5 DEF KnowledgeInv, SomeFailed
  <2> QED BY <2>12, <2>16, <2>19, <2>20, <2>21 DEF KnowledgeInv
<1> QED BY <1>6, <1>7

LEMMA CreateChunksKeeps ==
    ASSUME KnowledgeInv, NEW r \in Refreshes, CreateChunks(r)
    PROVE  KnowledgeInv'
<1>1. KnowledgeTypeOK /\ RefreshInv(r)
  BY DEF KnowledgeInv
<1>2. /\ ingestPc' \in [Refreshes -> IngestPC]
      /\ ingestPc[r] = "createChunks" /\ ingestPc'[r] = "activate"
      /\ \A q \in Refreshes : q # r => ingestPc'[q] = ingestPc[q]
      /\ interrupted' \subseteq Refreshes
  BY <1>1, Moved DEF CreateChunks, IngestPC, PipelineCalls
<1>3. UNCHANGED <<policy, jobs, health, instant, ingestLocal>>
  BY DEF CreateChunks
<1> DEFINE stored == ingestLocal[r].stored
<1>4. versions' = [versions EXCEPT ![stored].chunked = TRUE]
  BY DEF CreateChunks
<1>5. stored \in DOMAIN versions
  BY <1>1, <1>2 DEF RefreshInv
<1>6. /\ DOMAIN versions = 1..Len(versions) /\ Len(versions) \in Nat
      /\ \A v \in DOMAIN versions : versions[v] \in VersionRow
  BY <1>1, KnowledgeTypes
<1>7. DOMAIN versions' = DOMAIN versions
  BY <1>4
<1>8. \A v \in DOMAIN versions :
        versions'[v] = IF v = stored THEN [versions[v] EXCEPT !.chunked = TRUE] ELSE versions[v]
  BY <1>4, <1>5
<1>9. \A v \in DOMAIN versions : /\ versions'[v] \in VersionRow
                                 /\ versions'[v].number = versions[v].number
                                 /\ versions'[v].fingerprint = versions[v].fingerprint
                                 /\ versions'[v].current = versions[v].current
  <2> HIDE DEF stored
  <2> TAKE v \in DOMAIN versions
  <2>1. CASE v = stored
    BY <1>6, <1>8, <2>1 DEF VersionRow
  <2>2. CASE v # stored
    BY <1>6, <1>8, <2>2
  <2> QED BY <2>1, <2>2
<1>10. versions' \in Seq(VersionRow)
  <2>1. versions \in Seq(VersionRow) /\ [versions[stored] EXCEPT !.chunked = TRUE] \in VersionRow
    BY <1>1, <1>5, <1>6 DEF KnowledgeTypeOK, VersionRow
  <2> QED BY <1>4, <1>5, <2>1
<1>11. Grows
  BY <1>1, <1>3, <1>7, <1>9, KnowledgeTypes DEF Grows
<1>12. KnowledgeTypeOK'
  BY <1>1, <1>2, <1>3, <1>10 DEF KnowledgeTypeOK
<1>13. \A q \in Refreshes : q # r => Spared(q)
  BY <1>2, <1>3 DEF Spared
<1>14. RefreshInv(r)' /\ ~BetweenHalves(r)
  <2>1. Stored(r)'
    BY <1>1, <1>2, <1>3, <1>7, <1>9 DEF RefreshInv, Stored
  <2> QED BY <1>1, <1>2, <1>3, <2>1 DEF RefreshInv, PipelineCalls, BetweenHalves
<1>15. \A q \in Refreshes : RefreshInv(q)'
  BY <1>11, <1>12, <1>13, <1>14, Together
<1>16. \A q \in Refreshes : BetweenHalves(q) => BetweenHalves(q)'
  BY <1>13, <1>14 DEF BetweenHalves, Spared
<1>17. NumbersReached' /\ ActiveHasVersion' /\ SomeFailed' /\ SomeCurrent'
  BY <1>3, <1>7, <1>9, <1>16
     DEF KnowledgeInv, NumbersReached, ActiveHasVersion, SomeFailed, SomeCurrent
<1> QED BY <1>12, <1>15, <1>17 DEF KnowledgeInv

-------------------------------------------------------------------------------
(* The theorems *)

LEMMA KnowledgeInvInit == KnowledgeInit => KnowledgeInv
<1> SUFFICES ASSUME KnowledgeInit PROVE KnowledgeInv
  OBVIOUS
<1>1. KnowledgeTypeOK
  BY DEF KnowledgeInit, KnowledgeTypeOK, PolicyRow, HealthStatus, JobStatuses, IngestPC,
         IngestLocal
<1>2. DOMAIN versions = {}
  BY DEF KnowledgeInit
<1>3. \A r \in Refreshes : RefreshInv(r)
  <2> TAKE r \in Refreshes
  <2>1. /\ ingestPc[r] = "idle" /\ jobs[r] = "none" /\ policy.number = 0
        /\ ingestLocal[r].number = 0 /\ ingestLocal[r].stored = 0
    BY DEF KnowledgeInit
  <2> QED BY <2>1 DEF RefreshInv, PipelineCalls
<1> QED BY <1>1, <1>2, <1>3
        DEF KnowledgeInit, KnowledgeInv, NumbersReached, SomeFailed, SomeCurrent, ActiveHasVersion

LEMMA KnowledgeInvStep == KnowledgeInv /\ [KnowledgeNext]_knowledgeVars => KnowledgeInv'
<1> SUFFICES ASSUME KnowledgeInv, [KnowledgeNext]_knowledgeVars PROVE KnowledgeInv'
  OBVIOUS
<1>1. CASE KnowledgeNext
  <2>1. PICK r \in Refreshes : RefreshStep(r)
    BY <1>1 DEF KnowledgeNext
  <2>2. CASE StartRefresh(r)      BY <2>2, StartKeeps
  <2>3. CASE Fetch(r)             BY <2>3, FetchKeeps
  <2>4. CASE CheckDuplicate(r)    BY <2>4, CheckKeeps
  <2>5. CASE FindDocument(r)      BY <2>5, FindKeeps
  <2>6. CASE CreateDocument(r)    BY <2>6, CreateDocumentKeeps
  <2>7. CASE IncrementVersion(r) \/ Activate(r)
    BY <2>7, PolicyKeeps
  <2>8. CASE RetireVersions(r)    BY <2>8, RetireKeeps
  <2>9. CASE CreateVersion(r)     BY <2>9, CreateVersionKeeps
  <2>10. CASE CreateChunks(r)     BY <2>10, CreateChunksKeeps
  <2>11. CASE PublishProcessed(r) \/ PublishCompleted(r)
    BY <2>11, PublishKeeps
  <2>12. CASE CompleteJob(r)      BY <2>12, CompleteKeeps
  <2>13. CASE FailJob(r)          BY <2>13, FailKeeps
  <2>14. CASE Degrade(r)          BY <2>14, DegradeKeeps
  <2>15. CASE RejectCall(r) \/ AbandonRefresh(r)
    BY <2>15, CutShortKeeps
  <2> QED BY <2>1, <2>2, <2>3, <2>4, <2>5, <2>6, <2>7, <2>8, <2>9, <2>10, <2>11, <2>12,
             <2>13, <2>14, <2>15 DEF RefreshStep
<1>2. CASE UNCHANGED knowledgeVars
  BY <1>2 DEF knowledgeVars, KnowledgeInv, KnowledgeTypeOK, RefreshInv, Stored, NumbersReached,
              SomeFailed, SomeCurrent, BetweenHalves, ActiveHasVersion
<1> QED BY <1>1, <1>2

\* The inductive invariant holds however many refreshes of the source there are.
THEOREM KnowledgeInvariance == KnowledgeSpec => []KnowledgeInv
BY KnowledgeInvInit, KnowledgeInvStep, PTL DEF KnowledgeSpec

\* The types of the rows and of what the refreshes remember.
THEOREM KnowledgeTypeCorrectness == KnowledgeSpec => []KnowledgeTypeOK
<1>1. KnowledgeInv => KnowledgeTypeOK
  BY DEF KnowledgeInv
<1> QED BY <1>1, KnowledgeInvariance, PTL

\* The job of a refresh tells what became of it, however refreshes overlap and whichever
\* call is rejected; only a failed job degrades the source; and a published document lacks
\* a current version only because of a refresh between the two halves of createVersion.
THEOREM JobsTellTheirOutcome == KnowledgeSpec => []JobTellsOutcome
<1>1. KnowledgeInv => JobTellsOutcome
  <2> SUFFICES ASSUME KnowledgeInv PROVE JobTellsOutcome
    OBVIOUS
  <2>1. \A r \in Refreshes : jobs[r] = "COMPLETED" => \E v \in DOMAIN versions :
          /\ versions[v].fingerprint = ingestLocal[r].fingerprint
          /\ versions[v].number <= policy.number
    BY DEF KnowledgeInv, RefreshInv, Stored, NumbersReached
  <2>2. \A r \in Refreshes : ingestPc[r] = "done" => jobs[r] \in {"COMPLETED", "FAILED"}
    BY DEF KnowledgeInv, RefreshInv
  <2>3. health = "DEGRADED" => \E r \in Refreshes : jobs[r] = "FAILED"
    BY DEF KnowledgeInv, SomeFailed
  <2>4. policy.status = "ACTIVE" /\ (\A v \in DOMAIN versions : ~versions[v].current) =>
          \E r \in Refreshes : BetweenHalves(r)
    BY DEF KnowledgeInv, SomeCurrent, ActiveHasVersion
  <2> QED BY <2>1, <2>2, <2>3, <2>4 DEF JobTellsOutcome, BetweenHalves
<1> QED BY <1>1, KnowledgeInvariance, PTL


-------------------------------------------------------------------------------
(* The search for candidates: counting *)

LEMMA Upto ==
    ASSUME NEW n \in Nat
    PROVE  IsFiniteSet(0..(n - 1)) /\ Cardinality(0..(n - 1)) = n
<1>1. 0 \in Int /\ n - 1 \in Int
  OBVIOUS
<1>2. /\ IsFiniteSet(0..(n - 1))
      /\ Cardinality(0..(n - 1)) = IF 0 > n - 1 THEN 0 ELSE (n - 1) - 0 + 1
  BY <1>1, FS_Interval
<1> QED BY <1>2

\* below[c] is what comes before c in a strict total order of S, and rank[c] how many.
Ranks(S, below, rank) ==
    /\ IsFiniteSet(S)
    /\ \A c \in S : below[c] \subseteq S /\ c \notin below[c] /\ rank[c] = Cardinality(below[c])
    /\ \A a, b, c \in S : a \in below[b] /\ b \in below[c] => a \in below[c]
    /\ \A a, b \in S : a # b => a \in below[b] \/ b \in below[a]

\* Whatever is strictly and totally ordered is numbered, without gaps, by how many come
\* before it.
LEMMA Ranking ==
    ASSUME NEW S, NEW below, NEW rank, Ranks(S, below, rank)
    PROVE  /\ \A c \in S : rank[c] \in 0..(Cardinality(S) - 1)
           /\ \A i \in 0..(Cardinality(S) - 1) : \E c \in S : rank[c] = i
           /\ \A a, b \in S : a \in below[b] => rank[a] < rank[b]
           /\ \A a, b \in S : rank[a] = rank[b] => a = b
<1> USE DEF Ranks
<1>1. PICK n \in Nat : n = Cardinality(S)
  BY FS_CardinalityType
<1>2. \A c \in S : IsFiniteSet(below[c]) /\ Cardinality(below[c]) \in Nat
  BY FS_Subset, FS_CardinalityType
<1>3. ASSUME NEW c \in S PROVE rank[c] \in 0..(n - 1)
  <2>1. below[c] \subseteq S /\ below[c] # S
    OBVIOUS
  <2>2. Cardinality(below[c]) <= n /\ Cardinality(below[c]) # n
    BY <1>1, <2>1, FS_Subset
  <2> QED BY <1>1, <1>2, <2>2
<1>4. ASSUME NEW a \in S, NEW b \in S, a \in below[b]
      PROVE  rank[a] < rank[b]
  <2>1. below[a] \subseteq below[b] /\ below[a] # below[b]
    BY <1>4
  <2>2. /\ Cardinality(below[a]) <= Cardinality(below[b])
        /\ Cardinality(below[a]) # Cardinality(below[b])
    BY <1>2, <2>1, FS_Subset
  <2> QED BY <1>2, <2>2
<1>5. ASSUME NEW a \in S, NEW b \in S, rank[a] = rank[b] PROVE a = b
  <2>1. rank[a] \in Int /\ rank[b] \in Int
    BY <1>1, <1>3
  <2>2. ~(rank[a] < rank[b]) /\ ~(rank[b] < rank[a])
    BY <1>5, <2>1
  <2> QED BY <1>4, <2>2
<1>6. PICK f : f = [c \in S |-> rank[c]]
  OBVIOUS
<1>7. f \in Injection(S, 0..(n - 1))
  BY <1>3, <1>5, <1>6 DEF Injection, IsInjective
<1>8. f \in Surjection(S, 0..(n - 1))
  BY <1>1, <1>7, Upto, FS_Injection
<1>9. \A i \in 0..(n - 1) : \E c \in S : rank[c] = i
  BY <1>6, <1>8 DEF Surjection
<1> QED BY <1>1, <1>3, <1>4, <1>5, <1>9

\* The first documents are as many as are asked for, if there are as many.
LEMMA FirstOfFacts ==
    ASSUME NEW ds, IsFiniteSet(ds), ds \subseteq Nat, NEW n \in Nat
    PROVE  /\ FirstOf(ds, n) \subseteq ds /\ IsFiniteSet(FirstOf(ds, n))
           /\ Cardinality(ds) >= n => Cardinality(FirstOf(ds, n)) >= n
<1>1. FirstOf(ds, n) \subseteq ds /\ IsFiniteSet(FirstOf(ds, n))
  BY FS_Subset DEF FirstOf
<1>2. SUFFICES ASSUME Cardinality(ds) >= n PROVE Cardinality(FirstOf(ds, n)) >= n
  BY <1>1
<1>3. PICK below : below = [c \in ds |-> {e \in ds : e < c}]
  OBVIOUS
<1>4. PICK rank : rank = [c \in ds |-> Cardinality(below[c])]
  OBVIOUS
<1>5. Ranks(ds, below, rank)
  BY <1>3, <1>4 DEF Ranks
<1>6. /\ \A c \in ds : rank[c] \in 0..(Cardinality(ds) - 1)
      /\ \A i \in 0..(Cardinality(ds) - 1) : \E c \in ds : rank[c] = i
  BY ONLY <1>5, Ranking, SMTT(30)
<1>7. PICK first : first = FirstOf(ds, n)
  OBVIOUS
<1>8. first = {c \in ds : rank[c] < n}
  BY <1>3, <1>4, <1>7 DEF FirstOf
<1>9. Cardinality(ds) \in Nat
  BY FS_CardinalityType
<1>10. PICK f : f = [c \in first |-> rank[c]]
  OBVIOUS
<1>11. \A c \in ds : rank[c] \in Nat
  BY <1>6, <1>9
<1>12. f \in Surjection(first, 0..(n - 1))
  <2>1. \A c \in first : rank[c] \in 0..(n - 1)
    BY <1>8, <1>11
  <2>2. f \in [first -> 0..(n - 1)]
    BY <1>10, <2>1
  <2>3. \A i \in 0..(n - 1) : i \in 0..(Cardinality(ds) - 1) /\ i < n
    BY <1>2, <1>9
  <2>4. \A i \in 0..(n - 1) : \E c \in first : f[c] = i
    BY <1>6, <1>8, <1>10, <2>3
  <2> QED BY <2>2, <2>4 DEF Surjection
<1>13. IsFiniteSet(first) /\ Cardinality(first) \in Nat
  BY <1>1, <1>7, FS_CardinalityType
<1>14. Cardinality(0..(n - 1)) <= Cardinality(first)
  BY <1>12, <1>13, FS_Surjection
<1>15. Cardinality(0..(n - 1)) = n
  BY Upto
<1> QED BY <1>7, <1>13, <1>14, <1>15

-------------------------------------------------------------------------------
(* Bounds and scores *)

LEMMA DocumentFacts ==
    /\ Documents = 1..Len(About) /\ Documents \subseteq Nat /\ IsFiniteSet(Documents)
    /\ VersionIds = Documents \X (1..MaxVersion) /\ IsFiniteSet(VersionIds)
<1>1. Documents = 1..Len(About) /\ Len(About) \in Nat /\ MaxVersion \in Nat
  BY RetrievalAssumption DEF Documents
<1>2. 1 \in Int /\ Len(About) \in Int /\ MaxVersion \in Int
  BY <1>1
<1>3. IsFiniteSet(1..Len(About)) /\ IsFiniteSet(1..MaxVersion)
  BY <1>2, FS_Interval
<1>4. IsFiniteSet(Documents \X (1..MaxVersion))
  BY <1>1, <1>3, FS_Product
<1> QED BY <1>1, <1>3, <1>4 DEF VersionIds

LEMMA WantedType ==
    ASSUME NEW request \in RetrievalRequests
    PROVE  /\ Wanted(request) \in Nat /\ Wanted(request) >= 1
           /\ Overfetch * Wanted(request) \in Nat
           /\ Overfetch * Wanted(request) >= Wanted(request)
           /\ Headroom * Overfetch * Wanted(request) \in Nat
<1>1. /\ DefaultCandidates \in Nat \ {0} /\ MostCandidates \in Nat \ {0}
      /\ Overfetch \in Nat \ {0} /\ Headroom \in Nat \ {0} /\ request.max \in Int
  BY RetrievalAssumption
<1>2. Wanted(request) \in Nat /\ Wanted(request) >= 1
  BY <1>1 DEF Wanted, AtMost
<1>3. PICK w \in Nat : w = Wanted(request) /\ w >= 1
  BY <1>2
<1>4. Overfetch * w \in Nat /\ Overfetch * w >= w /\ Headroom * Overfetch * w \in Nat
  BY <1>1
<1> QED BY <1>3, <1>4

\* The score without vectors is at most 80 of a hundred.
LEMMA StructuredScoreType ==
    ASSUME NEW d \in Documents, NEW wish, NEW signals
    PROVE  StructuredScore(d, wish, signals) \in 0..80
<1>1. IsFiniteSet(About[d].references)
  BY RetrievalAssumption DEF Documents
<1>2. Cardinality(RelevantCodes(signals) \cap About[d].references) \in Nat
  <2>1. IsFiniteSet(RelevantCodes(signals) \cap About[d].references)
    BY <1>1, FS_Subset
  <2> QED BY <2>1, FS_CardinalityType
<1>3. PICK n \in Nat : n = Cardinality(RelevantCodes(signals) \cap About[d].references)
  BY <1>2
<1>4. AtMost(10, 5 * n) \in Nat
  BY DEF AtMost
<1>5. PICK m \in Nat : m = AtMost(10, 5 * n)
  BY <1>4
<1> QED BY <1>3, <1>5 DEF StructuredScore, Points, AtMost

\* Scores have a largest one.
LEMMA LargestScore ==
    ASSUME NEW S, S \subseteq 0..100, S # {}
    PROVE  \E s \in S : \A t \in S : t <= s
<1>1. IsWellFoundedOn(OpToRel(<, Nat), Nat)
  BY NatLessThanWellFounded
<1> DEFINE T == {100 - s : s \in S}
<1>2. T \subseteq Nat /\ T # {}
  <2>1. \A s \in S : 100 - s \in Nat
    OBVIOUS
  <2> QED BY <2>1
<1> HIDE DEF T
<1>3. PICK n \in T : \A m \in T : <<m, n>> \notin OpToRel(<, Nat)
  BY <1>1, <1>2, WFMin, Zenon
<1>4. n \in Nat /\ \A m \in T : m \in Nat /\ ~(m < n)
  BY <1>2, <1>3 DEF OpToRel
<1>5. PICK s \in S : n = 100 - s
  BY DEF T
<1>6. \A t \in S : 100 - t \in T
  BY DEF T
<1> QED BY <1>4, <1>5, <1>6

LEMMA BestVectorType ==
    ASSUME NEW matches, matches \subseteq VectorMatch, NEW id, \E m \in matches : m.of = id
    PROVE  BestVector(matches, id) \in 0..100
<1> DEFINE scores == {m.score : m \in {n \in matches : n.of = id}}
<1>1. scores \subseteq 0..100 /\ scores # {}
  BY DEF VectorMatch
<1> HIDE DEF scores
<1>2. \E s \in scores : \A t \in scores : t <= s
  BY <1>1, LargestScore
<1>3. (CHOOSE s \in scores : \A t \in scores : t <= s) \in scores
  BY <1>2
<1> QED BY <1>1, <1>3 DEF BestVector, scores

-------------------------------------------------------------------------------
(* The candidates and their order *)

\* A ranked version keeps its name, and without a vector it is a structured one.
LEMMA RankedType ==
    ASSUME NEW id \in VersionIds, NEW inRows \in BOOLEAN, NEW matches, matches \subseteq VectorMatch,
           NEW wish, NEW signals, inRows \/ \E m \in matches : m.of = id
    PROVE  /\ Ranked(id, inRows, matches, wish, signals) \in Candidate
           /\ Ranked(id, inRows, matches, wish, signals).of = id
           /\ matches = {} => Ranked(id, inRows, matches, wish, signals).method = "STRUCTURED"
<1>1. id[1] \in Documents
  BY DocumentFacts
<1>2. PICK structured \in 0..80 : structured = StructuredScore(id[1], wish, signals)
  BY <1>1, StructuredScoreType
<1>3. PICK best : best = BestVector(matches, id)
  OBVIOUS
<1>4. (\E m \in matches : m.of = id) => best \in 0..100
  BY <1>3, BestVectorType
<1>5. PICK c : c = Ranked(id, inRows, matches, wish, signals)
  OBVIOUS
<1>6. CASE inRows /\ \E m \in matches : m.of = id
  <2>1. c = [of |-> id, method |-> "HYBRID", score |-> 60 * structured + 40 * best]
    BY <1>2, <1>3, <1>5, <1>6 DEF Ranked
  <2>2. best \in 0..100 /\ matches # {}
    BY <1>4, <1>6
  <2>3. PICK total \in 0..10000 : total = 60 * structured + 40 * best
    BY <2>2
  <2>4. c = [of |-> id, method |-> "HYBRID", score |-> total]
    BY ONLY <2>1, <2>3
  <2>5. c \in Candidate
    BY ONLY <2>4, id \in VersionIds, total \in 0..10000 DEF Candidate, Scores, Methods
  <2>6. c.of = id
    BY ONLY <2>4
  <2> QED BY ONLY <1>5, <2>2, <2>5, <2>6
<1>7. CASE inRows /\ ~ \E m \in matches : m.of = id
  <2>1. c = [of |-> id, method |-> "STRUCTURED", score |-> 100 * structured]
    BY <1>2, <1>5, <1>7 DEF Ranked
  <2>2. PICK total \in 0..10000 : total = 100 * structured
    OBVIOUS
  <2>3. c = [of |-> id, method |-> "STRUCTURED", score |-> total]
    BY ONLY <2>1, <2>2
  <2>4. c \in Candidate
    BY ONLY <2>3, id \in VersionIds, total \in 0..10000 DEF Candidate, Scores, Methods
  <2>5. c.of = id /\ c.method = "STRUCTURED"
    BY ONLY <2>3
  <2> QED BY ONLY <1>5, <2>4, <2>5
<1>8. CASE ~inRows
  <2>1. c = [of |-> id, method |-> "VECTOR", score |-> 100 * best]
    BY <1>3, <1>5, <1>8 DEF Ranked
  <2>2. best \in 0..100 /\ matches # {}
    BY <1>4, <1>8
  <2>3. PICK total \in 0..10000 : total = 100 * best
    BY <2>2
  <2>4. c = [of |-> id, method |-> "VECTOR", score |-> total]
    BY ONLY <2>1, <2>3
  <2>5. c \in Candidate
    BY ONLY <2>4, id \in VersionIds, total \in 0..10000 DEF Candidate, Scores, Methods
  <2>6. c.of = id
    BY ONLY <2>4
  <2> QED BY ONLY <1>5, <2>2, <2>5, <2>6
<1> QED BY <1>6, <1>7, <1>8

\* Candidates are finitely many, one for each version, and one for each row.
OnePerVersion(candidates) ==
    /\ candidates \subseteq Candidate /\ IsFiniteSet(candidates)
    /\ \A a, b \in candidates : a.of = b.of => a = b

LEMMA CandidatesFacts ==
    ASSUME NEW local, NEW discovered, local.rows \subseteq VersionIds,
           local.matches \subseteq VectorMatch, discovered \subseteq VersionIds
    PROVE  /\ OnePerVersion(Candidates(local, discovered))
           /\ \A c \in Candidates(local, discovered) : c.of \in local.rows \cup discovered
           /\ \A id \in local.rows : \E c \in Candidates(local, discovered) : c.of = id
           /\ Cardinality(local.rows) <= Cardinality(Candidates(local, discovered))
           /\ local.matches = {} =>
                \A c \in Candidates(local, discovered) : c.method = "STRUCTURED"
<1> DEFINE matches == {m \in local.matches :
                         m.of \in local.rows \cup discovered /\ m.of[1] = m.document}
           ids == local.rows \cup {m.of : m \in matches}
           rank(id) == Ranked(id, id \in local.rows, matches, local.request, local.signals)
           candidates == Candidates(local, discovered)
<1>1. matches \subseteq VectorMatch /\ \A m \in matches : m.of \in local.rows \cup discovered
  OBVIOUS
<1>2. ids \subseteq VersionIds /\ ids \subseteq local.rows \cup discovered
  BY <1>1
<1>3. candidates = {rank(id) : id \in ids}
  BY DEF Candidates
<1>4. \A id \in ids : id \in local.rows \/ \E m \in matches : m.of = id
  OBVIOUS
<1>5. local.matches = {} => matches = {}
  OBVIOUS
<1> HIDE DEF matches, ids
<1>6. ASSUME NEW id \in ids
      PROVE  /\ rank(id) \in Candidate /\ rank(id).of = id
             /\ matches = {} => rank(id).method = "STRUCTURED"
  <2>1. id \in VersionIds /\ (id \in local.rows) \in BOOLEAN
    BY <1>2
  <2>2. PICK known \in BOOLEAN : known = (id \in local.rows)
    BY <2>1
  <2>3. known \/ \E m \in matches : m.of = id
    BY <1>4, <2>2
  <2>4. PICK c : c = Ranked(id, known, matches, local.request, local.signals)
    OBVIOUS
  <2>5. c \in Candidate /\ c.of = id /\ (matches = {} => c.method = "STRUCTURED")
    BY <1>1, <2>1, <2>3, <2>4, RankedType
  <2>6. rank(id) = c
    BY <2>2, <2>4, Zenon
  <2> QED BY <2>5, <2>6
<1> HIDE DEF rank, candidates
<1>7. IsFiniteSet(candidates)
  <2>1. IsFiniteSet(ids)
    BY <1>2, DocumentFacts, FS_Subset
  <2>2. PICK f : f = [id \in ids |-> rank(id)]
    OBVIOUS
  <2>3. f \in Surjection(ids, candidates)
    BY <1>3, <2>2 DEF Surjection
  <2> QED BY <2>1, <2>3, FS_Surjection
<1>8. \A a, b \in candidates : a.of = b.of => a = b
  BY <1>3, <1>6
<1>9. candidates \subseteq Candidate
  BY <1>3, <1>6
<1>10. \A c \in candidates : c.of \in local.rows \cup discovered
  BY <1>2, <1>3, <1>6
<1>11. \A id \in local.rows : \E c \in candidates : c.of = id
  <2>1. local.rows \subseteq ids
    BY DEF ids
  <2> QED BY <1>3, <1>6, <2>1
<1>12. local.matches = {} => \A c \in candidates : c.method = "STRUCTURED"
  BY <1>3, <1>5, <1>6
<1>13. Cardinality(local.rows) <= Cardinality(candidates)
  <2>1. IsFiniteSet(local.rows) /\ Cardinality(local.rows) \in Nat
    BY DocumentFacts, FS_Subset, FS_CardinalityType
  <2>2. PICK listed : listed = {c \in candidates : c.of \in local.rows}
    OBVIOUS
  <2>3. /\ IsFiniteSet(listed) /\ Cardinality(listed) \in Nat /\ Cardinality(candidates) \in Nat
        /\ Cardinality(listed) <= Cardinality(candidates)
    BY <1>7, <2>2, FS_Subset, FS_CardinalityType
  <2>4. PICK f : f = [c \in listed |-> c.of]
    OBVIOUS
  <2>5. f \in Surjection(listed, local.rows)
    BY <1>11, <2>2, <2>4 DEF Surjection
  <2>6. Cardinality(local.rows) <= Cardinality(listed)
    BY <2>3, <2>5, FS_Surjection
  <2> QED BY <2>1, <2>3, <2>6
<1> QED BY <1>7, <1>8, <1>9, <1>10, <1>11, <1>12, <1>13 DEF candidates, OnePerVersion

\* A candidate is a version, a number and a method.
LEMMA CandidateParts ==
    ASSUME NEW c \in Candidate
    PROVE  c.score \in Int /\ c.of[1] \in Int /\ c.of[2] \in Int /\ c.of = <<c.of[1], c.of[2]>>
<1>1. c.of \in VersionIds /\ c.score \in Scores
  BY DEF Candidate
<1>2. PICK id : id \in VersionIds /\ id = c.of
  BY <1>1
<1>3. PICK points : points \in Scores /\ points = c.score
  BY <1>1
<1>4. points \in Int
  BY <1>3 DEF Scores
<1>5. id[1] \in Nat /\ id[2] \in 1..MaxVersion /\ id = <<id[1], id[2]>>
  BY <1>2, DocumentFacts
<1>6. id[1] \in Int /\ id[2] \in Int
  BY <1>5, RetrievalAssumption
<1>7. c.score \in Int
  BY <1>3, <1>4, SMT
<1>8. c.of[1] \in Int /\ c.of[2] \in Int /\ c.of = <<c.of[1], c.of[2]>>
  BY <1>2, <1>5, <1>6
<1> QED BY <1>7, <1>8

\* What is said of a list that is cut off after w of the candidates, in their order.
Listing(candidates, w) ==
    [i \in 1..AtMost(Cardinality(candidates), w) |->
        CHOOSE c \in candidates : Place(c, candidates) = i]

\* Distinct candidates in a good order, and all of them if they are no more than wanted.
IsListing(found, candidates, w, total) ==
    /\ total \in Nat
    /\ found \in Seq(Candidate) /\ Len(found) = AtMost(total, w)
    /\ \A i \in DOMAIN found : found[i] \in candidates
    /\ \A i, j \in DOMAIN found : i < j =>
         found[i].of # found[j].of /\ found[i].score >= found[j].score
    /\ total <= w => \A c \in candidates : \E i \in DOMAIN found : found[i] = c

LEMMA ListingFacts ==
    ASSUME NEW candidates, OnePerVersion(candidates), NEW w \in Nat
    PROVE  IsListing(Listing(candidates, w), candidates, w, Cardinality(candidates))
<1>0. PICK found : found = Listing(candidates, w)
  OBVIOUS
<1>1. /\ candidates \subseteq Candidate /\ IsFiniteSet(candidates)
      /\ \A a, b \in candidates : a.of = b.of => a = b
  BY DEF OnePerVersion
<1>2. PICK n \in Nat : n = Cardinality(candidates)
  BY <1>1, FS_CardinalityType
<1>3. PICK below : below = [c \in candidates |-> {b \in candidates : Before(b, c)}]
  OBVIOUS
<1>4. PICK rank : rank = [c \in candidates |-> Cardinality(below[c])]
  OBVIOUS
<1>5. \A c \in candidates : /\ c.score \in Int /\ c.of[1] \in Int /\ c.of[2] \in Int
                            /\ c.of = <<c.of[1], c.of[2]>>
  BY <1>1, CandidateParts
<1>6. /\ \A c \in candidates : ~Before(c, c)
      /\ \A a, b, c \in candidates : Before(a, b) /\ Before(b, c) => Before(a, c)
      /\ \A a, b \in candidates : a # b => Before(a, b) \/ Before(b, a)
  <2>1. \A c \in candidates : ~Before(c, c)
    BY <1>5 DEF Before
  <2>2. \A a, b, c \in candidates : Before(a, b) /\ Before(b, c) => Before(a, c)
    BY <1>5 DEF Before
  <2>3. ASSUME NEW a \in candidates, NEW b \in candidates, a # b
        PROVE  Before(a, b) \/ Before(b, a)
    <3>1. a.of[1] # b.of[1] \/ a.of[2] # b.of[2]
      BY <1>1, <1>5, <2>3
    <3> QED BY <1>5, <3>1 DEF Before
  <2> QED BY <2>1, <2>2, <2>3
<1>7. Ranks(candidates, below, rank)
  BY <1>1, <1>3, <1>4, <1>6 DEF Ranks
<1>8. /\ \A c \in candidates : rank[c] \in 0..(n - 1)
      /\ \A i \in 0..(n - 1) : \E c \in candidates : rank[c] = i
      /\ \A a, b \in candidates : a \in below[b] => rank[a] < rank[b]
      /\ \A a, b \in candidates : rank[a] = rank[b] => a = b
  BY ONLY <1>2, <1>7, Ranking, SMTT(30)
<1>9. \A c \in candidates : Place(c, candidates) = rank[c] + 1
  BY <1>3, <1>4 DEF Place
<1>10. PICK m \in Nat : m = AtMost(n, w) /\ m <= n /\ (n <= w => m = n)
  BY DEF AtMost
<1>11. /\ found = [i \in 1..m |-> CHOOSE c \in candidates : Place(c, candidates) = i]
  BY <1>0, <1>2, <1>10 DEF Listing
<1>12. \A i \in 1..m : found[i] \in candidates /\ rank[found[i]] = i - 1
  <2> TAKE i \in 1..m
  <2>1. \E c \in candidates : Place(c, candidates) = i
    <3>1. i - 1 \in 0..(n - 1)
      BY <1>10
    <3>2. PICK c \in candidates : rank[c] = i - 1
      BY <1>8, <3>1
    <3> QED BY <1>9, <3>2
  <2>2. found[i] \in candidates /\ Place(found[i], candidates) = i
    BY <1>11, <2>1
  <2>3. rank[found[i]] \in Int
    BY <1>8, <2>2
  <2> QED BY <1>9, <2>2, <2>3
<1>13. DOMAIN found = 1..m /\ found \in Seq(Candidate) /\ Len(found) = m
  <2>1. found \in [1..m -> Candidate]
    BY <1>1, <1>11, <1>12
  <2> QED BY <2>1
<1>14. ASSUME NEW i \in 1..m, NEW j \in 1..m, i < j
       PROVE  found[i].of # found[j].of /\ found[i].score >= found[j].score
  <2>1. /\ found[i] \in candidates /\ found[j] \in candidates
        /\ rank[found[i]] < rank[found[j]]
    BY <1>12, <1>14
  <2>2. found[i] # found[j] /\ ~(found[j] \in below[found[i]])
    BY <1>8, <2>1
  <2>3. ~Before(found[j], found[i])
    BY <1>3, <2>1, <2>2
  <2> QED BY <1>1, <1>5, <2>1, <2>2, <2>3 DEF Before
<1>15. ASSUME n <= w, NEW c \in candidates
       PROVE  \E i \in 1..m : found[i] = c
  <2>1. PICK i \in 1..m : i = rank[c] + 1
    BY <1>8, <1>10, <1>15
  <2>2. found[i] \in candidates /\ rank[found[i]] = rank[c]
    BY <1>8, <1>12, <2>1
  <2> QED BY <1>8, <2>2
<1>16. IsListing(found, candidates, w, n)
  BY <1>10, <1>12, <1>13, <1>14, <1>15 DEF IsListing
<1> QED BY ONLY <1>0, <1>2, <1>16

-------------------------------------------------------------------------------
(* What the structured search reads *)

\* The version of a document on offer that fits the filters is among the rows, unless there
\* are as many rows as are fetched or the documents before it are too many.
LEMMA StructuredRowsFacts ==
    ASSUME NEW request \in RetrievalRequests, NEW signals, corpus \in [Documents -> CorpusRow]
    PROVE  /\ StructuredRows(request, signals) \subseteq VersionIds
           /\ \A id \in StructuredRows(request, signals) :
                Offered(id[1]) /\ id[2] = corpus[id[1]].version
           /\ \A d \in Documents :
                /\ Offered(d) /\ Matches(d, request, signals)
                /\ request.classification \in {Absent, About[d].classification}
                /\ Cardinality({e \in 1..d : corpus[e].active})
                     <= Headroom * Overfetch * Wanted(request)
                => \/ <<d, corpus[d].version>> \in StructuredRows(request, signals)
                   \/ Cardinality(StructuredRows(request, signals)) >= Overfetch * Wanted(request)
<1>1. PICK size \in Nat, reach \in Nat :
         size = Overfetch * Wanted(request) /\ reach = Headroom * Overfetch * Wanted(request)
  BY WantedType
<1>2. PICK active : active = {d \in Documents :
         corpus[d].active /\ request.classification \in {Absent, About[d].classification}}
  OBVIOUS
<1>3. PICK fetched : fetched = FirstOf(active, reach)
  OBVIOUS
<1>4. PICK fitting : fitting = {d \in fetched : Offered(d) /\ Matches(d, request, signals)}
  OBVIOUS
<1>5. PICK first : first = FirstOf(fitting, size)
  OBVIOUS
<1>6. PICK rows : rows = StructuredRows(request, signals)
  OBVIOUS
<1>7. rows = {<<d, corpus[d].version>> : d \in first}
  BY <1>1, <1>2, <1>3, <1>4, <1>5, <1>6 DEF StructuredRows, Fetched
<1>8. /\ active \subseteq Documents /\ active \subseteq Nat /\ IsFiniteSet(active)
      /\ fetched \subseteq active /\ IsFiniteSet(fetched)
  <2>1. active \subseteq Documents /\ active \subseteq Nat /\ IsFiniteSet(active)
    BY <1>2, DocumentFacts, FS_Subset
  <2>2. fetched \subseteq active /\ IsFiniteSet(fetched)
    BY <1>3, <2>1, FirstOfFacts
  <2> QED BY <2>1, <2>2
<1>9. /\ fitting \subseteq fetched /\ IsFiniteSet(fitting) /\ Cardinality(fitting) \in Nat
  BY <1>4, <1>8, FS_Subset, FS_CardinalityType
<1>10. /\ first \subseteq fitting /\ IsFiniteSet(first) /\ Cardinality(first) \in Nat
       /\ Cardinality(fitting) >= size => Cardinality(first) >= size
  <2>1. fitting \subseteq Nat
    BY <1>8, <1>9
  <2> QED BY <1>5, <1>9, <2>1, FirstOfFacts, FS_CardinalityType
<1>11. \A d \in first : /\ d \in Documents /\ Offered(d) /\ corpus[d].version \in 1..MaxVersion
                        /\ <<d, corpus[d].version>> \in VersionIds
  <2> TAKE d \in first
  <2>1. d \in Documents /\ Offered(d)
    BY <1>4, <1>8, <1>10
  <2>2. corpus[d].version \in 1..MaxVersion
    BY <2>1 DEF CorpusRow
  <2> QED BY <2>1, <2>2 DEF VersionIds
<1>12. rows \subseteq VersionIds /\ \A id \in rows : Offered(id[1]) /\ id[2] = corpus[id[1]].version
  BY <1>7, <1>11
<1>13. ASSUME NEW d \in Documents, Offered(d), Matches(d, request, signals),
              request.classification \in {Absent, About[d].classification},
              Cardinality({e \in 1..d : corpus[e].active}) <= reach
       PROVE  <<d, corpus[d].version>> \in rows \/ Cardinality(rows) >= size
  <2>1. d \in active /\ d \in Nat /\ d \in 1..d
    BY <1>2, <1>13, DocumentFacts DEF Offered
  <2>2. d \in fetched
    <3>1. PICK upto : upto = {e \in 1..d : corpus[e].active}
      OBVIOUS
    <3>2. PICK before : before = {e \in active : e < d}
      OBVIOUS
    <3>3. IsFiniteSet(upto) /\ Cardinality(upto) \in Nat
      <4>1. 1 \in Int /\ d \in Int
        BY <2>1
      <4>2. IsFiniteSet(1..d)
        BY <4>1, FS_Interval
      <4> QED BY <3>1, <4>2, FS_Subset, FS_CardinalityType
    <3>4. before \subseteq upto /\ d \in upto /\ d \notin before
      BY <1>2, <1>13, <2>1, <3>1, <3>2, DocumentFacts DEF Offered
    <3>5. /\ IsFiniteSet(before) /\ Cardinality(before) <= Cardinality(upto)
          /\ Cardinality(before) # Cardinality(upto)
      BY <3>3, <3>4, FS_Subset
    <3>6. Cardinality(before) \in Nat
      BY <3>5, FS_CardinalityType
    <3>7. Cardinality(before) < reach
      BY <1>13, <3>1, <3>3, <3>5, <3>6
    <3> QED BY <1>3, <2>1, <3>2, <3>7 DEF FirstOf
  <2>3. d \in fitting
    BY <1>4, <1>13, <2>2
  <2>4. CASE Cardinality(fitting) >= size
    <3>1. PICK f : f = [id \in rows |-> id[1]]
      OBVIOUS
    <3>2. f \in Surjection(rows, first)
      <4>1. \A id \in rows : id[1] \in first
        BY <1>7
      <4>2. \A e \in first : \E id \in rows : f[id] = e
        <5> TAKE e \in first
        <5>1. PICK id \in rows : id = <<e, corpus[e].version>>
          BY <1>7
        <5> QED BY <3>1, <5>1
      <4> QED BY <3>1, <4>1, <4>2 DEF Surjection
    <3>3. IsFiniteSet(rows)
      BY <1>12, DocumentFacts, FS_Subset
    <3>4. Cardinality(first) <= Cardinality(rows) /\ Cardinality(rows) \in Nat
      BY <3>2, <3>3, FS_Surjection, FS_CardinalityType
    <3> QED BY <1>10, <2>4, <3>4
  <2>5. CASE Cardinality(fitting) < size
    <3>1. PICK before : before = {e \in fitting : e < d}
      OBVIOUS
    <3>2. Cardinality(before) <= Cardinality(fitting) /\ Cardinality(before) \in Nat
      BY <1>9, <3>1, FS_Subset, FS_CardinalityType
    <3>3. Cardinality(before) < size
      BY <1>9, <2>5, <3>2
    <3>4. d \in first
      BY <1>5, <2>3, <3>1, <3>3 DEF FirstOf
    <3> QED BY <1>7, <3>4
  <2> QED BY <1>9, <2>4, <2>5
<1> QED BY <1>1, <1>6, <1>12, <1>13

-------------------------------------------------------------------------------
(* The invariant of a retrieval *)

\* Since the request began documents were only published and versions only replaced.
CorpusGrew(d) ==
    /\ began[d].active => corpus[d].active
    /\ began[d].version <= corpus[d].version
    /\ corpus[d].version = began[d].version /\ corpus[d].current => began[d].current

\* What the request remembers at each stage.
RetrievalMemory ==
    /\ DOMAIN retrieval = {"request", "signals", "rows", "available", "matches"}
    /\ retrievalPc # "idle" => retrieval.request \in RetrievalRequests
    /\ retrievalPc \in {"idle", "structured"} => retrieval.rows = {}
    /\ ~retrieval.available => retrieval.matches = {}

\* What fits all the filters.
Sought(d) ==
    /\ Matches(d, retrieval.request, retrieval.signals)
    /\ retrieval.request.classification \in {Absent, About[d].classification}

\* Between the structured search and the answer, no document that stayed as it was is
\* missing without a reason.
RowsAreAll ==
    retrievalPc \in {"vectors", "resolve"} =>
        \A d \in Documents : SteadyAndNear(d, retrieval.request) /\ Sought(d) =>
            \/ <<d, corpus[d].version>> \in retrieval.rows
            \/ Cardinality(retrieval.rows) >= Overfetch * Wanted(retrieval.request)

\* A version that is retired leaves room for the next one.
RoomForNext == \A d \in Documents : ~corpus[d].current => corpus[d].version < MaxVersion

RetrievalInv ==
    /\ RetrievalTypeOK
    /\ RoomForNext
    /\ began \in [Documents -> CorpusRow]
    /\ RetrievalMemory
    /\ \A d \in Documents : CorpusGrew(d)
    /\ \A id \in retrieval.rows : OfferedMeanwhile(id)
    /\ RowsAreAll
    /\ AnswerIsGrounded

LEMMA RetrievalInvInit == RetrievalInit => RetrievalInv
<1> SUFFICES ASSUME RetrievalInit PROVE RetrievalInv
  OBVIOUS
<1>1. corpus \in [Documents -> CorpusRow]
  <2>1. 1 \in 1..MaxVersion
    BY RetrievalAssumption
  <2>2. {[active |-> TRUE, version |-> 1, current |-> TRUE],
         [active |-> FALSE, version |-> 1, current |-> TRUE]} \subseteq CorpusRow
    BY <2>1 DEF CorpusRow
  <2> QED BY <2>2 DEF RetrievalInit
<1>2. vectors \subseteq VectorMatch
  BY RetrievalAssumption DEF RetrievalInit
<1>3. RetrievalTypeOK
  BY <1>1, <1>2 DEF RetrievalInit, RetrievalTypeOK, NoRetrieval, NoAnswer, RetrievalStatus
<1>4. RetrievalMemory /\ \A id \in retrieval.rows : OfferedMeanwhile(id)
  BY DEF RetrievalInit, RetrievalMemory, NoRetrieval
<1>5. \A d \in Documents : CorpusGrew(d)
  BY <1>1 DEF RetrievalInit, CorpusGrew, CorpusRow
<1>6. RowsAreAll /\ AnswerIsGrounded /\ RoomForNext
  BY DEF RetrievalInit, RowsAreAll, AnswerIsGrounded, RoomForNext
<1> QED BY <1>1, <1>3, <1>4, <1>5, <1>6 DEF RetrievalInit, RetrievalInv

LEMMA BeginRetrievalKeeps == RetrievalInv /\ BeginRetrieval => RetrievalInv'
<1> SUFFICES ASSUME RetrievalInv, BeginRetrieval PROVE RetrievalInv'
  OBVIOUS
<1>1. PICK request \in RetrievalRequests, facts \in ServerFacts \cup {<<>>} :
        /\ retrievalPc = "idle" /\ retrievalPc' = "structured"
        /\ retrieval' = [retrieval EXCEPT !.request = request,
                                          !.signals = Aligned(facts, request.hints)]
        /\ began' = corpus
        /\ UNCHANGED <<corpus, vectors, answer>>
  BY DEF BeginRetrieval, RetrievalGo
<1>2. /\ retrieval'.request = request /\ retrieval'.rows = retrieval.rows
      /\ retrieval'.available = retrieval.available /\ retrieval'.matches = retrieval.matches
      /\ DOMAIN retrieval' = DOMAIN retrieval
  BY <1>1 DEF RetrievalInv, RetrievalMemory
<1>3. RetrievalTypeOK' /\ RetrievalMemory'
  BY <1>1, <1>2 DEF RetrievalInv, RetrievalTypeOK, RetrievalMemory
<1>4. retrieval'.rows = {}
  BY <1>1, <1>2 DEF RetrievalInv, RetrievalMemory
<1>5. corpus' \in [Documents -> CorpusRow] /\ began' = corpus'
  BY <1>1 DEF RetrievalInv, RetrievalTypeOK
<1>6. \A d \in Documents : CorpusGrew(d)'
  BY <1>5 DEF CorpusGrew, CorpusRow
<1>7. RowsAreAll' /\ AnswerIsGrounded' /\ RoomForNext'
  BY <1>1 DEF RowsAreAll, AnswerIsGrounded, RoomForNext, RetrievalInv
<1> QED BY <1>3, <1>4, <1>5, <1>6, <1>7 DEF RetrievalInv

\* What is on offer now was on offer meanwhile.
LEMMA OnOfferIsMeanwhile ==
    ASSUME corpus \in [Documents -> CorpusRow], began \in [Documents -> CorpusRow],
           \A d \in Documents : CorpusGrew(d),
           NEW id \in VersionIds, Offered(id[1]), id[2] = corpus[id[1]].version
    PROVE  OfferedMeanwhile(id)
<1>1. PICK d \in Documents : d = id[1]
  BY DEF VersionIds
<1>2. /\ corpus[d].active /\ corpus[d].current /\ id[2] = corpus[d].version
      /\ corpus[d].version \in Nat /\ began[d].version \in Nat
  BY <1>1 DEF Offered, CorpusRow
<1>3. CorpusGrew(d)
  OBVIOUS
<1> QED BY <1>1, <1>2, <1>3 DEF CorpusGrew, OfferedMeanwhile

LEMMA FindStructuredKeeps == RetrievalInv /\ FindStructured => RetrievalInv'
<1> SUFFICES ASSUME RetrievalInv, FindStructured PROVE RetrievalInv'
  OBVIOUS
<1>1. PICK rows : rows = StructuredRows(retrieval.request, retrieval.signals)
  OBVIOUS
<1>2. /\ retrievalPc = "structured" /\ retrievalPc' \in {"vectors", "resolve"}
      /\ retrieval' = [retrieval EXCEPT !.rows = rows]
      /\ UNCHANGED <<corpus, vectors, began, answer>>
  BY <1>1 DEF FindStructured, RetrievalGo
<1>3. /\ retrieval'.request = retrieval.request /\ retrieval'.signals = retrieval.signals
      /\ retrieval'.rows = rows /\ retrieval'.available = retrieval.available
      /\ retrieval'.matches = retrieval.matches /\ DOMAIN retrieval' = DOMAIN retrieval
  BY <1>2 DEF RetrievalInv, RetrievalMemory
<1>4. retrieval.request \in RetrievalRequests /\ corpus \in [Documents -> CorpusRow]
  BY <1>2 DEF RetrievalInv, RetrievalTypeOK, RetrievalMemory
<1>5. /\ rows \subseteq VersionIds
      /\ \A id \in rows : Offered(id[1]) /\ id[2] = corpus[id[1]].version
      /\ \A d \in Documents : SteadyAndNear(d, retrieval.request) /\ Sought(d) =>
            \/ <<d, corpus[d].version>> \in rows
            \/ Cardinality(rows) >= Overfetch * Wanted(retrieval.request)
  BY <1>1, <1>4, StructuredRowsFacts DEF SteadyAndNear, Sought
<1>6. RetrievalTypeOK' /\ RetrievalMemory'
  BY <1>2, <1>3, <1>4, <1>5 DEF RetrievalInv, RetrievalTypeOK, RetrievalMemory
<1>7. \A id \in rows : OfferedMeanwhile(id)'
  BY <1>2, <1>4, <1>5, OnOfferIsMeanwhile DEF OfferedMeanwhile, RetrievalInv
<1>8. RowsAreAll'
  BY <1>2, <1>3, <1>5 DEF RowsAreAll, SteadyAndNear, Offered, Sought
<1>9. AnswerIsGrounded' /\ RoomForNext'
  BY <1>2 DEF AnswerIsGrounded, RoomForNext, RetrievalInv
<1>10. \A d \in Documents : CorpusGrew(d)'
  BY <1>2 DEF RetrievalInv, CorpusGrew
<1> QED BY <1>2, <1>3, <1>6, <1>7, <1>8, <1>9, <1>10 DEF RetrievalInv

LEMMA FailStructuredKeeps == RetrievalInv /\ FailStructured => RetrievalInv'
<1> SUFFICES ASSUME RetrievalInv, FailStructured PROVE RetrievalInv'
  OBVIOUS
<1>1. /\ retrievalPc = "structured" /\ retrievalPc' = "done"
      /\ answer' = [status |-> "RETRIEVAL_FAILURE", candidates |-> <<>>, total |-> 0]
      /\ UNCHANGED <<corpus, vectors, retrieval, began>>
  BY DEF FailStructured, RetrievalGo, NoAnswer
<1>2. RetrievalTypeOK' /\ RetrievalMemory'
  BY <1>1 DEF RetrievalInv, RetrievalTypeOK, RetrievalMemory, RetrievalStatus
<1>3. /\ RoomForNext' /\ RowsAreAll'
      /\ \A d \in Documents : CorpusGrew(d)'
      /\ \A id \in retrieval.rows : OfferedMeanwhile(id)'
  BY <1>1 DEF RetrievalInv, RoomForNext, RowsAreAll, CorpusGrew, OfferedMeanwhile
<1>4. Wanted(retrieval.request) \in Nat
  BY <1>1, WantedType DEF RetrievalInv, RetrievalMemory
<1>5. AnswerIsGrounded'
  BY <1>1, <1>4 DEF AnswerIsGrounded
<1> QED BY <1>1, <1>2, <1>3, <1>5 DEF RetrievalInv

\* The two ends of the search by vectors.
LEMMA VectorsKeep == RetrievalInv /\ (SearchVectors \/ VectorsUnavailable) => RetrievalInv'
<1> SUFFICES ASSUME RetrievalInv, SearchVectors \/ VectorsUnavailable PROVE RetrievalInv'
  OBVIOUS
<1>1. /\ retrievalPc = "vectors" /\ retrievalPc' = "resolve"
      /\ UNCHANGED <<corpus, vectors, began, answer>>
  BY DEF SearchVectors, VectorsUnavailable, RetrievalGo
<1>2. /\ retrieval'.request = retrieval.request /\ retrieval'.signals = retrieval.signals
      /\ retrieval'.rows = retrieval.rows /\ DOMAIN retrieval' = DOMAIN retrieval
      /\ \/ retrieval'.available = TRUE /\ retrieval'.matches \subseteq vectors
         \/ /\ retrieval'.available = retrieval.available
            /\ retrieval'.matches = retrieval.matches
  <2>1. CASE SearchVectors
    <3>1. PICK best : /\ best \subseteq vectors
                      /\ retrieval' = [retrieval EXCEPT !.available = TRUE, !.matches = best]
      BY <2>1 DEF SearchVectors
    <3> QED BY <3>1 DEF RetrievalInv, RetrievalMemory
  <2>2. CASE VectorsUnavailable
    BY <2>2 DEF VectorsUnavailable
  <2> QED BY <2>1, <2>2
<1>3. RetrievalTypeOK' /\ RetrievalMemory'
  BY <1>1, <1>2 DEF RetrievalInv, RetrievalTypeOK, RetrievalMemory
<1>4. RowsAreAll'
  BY <1>1, <1>2 DEF RetrievalInv, RowsAreAll, SteadyAndNear, Offered, Sought
<1>5. /\ RoomForNext' /\ AnswerIsGrounded'
      /\ \A d \in Documents : CorpusGrew(d)'
      /\ \A id \in retrieval'.rows : OfferedMeanwhile(id)'
  BY <1>1, <1>2 DEF RetrievalInv, RoomForNext, AnswerIsGrounded, CorpusGrew, OfferedMeanwhile
<1> QED BY <1>1, <1>3, <1>4, <1>5 DEF RetrievalInv

\* What one step of the ingestion does to a document.
LEMMA CorpusStep ==
    ASSUME corpus \in [Documents -> CorpusRow], began \in [Documents -> CorpusRow], RoomForNext,
           \A d \in Documents : CorpusGrew(d), CorpusNext
    PROVE  /\ corpus' \in [Documents -> CorpusRow] /\ RoomForNext'
           /\ UNCHANGED <<vectors, retrievalPc, retrieval, began, answer>>
           /\ \A d \in Documents :
                /\ corpus[d].active => corpus'[d].active
                /\ corpus[d].version <= corpus'[d].version
                /\ corpus'[d].version = corpus[d].version /\ corpus'[d].current => corpus[d].current
                /\ Offered(d)' /\ began[d] = corpus'[d] => corpus'[d] = corpus[d]
<1>1. PICK d \in Documents : PublishDocument(d) \/ RetireVersion(d) \/ StoreVersion(d)
  BY DEF CorpusNext
<1>2. UNCHANGED <<vectors, retrievalPc, retrieval, began, answer>>
  BY <1>1 DEF PublishDocument, RetireVersion, StoreVersion
<1>3. /\ corpus[d] \in CorpusRow /\ corpus[d].version \in 1..MaxVersion /\ MaxVersion \in Nat
      /\ DOMAIN corpus[d] = {"active", "version", "current"}
  BY RetrievalAssumption DEF CorpusRow
<1>4. PICK version \in Nat : version = corpus[d].version /\ version \in 1..MaxVersion
  BY <1>3
<1>5. PICK row : /\ row = corpus'[d] /\ corpus' = [corpus EXCEPT ![d] = row]
                 /\ row \in CorpusRow
                 /\ ~row.current => row.version < MaxVersion
                 /\ corpus[d].active => row.active
                 /\ version <= row.version
                 /\ row.version = version /\ row.current => corpus[d].current
                 /\ \/ row.active /\ ~corpus[d].active
                    \/ ~row.current
                    \/ row.version = version + 1
  <2>1. CASE PublishDocument(d)
    <3>1. PICK row : row = [corpus[d] EXCEPT !.active = TRUE]
      OBVIOUS
    <3>2. corpus' = [corpus EXCEPT ![d] = row] /\ ~corpus[d].active
      BY <2>1, <3>1 DEF PublishDocument
    <3>3. /\ row \in CorpusRow /\ row.active /\ row.version = version
          /\ row.current = corpus[d].current
      BY <1>3, <1>4, <3>1 DEF CorpusRow
    <3>4. ~row.current => row.version < MaxVersion
      BY <1>4, <3>3 DEF RoomForNext
    <3>5. row = corpus'[d] /\ version <= row.version
      BY <3>2, <3>3
    <3> QED BY <3>2, <3>3, <3>4, <3>5
  <2>2. CASE RetireVersion(d)
    <3>1. PICK row : row = [corpus[d] EXCEPT !.current = FALSE]
      OBVIOUS
    <3>2. corpus' = [corpus EXCEPT ![d] = row] /\ version < MaxVersion
      BY <1>4, <2>2, <3>1 DEF RetireVersion
    <3>3. /\ row \in CorpusRow /\ ~row.current /\ row.version = version
          /\ row.active = corpus[d].active
      BY <1>3, <1>4, <3>1 DEF CorpusRow
    <3>4. row = corpus'[d] /\ version <= row.version
      BY <3>2, <3>3
    <3> QED BY <3>2, <3>3, <3>4
  <2>3. CASE StoreVersion(d)
    <3>1. ~corpus[d].current
      BY <2>3 DEF StoreVersion
    <3>2. version < MaxVersion
      BY <1>4, <3>1 DEF RoomForNext
    <3>3. PICK next \in 1..MaxVersion : next = version + 1 /\ next # version /\ version <= next
      BY <1>3, <1>4, <3>2
    <3>4. PICK row : row = [corpus[d] EXCEPT !.current = TRUE, !.version = next]
      OBVIOUS
    <3>5. corpus' = [corpus EXCEPT ![d] = row]
      BY <1>4, <2>3, <3>3, <3>4 DEF StoreVersion
    <3>6. /\ row \in CorpusRow /\ row.current /\ row.version = next
          /\ row.active = corpus[d].active
      BY <1>3, <3>4 DEF CorpusRow
    <3>7. row = corpus'[d]
      BY <3>5
    <3> QED BY <3>3, <3>5, <3>6, <3>7
  <2> QED BY <1>1, <2>1, <2>2, <2>3
<1>6. corpus' \in [Documents -> CorpusRow]
  BY <1>5
<1>7. RoomForNext'
  BY <1>5 DEF RoomForNext
<1>8. ASSUME NEW e \in Documents
      PROVE  /\ corpus[e].active => corpus'[e].active
             /\ corpus[e].version <= corpus'[e].version
             /\ corpus'[e].version = corpus[e].version /\ corpus'[e].current => corpus[e].current
             /\ Offered(e)' /\ began[e] = corpus'[e] => corpus'[e] = corpus[e]
  <2>1. CASE e = d
    <3>1. ~(Offered(e)' /\ began[e] = corpus'[e])
      <4>1. CorpusGrew(d) /\ began[d].version \in Nat
        BY DEF CorpusRow
      <4> QED BY <1>4, <1>5, <2>1, <4>1 DEF CorpusGrew, Offered
    <3> QED BY <1>4, <1>5, <2>1, <3>1
  <2>2. CASE e # d
    <3>1. corpus'[e] = corpus[e] /\ corpus[e].version \in Int
      BY <1>5, <2>2 DEF CorpusRow
    <3> QED BY <3>1
  <2> QED BY <2>1, <2>2
<1> QED BY <1>2, <1>6, <1>7, <1>8

LEMMA CorpusKeeps ==
    RetrievalInv /\ retrievalPc \notin {"idle", "done"} /\ CorpusNext => RetrievalInv'
<1> SUFFICES ASSUME RetrievalInv, retrievalPc \notin {"idle", "done"}, CorpusNext
             PROVE  RetrievalInv'
  OBVIOUS
<1>1. /\ corpus' \in [Documents -> CorpusRow] /\ RoomForNext'
      /\ UNCHANGED <<vectors, retrievalPc, retrieval, began, answer>>
      /\ \A d \in Documents :
           /\ corpus[d].active => corpus'[d].active
           /\ corpus[d].version <= corpus'[d].version
           /\ corpus'[d].version = corpus[d].version /\ corpus'[d].current => corpus[d].current
           /\ Offered(d)' /\ began[d] = corpus'[d] => corpus'[d] = corpus[d]
  BY CorpusStep DEF RetrievalInv, RetrievalTypeOK
<1>2. \A d \in Documents : corpus[d].version \in Nat /\ corpus'[d].version \in Nat
                           /\ began[d].version \in Nat
  BY <1>1 DEF RetrievalInv, RetrievalTypeOK, CorpusRow
<1>3. RetrievalTypeOK' /\ RetrievalMemory'
  BY <1>1 DEF RetrievalInv, RetrievalTypeOK, RetrievalMemory
<1>4. \A d \in Documents : CorpusGrew(d)'
  <2> TAKE d \in Documents
  <2>1. CorpusGrew(d) /\ began'[d] = began[d]
    BY <1>1 DEF RetrievalInv
  <2> QED BY <1>1, <1>2, <2>1 DEF CorpusGrew
<1>5. \A id \in retrieval'.rows : OfferedMeanwhile(id)'
  <2> TAKE id \in retrieval'.rows
  <2>1. id \in VersionIds /\ OfferedMeanwhile(id)
    BY <1>1 DEF RetrievalInv, RetrievalTypeOK
  <2>2. PICK d \in Documents : d = id[1]
    BY <2>1 DEF VersionIds
  <2> QED BY <1>1, <1>2, <2>1, <2>2 DEF OfferedMeanwhile
<1>6. RowsAreAll'
  <2> SUFFICES ASSUME retrievalPc \in {"vectors", "resolve"}, NEW d \in Documents,
                      SteadyAndNear(d, retrieval.request)', Sought(d)'
               PROVE  \/ <<d, corpus'[d].version>> \in retrieval.rows
                      \/ Cardinality(retrieval.rows) >= Overfetch * Wanted(retrieval.request)
    BY <1>1 DEF RowsAreAll
  <2>1. Sought(d) /\ Offered(d)' /\ began[d] = corpus'[d]
    BY <1>1 DEF Sought, SteadyAndNear
  <2>2. corpus'[d] = corpus[d]
    BY <1>1, <2>1
  <2>3. Offered(d) /\ began[d] = corpus[d]
    BY <2>1, <2>2 DEF Offered
  <2>4. Cardinality({e \in 1..d : corpus[e].active}) <= Cardinality({e \in 1..d : corpus'[e].active})
    <3>1. d \in Nat /\ 1..d \subseteq Documents /\ IsFiniteSet(1..d)
      <4>1. d \in 1..Len(About) /\ Len(About) \in Nat
        BY DocumentFacts, RetrievalAssumption
      <4>2. d \in Int /\ 1 \in Int
        BY <4>1
      <4>3. IsFiniteSet(1..d)
        BY <4>2, FS_Interval
      <4> QED BY <4>1, <4>3, DocumentFacts
    <3>2. {e \in 1..d : corpus[e].active} \subseteq {e \in 1..d : corpus'[e].active}
      BY <1>1, <3>1
    <3>3. IsFiniteSet({e \in 1..d : corpus'[e].active})
      BY <3>1, FS_Subset
    <3> QED BY <3>2, <3>3, FS_Subset
  <2>5. /\ Cardinality({e \in 1..d : corpus[e].active}) \in Nat
        /\ Cardinality({e \in 1..d : corpus'[e].active}) \in Nat
        /\ Headroom * Overfetch * Wanted(retrieval.request) \in Nat
    <3>1. d \in Int /\ 1 \in Int
      BY DocumentFacts
    <3>2. IsFiniteSet(1..d)
      BY <3>1, FS_Interval
    <3>3. /\ IsFiniteSet({e \in 1..d : corpus[e].active})
          /\ IsFiniteSet({e \in 1..d : corpus'[e].active})
      BY <3>2, FS_Subset
    <3>4. retrieval.request \in RetrievalRequests
      BY DEF RetrievalInv, RetrievalMemory
    <3> QED BY <3>3, <3>4, FS_CardinalityType, WantedType
  <2>6. Cardinality({e \in 1..d : corpus'[e].active})
          <= Headroom * Overfetch * Wanted(retrieval.request)
    BY <1>1 DEF SteadyAndNear
  <2>7. SteadyAndNear(d, retrieval.request)
    BY <2>3, <2>4, <2>5, <2>6 DEF SteadyAndNear
  <2> QED BY <2>1, <2>2, <2>7 DEF RetrievalInv, RowsAreAll
<1>7. AnswerIsGrounded'
  BY <1>1 DEF AnswerIsGrounded
<1> QED BY <1>1, <1>3, <1>4, <1>5, <1>6, <1>7 DEF RetrievalInv

LEMMA ResponseKeeps == RetrievalInv /\ Answer => RetrievalInv'
<1> SUFFICES ASSUME RetrievalInv, Answer PROVE RetrievalInv'
  OBVIOUS
<1>1. PICK missing : missing = {m.of : m \in retrieval.matches} \ retrieval.rows
  OBVIOUS
<1>2. PICK discovered : /\ discovered \in {Discovered(missing), {}}
                        /\ retrievalPc = "resolve" /\ retrievalPc' = "done"
                        /\ answer' = Response(retrieval, discovered)
                        /\ UNCHANGED <<corpus, vectors, retrieval, began>>
  BY <1>1 DEF Answer, RetrievalGo
<1>3. PICK w \in Nat : w = Wanted(retrieval.request) /\ w >= 1
                       /\ Overfetch * Wanted(retrieval.request) \in Nat
                       /\ Overfetch * Wanted(retrieval.request) >= w
  BY <1>2, WantedType DEF RetrievalInv, RetrievalMemory
<1>4. PICK candidates : candidates = Candidates(retrieval, discovered)
  OBVIOUS
<1>5. PICK found : found = Listing(candidates, w)
  OBVIOUS
<1>6. PICK status : status = Status(retrieval, candidates)
  OBVIOUS
<1>7. PICK total : total = Cardinality(candidates)
  OBVIOUS
<1>8. /\ answer' = [status |-> status, candidates |-> found, total |-> total]
      /\ answer'.status = status /\ answer'.candidates = found /\ answer'.total = total
  BY <1>2, <1>3, <1>4, <1>5, <1>6, <1>7 DEF Response, Listing
<1>9. /\ corpus \in [Documents -> CorpusRow] /\ began \in [Documents -> CorpusRow]
      /\ \A d \in Documents : CorpusGrew(d)
      /\ retrieval.rows \subseteq VersionIds /\ retrieval.matches \subseteq VectorMatch
  BY DEF RetrievalInv, RetrievalTypeOK
<1>10. discovered \subseteq VersionIds /\ \A id \in discovered : OfferedMeanwhile(id)
  <2>1. missing \subseteq VersionIds
    BY <1>1, <1>9 DEF VectorMatch
  <2>2. CASE discovered = Discovered(missing)
    <3>1. \A id \in discovered : /\ id \in VersionIds /\ Offered(id[1])
                                 /\ id[2] = corpus[id[1]].version
      BY <2>1, <2>2 DEF Discovered
    <3> QED BY <1>9, <3>1, OnOfferIsMeanwhile
  <2> QED BY <1>2, <2>2
<1>11. /\ OnePerVersion(candidates)
       /\ \A c \in candidates : c.of \in retrieval.rows \cup discovered
       /\ \A id \in retrieval.rows : \E c \in candidates : c.of = id
       /\ Cardinality(retrieval.rows) <= Cardinality(candidates)
       /\ retrieval.matches = {} => \A c \in candidates : c.method = "STRUCTURED"
  BY <1>4, <1>9, <1>10, CandidatesFacts
<1>12. /\ total \in Nat
       /\ found \in Seq(Candidate) /\ Len(found) = AtMost(total, w)
       /\ \A i \in DOMAIN found : found[i] \in candidates
       /\ \A i, j \in DOMAIN found : i < j =>
            found[i].of # found[j].of /\ found[i].score >= found[j].score
       /\ total <= w => \A c \in candidates : \E i \in DOMAIN found : found[i] = c
  <2>1. OnePerVersion(candidates)
    BY <1>11
  <2>2. IsListing(Listing(candidates, w), candidates, w, Cardinality(candidates))
    BY <2>1, ListingFacts
  <2>3. IsListing(found, candidates, w, total)
    BY ONLY <1>5, <1>7, <2>2
  <2> QED BY <2>3 DEF IsListing
<1>13. /\ status \in RetrievalStatus \ {"RETRIEVAL_FAILURE"}
       /\ status = "NO_RESULTS" <=> candidates = {}
       /\ status = "PARTIAL_RESULTS" => ~retrieval.available
  BY <1>6 DEF Status, RetrievalStatus
<1>14. RetrievalTypeOK' /\ RetrievalMemory'
  BY <1>2, <1>8, <1>12, <1>13 DEF RetrievalInv, RetrievalTypeOK, RetrievalMemory
<1>15. /\ RoomForNext' /\ RowsAreAll'
       /\ \A d \in Documents : CorpusGrew(d)'
       /\ \A id \in retrieval.rows : OfferedMeanwhile(id)'
  BY <1>2 DEF RetrievalInv, RoomForNext, RowsAreAll, CorpusGrew, OfferedMeanwhile
<1>16. Len(found) <= w /\ Len(found) <= total
  BY <1>12 DEF AtMost
<1>17. \A i \in DOMAIN found : found[i].of \in VersionIds /\ OfferedMeanwhile(found[i].of)
  <2> TAKE i \in DOMAIN found
  <2>1. found[i] \in candidates /\ found[i].of \in retrieval.rows \cup discovered
    BY <1>11, <1>12
  <2> QED BY <1>9, <1>10, <2>1 DEF RetrievalInv
<1>18. ASSUME NEW i \in DOMAIN found, NEW j \in DOMAIN found, i < j,
              found[i].of[1] = found[j].of[1]
       PROVE  began[found[i].of[1]] # corpus[found[i].of[1]]
  <2>1. PICK a \in VersionIds, b \in VersionIds : a = found[i].of /\ b = found[j].of
    BY <1>17
  <2>2. a # b /\ a[1] = b[1] /\ OfferedMeanwhile(a) /\ OfferedMeanwhile(b)
    BY <1>12, <1>17, <1>18, <2>1
  <2>3. PICK d \in Documents : d = a[1] /\ a = <<d, a[2]>> /\ b = <<d, b[2]>>
    BY <2>2 DEF VersionIds
  <2>4. a[2] # b[2] /\ corpus[d].version \in Nat
    BY <1>9, <2>2, <2>3 DEF CorpusRow
  <2>5. began[d] # corpus[d]
    BY <2>2, <2>3, <2>4 DEF OfferedMeanwhile
  <2> QED BY <2>1, <2>3, <2>5
<1>19. ASSUME NEW d \in Documents, SteadyAndNear(d, retrieval.request), Sought(d)
       PROVE  (\E i \in DOMAIN found : found[i].of[1] = d) \/ Len(found) = w
  <2>1. CASE total <= w /\ <<d, corpus[d].version>> \in retrieval.rows
    <3>1. PICK c \in candidates : c.of = <<d, corpus[d].version>>
      BY <1>11, <2>1
    <3>2. PICK i \in DOMAIN found : found[i] = c
      BY <1>12, <2>1
    <3>3. found[i].of[1] = d
      BY <3>1, <3>2
    <3> QED BY <3>3
  <2>2. CASE Cardinality(retrieval.rows) >= Overfetch * Wanted(retrieval.request)
    <3>1. Cardinality(retrieval.rows) \in Nat
      BY <1>9, DocumentFacts, FS_Subset, FS_CardinalityType
    <3>2. total >= w
      BY <1>3, <1>7, <1>11, <1>12, <2>2, <3>1
    <3> QED BY <1>12, <3>2 DEF AtMost
  <2>3. CASE total > w
    BY <1>12, <2>3 DEF AtMost
  <2>4. \/ <<d, corpus[d].version>> \in retrieval.rows
        \/ Cardinality(retrieval.rows) >= Overfetch * Wanted(retrieval.request)
    BY <1>2, <1>19 DEF RetrievalInv, RowsAreAll
  <2> QED BY <1>12, <2>1, <2>2, <2>3, <2>4
<1>20. /\ candidates = {} => total = 0
       /\ candidates # {} => found # <<>>
  <2>1. candidates = {} <=> total = 0
    BY <1>7, <1>11, FS_EmptySet DEF OnePerVersion
  <2>2. CASE candidates # {}
    <3>1. Len(found) >= 1
      BY <1>3, <1>12, <2>1, <2>2 DEF AtMost
    <3> QED BY <2>2, <3>1
  <2> QED BY <2>1, <2>2
<1>21. status = "PARTIAL_RESULTS" => \A i \in DOMAIN found : found[i].method = "STRUCTURED"
  <2>1. status = "PARTIAL_RESULTS" => retrieval.matches = {}
    BY <1>13 DEF RetrievalInv, RetrievalMemory
  <2> QED BY <1>11, <1>12, <2>1
<1>22. AnswerIsGrounded'
  <2>1. retrieval' = retrieval /\ corpus' = corpus /\ began' = began
    BY <1>2
  <2>2. \A i \in DOMAIN found : OfferedMeanwhile(found[i].of)'
    BY <1>17, <2>1 DEF OfferedMeanwhile
  <2>3. \A i, j \in DOMAIN found : i < j =>
          /\ found[i].of # found[j].of
          /\ found[i].score >= found[j].score
          /\ found[i].of[1] = found[j].of[1] => began'[found[i].of[1]] # corpus'[found[i].of[1]]
    BY <1>12, <1>18, <2>1
  <2>4. ASSUME NEW d \in Documents, SteadyAndNear(d, retrieval.request)',
               Matches(d, retrieval.request, retrieval.signals)',
               retrieval.request.classification \in {Absent, About[d].classification}
        PROVE  (\E i \in DOMAIN found : found[i].of[1] = d) \/ Len(found) = Wanted(retrieval.request)
    <3>1. SteadyAndNear(d, retrieval.request) /\ Sought(d)
      BY <2>1, <2>4 DEF SteadyAndNear, Offered, Sought
    <3> QED BY <1>3, <1>19, <3>1
  <2>5. /\ Len(found) <= Wanted(retrieval.request) /\ Len(found) <= total
        /\ status = "NO_RESULTS" => total = 0
        /\ status \in {"SUCCESS", "PARTIAL_RESULTS"} => found # <<>>
    BY <1>3, <1>13, <1>16, <1>20
  <2> QED BY <1>8, <1>21, <2>1, <2>2, <2>3, <2>4, <2>5 DEF AnswerIsGrounded
<1> QED BY <1>2, <1>9, <1>14, <1>15, <1>22 DEF RetrievalInv

LEMMA RetrievalInvNext == RetrievalInv /\ [RetrievalNext]_retrievalVars => RetrievalInv'
<1> SUFFICES ASSUME RetrievalInv, [RetrievalNext]_retrievalVars PROVE RetrievalInv'
  OBVIOUS
<1>1. CASE UNCHANGED retrievalVars
  <2> USE <1>1 DEF retrievalVars, RetrievalInv
  <2>1. RetrievalTypeOK' /\ (began \in [Documents -> CorpusRow])'
    BY DEF RetrievalTypeOK
  <2>2. (\A d \in Documents : CorpusGrew(d))' /\ (\A id \in retrieval.rows : OfferedMeanwhile(id))'
    BY DEF CorpusGrew, OfferedMeanwhile, Offered
  <2>3. RowsAreAll'
    BY DEF RowsAreAll, SteadyAndNear, Sought, Offered
  <2>4. AnswerIsGrounded'
    <3>1. /\ AnswerIsGrounded /\ corpus' = corpus /\ retrievalPc' = retrievalPc
          /\ retrieval' = retrieval /\ began' = began /\ answer' = answer
      OBVIOUS
    <3> QED BY ONLY <3>1 DEF AnswerIsGrounded, OfferedMeanwhile, SteadyAndNear, Offered
  <2>5. RoomForNext' /\ RetrievalMemory'
    BY DEF RoomForNext, RetrievalMemory
  <2> QED BY <2>1, <2>2, <2>3, <2>4, <2>5
<1>2. CASE RetrievalNext
  <2>1. CASE BeginRetrieval \/ FindStructured \/ FailStructured
    BY <2>1, BeginRetrievalKeeps, FindStructuredKeeps, FailStructuredKeeps
  <2>2. CASE SearchVectors \/ VectorsUnavailable \/ Answer
    BY <2>2, VectorsKeep, ResponseKeeps
  <2>3. CASE retrievalPc \notin {"idle", "done"} /\ CorpusNext
    BY <2>3, CorpusKeeps
  <2> QED BY <1>2, <2>1, <2>2, <2>3 DEF RetrievalNext
<1> QED BY <1>1, <1>2

\* The inductive invariant of a search: until the answer, what was found is remembered as
\* it was, the corpus only grew, and no unchanged document was missed without a reason.
THEOREM RetrievalInvariance == RetrievalSpec => []RetrievalInv
<1> QED BY RetrievalInvInit, RetrievalInvNext, PTL DEF RetrievalSpec

\* The types of the corpus, of what a search remembers and of its answer.
THEOREM RetrievalTypeCorrectness == RetrievalSpec => []RetrievalTypeOK
<1>1. RetrievalInv => RetrievalTypeOK
  BY DEF RetrievalInv
<1> QED BY <1>1, RetrievalInvariance, PTL

\* Whatever the vectors hold and however versions are replaced meanwhile, the answer of
\* retrieveCandidates holds what was on offer, once, in order, and misses nothing without
\* a reason.
THEOREM AnswersAreGrounded == RetrievalSpec => []AnswerIsGrounded
<1>1. RetrievalInv => AnswerIsGrounded
  BY DEF RetrievalInv
<1> QED BY <1>1, RetrievalInvariance, PTL

====================================================================================

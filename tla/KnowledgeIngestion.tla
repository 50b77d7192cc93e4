-------------------------- MODULE KnowledgeIngestion --------------------------
(* The refresh of one knowledge source and the policy document behind it:       *)
(*   knowledge-ingestion.service.ts        triggerManualRefresh                 *)
(*   document-processing.pipeline.ts       processSource                        *)
(*   prisma-policy-document.repository.ts, prisma-policy-version.repository.ts, *)
(*   prisma-ingestion-job.repository.ts                                         *)
(*                                                                              *)
(* A refresh is one call of the service; each of its database calls is a step   *)
(* of its own, and nothing keeps two refreshes of a source apart.  What a       *)
(* connector fetches carries the instant of the fetch, and the fingerprint is   *)
(* taken over it: two fetches have one fingerprint only within one instant.     *)
(*                                                                              *)
(* Left out: parsing, metadata, classification and quality, which only fill     *)
(* columns (a failed integrity check is logged and no more); sources for manual *)
(* uploads, which fetch nothing; the stage of a job.                            *)
EXTENDS Integers, Sequences

CONSTANT Refreshes      \* calls of triggerManualRefresh

VARIABLES
    policy,         \* the PolicyDocument row
    versions,       \* its PolicyVersion rows in the order of their creation
    jobs,           \* status of the KnowledgeIngestionJob of each refresh
    health,         \* healthStatus of the source
    instant,        \* the instant of the latest fetch
    ingestPc,       \* where each refresh is
    ingestLocal,    \* what it remembers from its earlier calls
    interrupted     \* refreshes of which a call was rejected or the process died (history)

knowledgeVars == <<policy, versions, jobs, health, instant, ingestPc, ingestLocal, interrupted>>

-------------------------------------------------------------------------------
(* Types *)

\* Number 0: there is no row.
PolicyRow == [number : Nat, status : {"DOWNLOADED", "ACTIVE"}]

\* chunked: its PolicyChunk rows are stored.
VersionRow == [number : Nat \ {0}, fingerprint : Nat \ {0}, current : BOOLEAN, chunked : BOOLEAN]

\* "none": there is no row.
JobStatuses == {"none", "RUNNING", "COMPLETED", "FAILED"}

HealthStatus == {"HEALTHY", "DEGRADED"}

\* number: currentVersionNumber of the document as it was read; stored: the version.
IngestLocal == [fingerprint : Nat, number : Nat, stored : Nat]

\* The calls of processSource, and those around it.
PipelineCalls == {"fetch", "checkDuplicate", "findDocument", "createDocument",
                  "incrementVersion", "retireVersions", "createVersion", "createChunks",
                  "activate", "publishProcessed"}
IngestPC == PipelineCalls \cup
    {"idle", "complete", "publishCompleted", "failJob", "degrade", "done", "dead"}

KnowledgeInit ==
    /\ policy = [number |-> 0, status |-> "DOWNLOADED"]
    /\ versions = <<>>
    /\ jobs = [r \in Refreshes |-> "none"]
    /\ health = "HEALTHY"
    /\ instant = 1
    /\ ingestPc = [r \in Refreshes |-> "idle"]
    /\ ingestLocal = [r \in Refreshes |-> [fingerprint |-> 0, number |-> 0, stored |-> 0]]
    /\ interrupted = {}

-------------------------------------------------------------------------------
(* Repository calls *)

Documented == policy.number > 0

\* Something was ingested before, whatever it was.
AnyIngested(fingerprint) == versions # <<>>

\* findByFingerprint
Ingested(fingerprint) == \E v \in DOMAIN versions : versions[v].fingerprint = fingerprint

\* The unique keys of policy_versions.
Refused(local) == \E v \in DOMAIN versions :
    \/ versions[v].number = local.number
    \/ versions[v].fingerprint = local.fingerprint

\* First half of createVersion: one updateMany over the versions of the document.
AllRetired == [v \in DOMAIN versions |-> [versions[v] EXCEPT !.current = FALSE]]

\* Numbers that begin at zero.
NumberedFromZero(local) == [number |-> local.number - 1, fingerprint |-> local.fingerprint,
                            current |-> TRUE, chunked |-> FALSE]

\* Second half, with the number the document had when it was read.
NewVersion(local) == [number |-> local.number, fingerprint |-> local.fingerprint,
                      current |-> TRUE, chunked |-> FALSE]

-------------------------------------------------------------------------------
(* Steps of a refresh *)

IngestGo(r, from, to) ==
    /\ ingestPc[r] = from
    /\ ingestPc' = [ingestPc EXCEPT ![r] = to]
    /\ UNCHANGED interrupted

\* The source is found and createJob stores the job.
StartRefresh(r) ==
    /\ IngestGo(r, "idle", "fetch")
    /\ jobs' = [jobs EXCEPT ![r] = "RUNNING"]
    /\ UNCHANGED <<policy, versions, health, instant, ingestLocal>>

\* fetchLatestDocuments and generateFingerprint
Fetch(r) == \E now \in {instant, instant + 1} :
    /\ IngestGo(r, "fetch", "checkDuplicate")
    /\ instant' = now
    /\ ingestLocal' = [ingestLocal EXCEPT ![r].fingerprint = now]
    /\ UNCHANGED <<policy, versions, jobs, health>>

CheckDuplicate(r) ==
    /\ IngestGo(r, "checkDuplicate",
                IF Ingested(ingestLocal[r].fingerprint) THEN "complete" ELSE "findDocument")
    /\ UNCHANGED <<policy, versions, jobs, health, instant, ingestLocal>>

\* findByDocumentNumber
FindDocument(r) ==
    /\ IngestGo(r, "findDocument", IF Documented THEN "incrementVersion" ELSE "createDocument")
    /\ ingestLocal' = [ingestLocal EXCEPT ![r].number = policy.number]
    /\ UNCHANGED <<policy, versions, jobs, health, instant>>

\* createDocument; documentNumber is unique.
CreateDocument(r) ==
    /\ IngestGo(r, "createDocument", IF Documented THEN "failJob" ELSE "retireVersions")
    /\ IF Documented
       THEN UNCHANGED <<policy, ingestLocal>>
       ELSE /\ policy' = [number |-> 1, status |-> "DOWNLOADED"]
            /\ ingestLocal' = [ingestLocal EXCEPT ![r].number = 1]
    /\ UNCHANGED <<versions, jobs, health, instant>>

\* incrementVersion; the row it returns is not used.
IncrementVersion(r) ==
    /\ IngestGo(r, "incrementVersion", "retireVersions")
    /\ policy' = [policy EXCEPT !.number = @ + 1]
    /\ UNCHANGED <<versions, jobs, health, instant, ingestLocal>>

RetireVersions(r) ==
    /\ IngestGo(r, "retireVersions", "createVersion")
    /\ versions' = AllRetired
    /\ UNCHANGED <<policy, jobs, health, instant, ingestLocal>>

CreateVersion(r) ==
    /\ IngestGo(r, "createVersion", IF Refused(ingestLocal[r]) THEN "failJob" ELSE "createChunks")
    /\ IF Refused(ingestLocal[r])
       THEN UNCHANGED <<versions, ingestLocal>>
       ELSE /\ versions' = Append(versions, NewVersion(ingestLocal[r]))
            /\ ingestLocal' = [ingestLocal EXCEPT ![r].stored = Len(versions) + 1]
    /\ UNCHANGED <<policy, jobs, health, instant>>

\* The loop of createChunk.
CreateChunks(r) ==
    /\ IngestGo(r, "createChunks", "activate")
    /\ versions' = [versions EXCEPT ![ingestLocal[r].stored].chunked = TRUE]
    /\ UNCHANGED <<policy, jobs, health, instant, ingestLocal>>

Activate(r) ==
    /\ IngestGo(r, "activate", "publishProcessed")
    /\ policy' = [policy EXCEPT !.status = "ACTIVE"]
    /\ UNCHANGED <<versions, jobs, health, instant, ingestLocal>>

PublishProcessed(r) ==
    /\ IngestGo(r, "publishProcessed", "complete")
    /\ UNCHANGED <<policy, versions, jobs, health, instant, ingestLocal>>

CompleteJob(r) ==
    /\ IngestGo(r, "complete", "publishCompleted")
    /\ jobs' = [jobs EXCEPT ![r] = "COMPLETED"]
    /\ UNCHANGED <<policy, versions, health, instant, ingestLocal>>

PublishCompleted(r) ==
    /\ IngestGo(r, "publishCompleted", "done")
    /\ UNCHANGED <<policy, versions, jobs, health, instant, ingestLocal>>

\* The catch clause of triggerManualRefresh: failJob ...
FailJob(r) ==
    /\ IngestGo(r, "failJob", "degrade")
    /\ jobs' = [jobs EXCEPT ![r] = "FAILED"]
    /\ UNCHANGED <<policy, versions, health, instant, ingestLocal>>

\* ... and updateHealthStatus.  Nothing makes a source healthy again.
Degrade(r) ==
    /\ IngestGo(r, "degrade", "done")
    /\ health' = "DEGRADED"
    /\ UNCHANGED <<policy, versions, jobs, instant, ingestLocal>>

\* A call inside the try block is rejected: the database or the queue is away.
RejectCall(r) ==
    /\ ingestPc[r] \in PipelineCalls \cup {"complete", "publishCompleted"}
    /\ ingestPc' = [ingestPc EXCEPT ![r] = "failJob"]
    /\ interrupted' = interrupted \cup {r}
    /\ UNCHANGED <<policy, versions, jobs, health, instant, ingestLocal>>

\* The process dies, or a call of the catch clause is rejected.
AbandonRefresh(r) ==
    /\ ingestPc[r] \notin {"idle", "done", "dead"}
    /\ ingestPc' = [ingestPc EXCEPT ![r] = "dead"]
    /\ interrupted' = interrupted \cup {r}
    /\ UNCHANGED <<policy, versions, jobs, health, instant, ingestLocal>>

RefreshStep(r) ==
    \/ StartRefresh(r) \/ Fetch(r) \/ CheckDuplicate(r)
    \/ FindDocument(r) \/ CreateDocument(r) \/ IncrementVersion(r)
    \/ RetireVersions(r) \/ CreateVersion(r) \/ CreateChunks(r)
    \/ Activate(r) \/ PublishProcessed(r)
    \/ CompleteJob(r) \/ PublishCompleted(r) \/ FailJob(r) \/ Degrade(r)
    \/ RejectCall(r) \/ AbandonRefresh(r)

KnowledgeNext == \E r \in Refreshes : RefreshStep(r)

KnowledgeSpec == KnowledgeInit /\ [][KnowledgeNext]_knowledgeVars

-------------------------------------------------------------------------------
(* Properties *)

KnowledgeTypeOK ==
    /\ policy \in PolicyRow
    /\ versions \in Seq(VersionRow)
    /\ jobs \in [Refreshes -> JobStatuses]
    /\ health \in HealthStatus
    /\ instant \in Nat \ {0}
    /\ ingestPc \in [Refreshes -> IngestPC]
    /\ ingestLocal \in [Refreshes -> IngestLocal]
    /\ interrupted \subseteq Refreshes

\* The job of a refresh tells what became of it, however refreshes overlap and
\* whichever call is rejected: a completed one has its fingerprint among the versions,
\* under a number the document had reached; a refresh leaves its job running only if its
\* process died; the source is degraded only for a job that failed; and a published
\* document is without a current version only while a refresh is between the two halves
\* of createVersion, or because one ended there without completing.
JobTellsOutcome ==
    /\ \A r \in Refreshes :
        /\ jobs[r] = "COMPLETED" => \E v \in DOMAIN versions :
              /\ versions[v].fingerprint = ingestLocal[r].fingerprint
              /\ versions[v].number <= policy.number
        /\ ingestPc[r] = "done" => jobs[r] \in {"COMPLETED", "FAILED"}
    /\ health = "DEGRADED" => \E r \in Refreshes : jobs[r] = "FAILED"
    /\ policy.status = "ACTIVE" /\ (\A v \in DOMAIN versions : ~versions[v].current) =>
        \E r \in Refreshes :
            /\ ingestLocal[r].number > 0 /\ ingestLocal[r].stored = 0
            /\ ingestPc[r] \in {"createVersion", "failJob", "degrade", "done", "dead"}
            /\ jobs[r] # "COMPLETED"

\* What policy-versioning.md says: every update generates a new version, here every
\* refresh that nothing interrupts and that finds the document and brings contents no
\* other refresh brought.  The number it stores was read before it was incremented, and
\* is taken since the first refresh.
EveryUpdateVersioned == \A r \in Refreshes :
    /\ ingestPc[r] = "done" /\ r \notin interrupted
    /\ ingestLocal[r].number > 0
    /\ \A q \in Refreshes \ {r} : ingestLocal[q].fingerprint # ingestLocal[r].fingerprint
    => Ingested(ingestLocal[r].fingerprint)
===============================================================================

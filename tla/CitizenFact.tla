------------------------------ MODULE CitizenFact ------------------------------
(* The row of one attribute in CitizenFact and everybody who writes it:         *)
(*   fact-verification.orchestrator.ts          runVerification                 *)
(*   answer-processing-engine.service.ts        processAnswer                   *)
(*   citizen-fact.service.ts                    addFactForUser, updateFactForUser,*)
(*                                              deleteFactForUser               *)
(*   fact-reconciliation.service.ts             reconcileConflict               *)
(*   prisma-citizen-fact.repository.ts          upsertFact, updateFact, softDelete*)
(*   citizen-profile.service.ts                 recalculateAndSyncCompleteness  *)
(*                                                                             *)
(* A request is one call of one of these.  Its database calls are steps of     *)
(* their own; the statements of a transaction take effect when it commits, and *)
(* until then it holds the rows it has written (READ COMMITTED, the default).  *)
(* The profile exists: POST /citizen/profile created it.  The attribute is the *)
(* only mandatory one, so the profile is complete when the fact is current.    *)
(*                                                                             *)
(* Left out: values other than who wrote them; provenance, change and event    *)
(* rows, written with the version row in its transaction; what                 *)
(* reconcileConflict writes to the conflict; the session of an answer.         *)
EXTENDS Integers, FiniteSets

CONSTANTS
    Verifications,      \* calls of runVerification
    Answers,            \* calls of processAnswer
    Additions,          \* calls of addFactForUser
    Updates,            \* calls of updateFactForUser
    Reconciliations,    \* calls of reconcileConflict
    Deletions,          \* calls of deleteFactForUser
    NoRequest,          \* no call
    Key,                \* idempotencyKey of each verification and answer
    Submitted,          \* verificationStatus each edit asks for
    MaxRequests         \* bound: requests that arrive

Keyed == Verifications \cup Answers
Editors == Additions \cup Updates \cup Reconciliations
Requests == Keyed \cup Editors \cup Deletions

Statuses == {"SELF_DECLARED", "DOCUMENT_VERIFIED"}
Sources == {"MANUAL", "SELF_DECLARED"}

ASSUME CitizenFactAssumption ==
    /\ NoRequest \notin Requests
    /\ Verifications \cap (Answers \cup Editors \cup Deletions) = {}
    /\ Answers \cap (Editors \cup Deletions) = {}
    /\ Additions \cap (Updates \cup Reconciliations \cup Deletions) = {}
    /\ Updates \cap (Reconciliations \cup Deletions) = {}
    /\ Reconciliations \cap Deletions = {}
    /\ MaxRequests \in Nat
    /\ Submitted \in [Editors -> Statuses \cup {"UNDEFINED"}]
    /\ \A e \in Reconciliations : Submitted[e] = "DOCUMENT_VERIFIED"

VARIABLES
    fact,               \* the CitizenFact row
    accepted,           \* FactVerificationRun and OnboardingAnswer rows, by their request
    reviews,            \* FactVerificationReview rows, by their request
    snapshots,          \* FactVerificationSnapshot rows, by their request
    versionRow,         \* version of the CitizenFactVersion row of each request, or 0
    archived,           \* version of the CitizenFactHistory row of each request, or 0
    profile,            \* the CitizenProfile row
    profileVersion,     \* number of the CitizenProfileVersion row of each request, or 0
    pc,                 \* where each request is
    local,              \* what it remembers from its earlier calls
    writers,            \* history: requests that wrote the fact
    unsynced            \* history: requests that changed the fact and did not update the
                        \* profile, or updated it with a count no longer true

factVars    == <<fact, versionRow, writers>>
runVars     == <<accepted, reviews, snapshots>>
profileVars == <<profile, profileVersion, unsynced>>
vars == <<factVars, runVars, archived, profileVars, pc, local>>

-------------------------------------------------------------------------------
(* Types *)

\* Version 0: there is no row.
Fact == [version : Nat, value : Requests \cup {NoRequest}, source : Sources,
         status : Statuses, deleted : BOOLEAN]
NoFact == [version |-> 0, value |-> NoRequest, source |-> "MANUAL",
           status |-> "SELF_DECLARED", deleted |-> FALSE]

\* The fact it read, the requiresManualReview of a verification, whether it found the
\* fact current when it counted facts, and the version it gave the profile.
Local == [fact : Fact, review : BOOLEAN, counted : BOOLEAN, version : Nat]
NoLocal == [fact |-> NoFact, review |-> FALSE, counted |-> FALSE, version |-> 0]

PC == {"idle", "readFact", "begin", "updateFact", "snapshot", "commit", "beginAnswer", "writeAnswer",
       "create", "reread", "archive", "overwrite", "softDelete",
       "recalculate", "sync", "saveVersion", "done"}

Init ==
    /\ fact = NoFact
    /\ accepted = {}
    /\ reviews = {}
    /\ snapshots = {}
    /\ versionRow = [r \in Requests |-> 0]
    /\ archived = [r \in Requests |-> 0]
    /\ profile = [version |-> 1, complete |-> FALSE]
    /\ profileVersion = [r \in Requests |-> 0]
    /\ pc = [r \in Requests |-> "idle"]
    /\ local = [r \in Requests |-> NoLocal]
    /\ writers = {}
    /\ unsynced = {}

-------------------------------------------------------------------------------
(* Helpers *)

Exists(row) == row.version > 0

\* findById, findActiveByProfileId: rows that are not deleted.
Current(row) == Exists(row) /\ ~row.deleted

SameKey(q, r) ==
    /\ Key[q] = Key[r]
    /\ {q, r} \subseteq Verifications \/ {q, r} \subseteq Answers

\* Variant: no unique key.
NeverTaken(r) == FALSE

\* The unique key (userId, idempotencyKey), of runs and of answers.
Taken(r) == \E q \in accepted : SameKey(q, r)

\* Transactions that have written the fact ...
HoldsFact(r) == pc[r] \in {"snapshot", "commit"}

\* Variant: the key is taken before the transaction, by whoever finds it unused.
HoldsKeyEarly(r) ==
    HoldsFact(r) \/ pc[r] \in {"begin", "beginAnswer", "updateFact", "writeAnswer"}

\* ... and those that have written their key.
HoldsKey(r) == HoldsFact(r) \/ pc[r] \in {"updateFact", "writeAnswer"}

\* A statement that writes a held row waits for the end of the transaction.
FactFree == \A q \in Verifications : ~HoldsFact(q)
KeyFree(r) == \A q \in Keyed \ {r} : HoldsKey(q) => ~SameKey(q, r)

\* getPrecedenceValue of the two sources the code writes, MANUAL by default.
Precedence(source) == IF source = "MANUAL" THEN 2 ELSE 5

\* Variant: any new source overrides.
AlwaysOverride(existing, new) == TRUE

ShouldOverride(existing, new) == Precedence(new) <= Precedence(existing)

\* Variant: the branches are swapped.
SwappedStatus(requiresManualReview) ==
    IF requiresManualReview THEN "DOCUMENT_VERIFIED" ELSE "SELF_DECLARED"

\* The verification status runVerification gives the fact, also when it defers.
VerifiedStatus(requiresManualReview) ==
    IF requiresManualReview THEN "SELF_DECLARED" ELSE "DOCUMENT_VERIFIED"

\* Variant: what the edit does not ask for is not kept.
SubmittedStatus(r) == Submitted[r]

\* data.verificationStatus ?? existing.verificationStatus
EditedStatus(r) ==
    IF Submitted[r] = "UNDEFINED" THEN local[r].fact.status ELSE Submitted[r]

Goto(r, label) == pc' = [pc EXCEPT ![r] = label] /\ UNCHANGED local

GotoWith(r, label, memory) ==
    /\ pc' = [pc EXCEPT ![r] = label]
    /\ local' = [local EXCEPT ![r] = memory]

\* The call returns or throws: its locals are gone.
End(r) == GotoWith(r, "done", NoLocal)

GotoOrEnd(r, goes, label) == IF goes THEN Goto(r, label) ELSE End(r)

WriteFact(r, row) == fact' = row /\ writers' = writers \cup {r}

\* The unique key (profileId, attributeKey) admits the row.
Creatable == ~Exists(fact)

\* A new row, with the defaults of the schema.
NewFact(r, source, status) ==
    [version |-> 1, value |-> r, source |-> source, status |-> status, deleted |-> FALSE]

-------------------------------------------------------------------------------
(* runVerification *)

\* The key has no run.  When it has one, its result is returned.
FindRun(r) ==
    /\ r \in Verifications
    /\ pc[r] = "idle"
    /\ GotoOrEnd(r, ~Taken(r), "readFact")
    /\ UNCHANGED <<factVars, runVars, archived, profileVars>>

\* findUnique finds deleted rows too.  Policy, evidence chain and freshness decide
\* whether the value that was read needs a review.
ReadFact(r) ==
    /\ pc[r] = "readFact"
    /\ IF Exists(fact)
       THEN \E review \in BOOLEAN :
                GotoWith(r, "begin", [NoLocal EXCEPT !.fact = fact, !.review = review])
       ELSE End(r)
    /\ UNCHANGED <<factVars, runVars, archived, profileVars>>

\* The transaction creates the run ...
Begin(r) ==
    /\ pc[r] = "begin"
    /\ KeyFree(r)
    /\ GotoOrEnd(r, ~Taken(r), "updateFact")
    /\ UNCHANGED <<factVars, runVars, archived, profileVars>>

\* ... and updates the fact.
UpdateFact(r) ==
    /\ pc[r] = "updateFact"
    /\ FactFree
    /\ Goto(r, "snapshot")
    /\ UNCHANGED <<factVars, runVars, archived, profileVars>>

\* replayService.createSnapshot does not use the transaction: the row stays.
Snapshot(r) ==
    /\ pc[r] = "snapshot"
    /\ snapshots' = snapshots \cup {r}
    /\ Goto(r, "commit")
    /\ UNCHANGED <<factVars, accepted, reviews, archived, profileVars>>

\* Its writes take effect.  The version is the one read before it began, plus one.
Commit(r) ==
    /\ pc[r] = "commit"
    /\ accepted' = accepted \cup {r}
    /\ WriteFact(r, [fact EXCEPT !.version = local[r].fact.version + 1,
                                 !.status = VerifiedStatus(local[r].review)])
    /\ versionRow' = [versionRow EXCEPT ![r] = local[r].fact.version + 1]
    /\ reviews' = IF local[r].review THEN reviews \cup {r} ELSE reviews
    /\ End(r)
    /\ UNCHANGED <<snapshots, archived, profileVars>>

-------------------------------------------------------------------------------
(* processAnswer *)

FindAnswer(r) ==
    /\ r \in Answers
    /\ pc[r] = "idle"
    /\ GotoOrEnd(r, ~Taken(r), "beginAnswer")
    /\ UNCHANGED <<factVars, runVars, archived, profileVars>>

\* The answer's row, then the fact and its precedence: a throw rolls back.
BeginAnswer(r) ==
    /\ pc[r] = "beginAnswer"
    /\ KeyFree(r)
    /\ IF Taken(r) \/ (Exists(fact) /\ ~ShouldOverride(fact.source, "SELF_DECLARED"))
       THEN End(r)
       ELSE GotoWith(r, "writeAnswer", [NoLocal EXCEPT !.fact = fact])
    /\ UNCHANGED <<factVars, runVars, archived, profileVars>>

\* Update or create, version row, commit.  The profile is not recalculated.
WriteAnswer(r) ==
    /\ pc[r] = "writeAnswer"
    /\ FactFree
    /\ \/ /\ Exists(local[r].fact)
          /\ WriteFact(r, [fact EXCEPT !.version = local[r].fact.version + 1, !.value = r,
                                       !.source = "SELF_DECLARED"])
          /\ accepted' = accepted \cup {r}
          /\ versionRow' = [versionRow EXCEPT ![r] = local[r].fact.version + 1]
       \/ /\ ~Exists(local[r].fact)
          /\ Creatable
          /\ WriteFact(r, NewFact(r, "SELF_DECLARED", "SELF_DECLARED"))
          /\ accepted' = accepted \cup {r}
          /\ versionRow' = [versionRow EXCEPT ![r] = 1]
       \/ /\ ~Exists(local[r].fact)
          /\ ~Creatable
          /\ UNCHANGED <<factVars, accepted>>
    /\ End(r)
    /\ UNCHANGED <<reviews, snapshots, archived, profileVars>>

-------------------------------------------------------------------------------
(* addFactForUser, updateFactForUser, reconcileConflict: upsertFact and updateFact *)

\* upsertFact finds the row, deleted or not.
FindForUpsert(r) ==
    /\ r \in Additions
    /\ pc[r] = "idle"
    /\ GotoWith(r, IF Exists(fact) THEN "archive" ELSE "create", [NoLocal EXCEPT !.fact = fact])
    /\ UNCHANGED <<factVars, runVars, archived, profileVars>>

\* The others need a current row first ...
FindCurrent(r) ==
    /\ r \in Updates \cup Reconciliations \cup Deletions
    /\ pc[r] = "idle"
    /\ GotoOrEnd(r, Current(fact), IF r \in Deletions THEN "softDelete" ELSE "reread")
    /\ UNCHANGED <<factVars, runVars, archived, profileVars>>

\* ... and updateFact reads it again, deleted or not.
Reread(r) ==
    /\ pc[r] = "reread"
    /\ GotoWith(r, "archive", [NoLocal EXCEPT !.fact = fact])
    /\ UNCHANGED <<factVars, runVars, archived, profileVars>>

Archive(r) ==
    /\ pc[r] = "archive"
    /\ archived' = [archived EXCEPT ![r] = local[r].fact.version]
    /\ Goto(r, "overwrite")
    /\ UNCHANGED <<factVars, runVars, profileVars>>

\* Only an addition makes a deleted fact current again.
Overwrite(r) ==
    /\ pc[r] = "overwrite"
    /\ FactFree
    /\ WriteFact(r, [fact EXCEPT !.version = @ + 1, !.value = r, !.status = EditedStatus(r),
                                 !.deleted = @ /\ r \notin Additions])
    /\ GotoOrEnd(r, r \notin Reconciliations, "recalculate")
    /\ UNCHANGED <<versionRow, runVars, archived, profileVars>>

CreateFact(r) ==
    /\ pc[r] = "create"
    /\ IF Creatable
       THEN WriteFact(r, NewFact(r, "MANUAL", EditedStatus(r)))
       ELSE UNCHANGED <<fact, writers>>
    /\ GotoOrEnd(r, Creatable, "recalculate")
    /\ UNCHANGED <<versionRow, runVars, archived, profileVars>>

SoftDelete(r) ==
    /\ pc[r] = "softDelete"
    /\ FactFree
    /\ WriteFact(r, [fact EXCEPT !.deleted = TRUE])
    /\ Goto(r, "recalculate")
    /\ UNCHANGED <<versionRow, runVars, archived, profileVars>>

-------------------------------------------------------------------------------
(* recalculateAndSyncCompleteness and generateSnapshot *)

Recalculate(r) ==
    /\ pc[r] = "recalculate"
    /\ GotoWith(r, "sync", [NoLocal EXCEPT !.counted = Current(fact)])
    /\ UNCHANGED <<factVars, runVars, archived, profileVars>>

Sync(r) ==
    /\ pc[r] = "sync"
    /\ profile' = [version |-> profile.version + 1, complete |-> local[r].counted]
    /\ unsynced' = IF local[r].counted = Current(fact) THEN unsynced ELSE unsynced \cup {r}
    /\ IF r \in Deletions
       THEN End(r)
       ELSE GotoWith(r, "saveVersion", [NoLocal EXCEPT !.version = profile.version + 1])
    /\ UNCHANGED <<factVars, runVars, archived, profileVersion>>

\* Variant: the number is the profile's present version, not the one it was updated to.
SavePresentVersion(r) ==
    /\ pc[r] = "saveVersion"
    /\ profileVersion' = [profileVersion EXCEPT ![r] = profile.version]
    /\ End(r)
    /\ UNCHANGED <<factVars, runVars, archived, profile, unsynced>>

SaveVersion(r) ==
    /\ pc[r] = "saveVersion"
    /\ profileVersion' = [profileVersion EXCEPT ![r] = local[r].version]
    /\ End(r)
    /\ UNCHANGED <<factVars, runVars, archived, profile, unsynced>>

\* A call is rejected, a transaction times out, or the process dies: what is not
\* committed is rolled back.
Fail(r) ==
    /\ pc[r] \notin {"idle", "done"}
    /\ unsynced' = IF pc[r] \in {"recalculate", "sync"} THEN unsynced \cup {r} ELSE unsynced
    /\ End(r)
    /\ UNCHANGED <<factVars, runVars, archived, profile, profileVersion>>

-------------------------------------------------------------------------------

\* A request arrives.
Arrive(r) ==
    \/ FindRun(r)
    \/ FindAnswer(r)
    \/ FindForUpsert(r)
    \/ FindCurrent(r)

\* What each kind of request does after it has arrived.
RunVerification(r) ==
    /\ r \in Verifications
    /\ ReadFact(r) \/ Begin(r) \/ UpdateFact(r) \/ Snapshot(r) \/ Commit(r)

ProcessAnswer(r) == r \in Answers /\ (BeginAnswer(r) \/ WriteAnswer(r))

RecalculateAndSync(r) == Recalculate(r) \/ Sync(r)

AddFact(r) ==
    /\ r \in Additions
    /\ \/ CreateFact(r) \/ Archive(r) \/ Overwrite(r)
       \/ RecalculateAndSync(r) \/ SaveVersion(r)

EditFact(r) ==
    /\ r \in Updates
    /\ \/ Reread(r) \/ Archive(r) \/ Overwrite(r)
       \/ RecalculateAndSync(r) \/ SaveVersion(r)

ReconcileConflict(r) == r \in Reconciliations /\ (Reread(r) \/ Archive(r) \/ Overwrite(r))

DeleteFact(r) == r \in Deletions /\ (SoftDelete(r) \/ RecalculateAndSync(r))

\* A request goes on.
Step(r) ==
    \/ RunVerification(r)
    \/ ProcessAnswer(r)
    \/ AddFact(r)
    \/ EditFact(r)
    \/ ReconcileConflict(r)
    \/ DeleteFact(r)

Next ==
    \/ /\ Cardinality({r \in Requests : pc[r] # "idle"}) < MaxRequests
       /\ \E r \in Requests : Arrive(r)
    \/ \E r \in Requests : Step(r)
    \/ \E r \in Requests : Fail(r)

Spec == Init /\ [][Next]_vars

-------------------------------------------------------------------------------
(* Properties *)

\* Every variable stays within its type.
TypeOK ==
    /\ fact \in Fact
    /\ accepted \subseteq Keyed
    /\ reviews \subseteq Verifications
    /\ snapshots \subseteq Verifications
    /\ versionRow \in [Requests -> Nat]
    /\ archived \in [Requests -> Nat]
    /\ profile \in [version : Nat, complete : BOOLEAN]
    /\ profileVersion \in [Requests -> Nat]
    /\ pc \in [Requests -> PC]
    /\ local \in [Requests -> Local]
    /\ writers \subseteq Requests
    /\ unsynced \subseteq Requests

\* Of all verifications or answers that carry one idempotency key, concurrent ones and
\* retries of failed ones, at most one writes the fact.
OnceForKey == \A q, r \in writers \cap Keyed : q # r => ~SameKey(q, r)

\* Whoever changes the fact leaves a row in CitizenFactVersion or CitizenFactHistory,
\* however the requests overlap: only the call that creates the fact may leave none.
Audited(r) == versionRow[r] > 0 \/ archived[r] > 0
OnlyCreationUnaudited == \A q, r \in writers \ Deletions :
    ~Audited(q) /\ ~Audited(r) => q = r

\* A fact that the profile created counts as MANUAL, which ranks as an officer's: it
\* never becomes an onboarding answer, not even one that found no fact when it began.
ManualKept == [][Exists(fact) /\ fact.source = "MANUAL" =>
    fact'.source = "MANUAL" /\ (fact' # fact => fact'.value \notin Answers)]_vars

\* A fact is DOCUMENT_VERIFIED only if a verification that asked for no review or an
\* edit that asked for that status has written it, though edits write back the status
\* they read before.
VerifiedHasGround == fact.status = "DOCUMENT_VERIFIED" =>
    \/ \E r \in accepted \cap Verifications : r \notin reviews
    \/ \E r \in writers \cap Editors : Submitted[r] = "DOCUMENT_VERIFIED"

\* What the fact is now can be traced to who made it so: to the rows its writers left,
\* and to the request that verified it.
\* (PrismaCitizenFactRepository.upsertFact and updateFact, FactVerificationOrchestrator)
FactHasTrail == OnlyCreationUnaudited /\ VerifiedHasGround

\* Concurrent edits never give two profile versions one number.
ProfileVersionsUnique == \A q, r \in Requests :
    q # r /\ profileVersion[q] > 0 => profileVersion[q] # profileVersion[r]

\* The profile says something else than its facts only while a request that changed
\* them is about to update it, after one that never did or did so with a count made
\* before another's change, or because an answer changed them: answers do not update it.
CompletenessTrails == profile.complete # Current(fact) =>
    \/ \E r \in Requests : pc[r] \in {"recalculate", "sync"}
    \/ unsynced # {}
    \/ accepted \cap Answers # {}

\* The profile's numbers and its status follow the facts, as far as requests that
\* overlap and fail half-way let them. (CitizenProfileService.recalculate)
ProfileConsistent == ProfileVersionsUnique /\ CompletenessTrails

\* The requests under way never all wait for rows that others' transactions hold.
UnderWay(r) == pc[r] \notin {"idle", "done"}
Waits(r) ==
    \/ pc[r] \in {"begin", "beginAnswer"} /\ ~KeyFree(r)
    \/ pc[r] \in {"updateFact", "writeAnswer", "overwrite", "softDelete"} /\ ~FactFree
SomeoneGoesOn == (\E r \in Requests : UnderWay(r)) => \E r \in Requests : UnderWay(r) /\ ~Waits(r)

\* What fact-verification/docs/README.md says of its version fields: a verification that
\* writes the fact writes over the version it read, and loses nobody's update.
NoLostUpdate == [][\A r \in Verifications :
    r \notin accepted /\ r \in accepted' => fact.version = local[r].fact.version]_vars

================================================================================

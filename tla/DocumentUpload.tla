---------------------------- MODULE DocumentUpload ----------------------------
(* The upload of documents of one citizen, and their archival:                 *)
(*   document.orchestrator.ts          uploadAndProcessDocument                 *)
(*   document-lifecycle.service.ts     validateTransition                       *)
(*   document-deduplication.service.ts checkDuplicate                           *)
(*   prisma-document.repository.ts     createDocument, updateStatus, ...        *)
(*   document.controller.ts            archiveDocument                          *)
(*                                                                             *)
(* A request is one upload or one archival; its database calls are steps of    *)
(* their own.  A stage of the pipeline is its saving call, the check of the     *)
(* transition and the status it writes.  The pipeline goes from status to       *)
(* status as it expects them, whatever the row says meanwhile.                  *)
(*                                                                             *)
(* Left out: what the stages compute; the alias of a duplicate, since the       *)
(* checksum of a duplicate is refused first; evidence, verification and events, *)
(* which come after the first transition and are never reached.                 *)
EXTENDS Naturals, Sequences

CONSTANTS
    DocumentRequests,   \* uploads and archivals
    Contents            \* what a file may contain

ASSUME DocumentAssumption == Contents # {}

VARIABLES
    documents,      \* the Document rows in the order of their creation
    checksums,      \* DocumentChecksum: the document stored for a content, 0 for none
    documentPc,     \* where each request is
    documentLocal   \* what it remembers: its document and the content it uploads

documentVars == <<documents, checksums, documentPc, documentLocal>>

-------------------------------------------------------------------------------
(* Types *)

DocumentStatus == {"UPLOADED", "STORED", "CLASSIFIED", "QUALITY_CHECKED", "OCR_PROCESSED",
                   "FACTS_EXTRACTED", "VERIFICATION_PENDING", "VERIFIED", "ACTIVE",
                   "SUPERSEDED", "ARCHIVED"}

\* analysed: the number of stages of which the result is stored.
DocumentRow == [content : Contents, status : DocumentStatus, analysed : Nat]

\* The statuses the pipeline goes through, one per stage.
PipelineStatuses == <<"UPLOADED", "CLASSIFIED", "QUALITY_CHECKED", "OCR_PROCESSED",
                      "FACTS_EXTRACTED", "VERIFICATION_PENDING", "ACTIVE">>

DocumentPC == {"idle", "createDocument", "createChecksum", "save", "transition",
               "archive", "done", "failed"}

DocumentLocal == [document : Nat, content : Contents, stage : Nat]

DocumentInit ==
    /\ documents = <<>>
    /\ checksums = [c \in Contents |-> 0]
    /\ documentPc = [r \in DocumentRequests |-> "idle"]
    /\ documentLocal =
         [r \in DocumentRequests |->
            [document |-> 0, content |-> CHOOSE c \in Contents : TRUE, stage |-> 1]]

-------------------------------------------------------------------------------
(* The lifecycle *)

\* allowedTransitions
Successors == [
    UPLOADED             |-> {"STORED", "ARCHIVED"},
    STORED               |-> {"CLASSIFIED", "ARCHIVED"},
    CLASSIFIED           |-> {"QUALITY_CHECKED", "ARCHIVED"},
    QUALITY_CHECKED      |-> {"OCR_PROCESSED", "FACTS_EXTRACTED", "ARCHIVED"},
    OCR_PROCESSED        |-> {"FACTS_EXTRACTED", "ARCHIVED"},
    FACTS_EXTRACTED      |-> {"VERIFICATION_PENDING", "ACTIVE", "ARCHIVED"},
    VERIFICATION_PENDING |-> {"VERIFIED", "ACTIVE", "ARCHIVED"},
    VERIFIED             |-> {"ACTIVE", "SUPERSEDED", "ARCHIVED"},
    ACTIVE               |-> {"SUPERSEDED", "ARCHIVED"},
    SUPERSEDED           |-> {"ARCHIVED"},
    ARCHIVED             |-> {}]

\* The table the pipeline was written for: storing is no step of its own.
AllowedWithoutStored(from, to) ==
    to \in Successors[from] \/ <<from, to>> = <<"UPLOADED", "CLASSIFIED">>

\* validateTransition does not throw.
Allowed(from, to) == to \in Successors[from]

-------------------------------------------------------------------------------
(* Steps of a request *)

DocumentGo(r, from, to) ==
    /\ documentPc[r] = from
    /\ documentPc' = [documentPc EXCEPT ![r] = to]

\* checkDuplicate, whose answer matters only after the checksum is stored, and storeFile.
Upload(r) == \E c \in Contents :
    /\ DocumentGo(r, "idle", "createDocument")
    /\ documentLocal' = [documentLocal EXCEPT ![r].content = c]
    /\ UNCHANGED <<documents, checksums>>

\* createDocument: the row ...
CreateDocumentRow(r) ==
    /\ DocumentGo(r, "createDocument", "createChecksum")
    /\ documents' = Append(documents, [content |-> documentLocal[r].content,
                                       status |-> "UPLOADED", analysed |-> 0])
    /\ documentLocal' = [documentLocal EXCEPT ![r].document = Len(documents) + 1]
    /\ UNCHANGED checksums

\* ... and its checksum, which is unique: a duplicate keeps its row and fails here.
CreateChecksum(r) ==
    LET c == documentLocal[r].content
    IN  /\ DocumentGo(r, "createChecksum", IF checksums[c] = 0 THEN "save" ELSE "failed")
        /\ checksums' = [checksums EXCEPT ![c] = IF @ = 0 THEN documentLocal[r].document ELSE @]
        /\ UNCHANGED <<documents, documentLocal>>

\* saveClassification, saveQuality, ...: the result of the stage.
SaveStage(r) ==
    /\ DocumentGo(r, "save", "transition")
    /\ documents' = [documents EXCEPT ![documentLocal[r].document].analysed = @ + 1]
    /\ UNCHANGED <<checksums, documentLocal>>

\* validateTransition over the statuses the pipeline expects, and updateStatus by id.
Transition(r) ==
    LET stage == documentLocal[r].stage
        from  == PipelineStatuses[stage]
        to    == PipelineStatuses[stage + 1]
        last  == stage + 1 = Len(PipelineStatuses)
    IN  /\ DocumentGo(r, "transition",
                      IF ~Allowed(from, to) THEN "failed" ELSE IF last THEN "done" ELSE "save")
        /\ IF Allowed(from, to)
           THEN /\ documents' = [documents EXCEPT ![documentLocal[r].document].status = to]
                /\ documentLocal' = [documentLocal EXCEPT ![r].stage = @ + 1]
           ELSE UNCHANGED <<documents, documentLocal>>
        /\ UNCHANGED checksums

\* archiveDocument: the row is read and its transition validated ...
CheckArchive(r) == \E d \in DOMAIN documents :
    /\ DocumentGo(r, "idle", IF Allowed(documents[d].status, "ARCHIVED") THEN "archive" ELSE "failed")
    /\ documentLocal' = [documentLocal EXCEPT ![r].document = d]
    /\ UNCHANGED <<documents, checksums>>

\* ... and the status written.
Archive(r) ==
    /\ DocumentGo(r, "archive", "done")
    /\ documents' = [documents EXCEPT ![documentLocal[r].document].status = "ARCHIVED"]
    /\ UNCHANGED <<checksums, documentLocal>>

\* A call is rejected, or the process dies, between two calls.
FailDocument(r) ==
    /\ documentPc[r] \notin {"idle", "done", "failed"}
    /\ documentPc' = [documentPc EXCEPT ![r] = "failed"]
    /\ UNCHANGED <<documents, checksums, documentLocal>>

DocumentStep(r) ==
    \/ Upload(r) \/ CreateDocumentRow(r) \/ CreateChecksum(r)
    \/ SaveStage(r) \/ Transition(r)
    \/ CheckArchive(r) \/ Archive(r)
    \/ FailDocument(r)

DocumentNext == \E r \in DocumentRequests : DocumentStep(r)

DocumentSpec == DocumentInit /\ [][DocumentNext]_documentVars

-------------------------------------------------------------------------------
(* Properties *)

DocumentTypeOK ==
    /\ documents \in Seq(DocumentRow)
    /\ checksums \in [Contents -> Nat]
    /\ documentPc \in [DocumentRequests -> DocumentPC]
    /\ documentLocal \in [DocumentRequests -> DocumentLocal]

\* An archived document stays archived, although the pipeline writes statuses by id
\* without looking at the row; and of several uploads of one content, only the document
\* the checksum names gets anything analysed, whatever order their calls come in.
ArchivedIsFinal == [][
    \A d \in DOMAIN documents :
        /\ documents[d].status = "ARCHIVED" => documents'[d].status = "ARCHIVED"
        /\ documents'[d].analysed > 0 => checksums[documents[d].content] = d
    ]_documentVars
===============================================================================

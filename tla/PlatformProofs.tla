---------------------------- MODULE PlatformProofs ----------------------------
(* What works on a citizen's case behind the scenes: the documents, the records of *)
(* the runs of a re-evaluation and the rules.  The small instance of MCPlatform     *)
(* keeps the types of all its components.                                           *)
EXTENDS FiniteSetTheorems, SequenceTheorems, MCPlatform, RecommendationProofs,
        KnowledgeProofs, TLAPS

-------------------------------------------------------------------------------
(* The upload of a document *)

\* No upload comes further than its first stage: the transition the pipeline expects
\* there is not one the lifecycle allows.  The checksum of a content is stored by the
\* upload whose document it names, and only such a document is analysed.
UploadInv(r) ==
    LET local == documentLocal[r]
    IN  /\ local.stage = 1
        /\ documentPc[r] \in {"createChecksum", "save", "transition", "archive"} =>
              local.document \in DOMAIN documents
        /\ documentPc[r] \in {"createChecksum", "save", "transition"} =>
              documents[local.document].content = local.content
        /\ documentPc[r] \in {"save", "transition"} => checksums[local.content] = local.document

AnalysedInv == \A d \in DOMAIN documents :
    documents[d].analysed > 0 => checksums[documents[d].content] = d

DocumentInv == DocumentTypeOK /\ AnalysedInv /\ \A r \in DocumentRequests : UploadInv(r)

\* Rows are only added and keep their content; the checksum of a content is stored once.
DocumentsGrow ==
    /\ DOMAIN documents \subseteq DOMAIN documents'
    /\ \A d \in DOMAIN documents : documents'[d].content = documents[d].content
    /\ \A c \in Contents : checksums[c] # 0 => checksums'[c] = checksums[c]

-------------------------------------------------------------------------------
LEMMA DocumentRowTypes ==
    ASSUME DocumentTypeOK
    PROVE  /\ Len(documents) \in Nat /\ DOMAIN documents = 1..Len(documents)
           /\ \A d \in DOMAIN documents : /\ documents[d] \in DocumentRow
                                          /\ documents[d].content \in Contents
                                          /\ documents[d].analysed \in Nat
           /\ \A r \in DocumentRequests : /\ documentLocal[r] \in DocumentLocal
                                          /\ documentLocal[r].document \in Nat
                                          /\ documentLocal[r].content \in Contents
<1>1. Len(documents) \in Nat /\ DOMAIN documents = 1..Len(documents)
  BY DEF DocumentTypeOK
<1>2. \A d \in DOMAIN documents : documents[d] \in DocumentRow
  BY DEF DocumentTypeOK
<1>3. \A r \in DocumentRequests : documentLocal[r] \in DocumentLocal
  BY DEF DocumentTypeOK
<1> QED BY <1>1, <1>2, <1>3 DEF DocumentRow, DocumentLocal

\* One row is overwritten.
LEMMA DocumentWritten ==
    ASSUME DocumentTypeOK, NEW d \in DOMAIN documents, NEW row \in DocumentRow,
           documents' = [documents EXCEPT ![d] = row]
    PROVE  /\ documents' \in Seq(DocumentRow) /\ DOMAIN documents' = DOMAIN documents
           /\ documents'[d] = row
           /\ \A e \in DOMAIN documents : e # d => documents'[e] = documents[e]
BY ExceptSeq DEF DocumentTypeOK

\* A request moves alone.
LEMMA DocumentMoves ==
    ASSUME DocumentTypeOK, NEW r \in DocumentRequests, NEW to \in DocumentPC,
           documentPc' = [documentPc EXCEPT ![r] = to]
    PROVE  /\ documentPc' \in [DocumentRequests -> DocumentPC]
           /\ documentPc'[r] = to
           /\ \A q \in DocumentRequests : q # r => documentPc'[q] = documentPc[q]
BY DEF DocumentTypeOK

\* What is known of a request stays true while others work.
LEMMA UploadStays ==
    ASSUME DocumentTypeOK, DocumentsGrow, NEW q \in DocumentRequests, UploadInv(q),
           documentPc'[q] = documentPc[q], documentLocal'[q] = documentLocal[q]
    PROVE  UploadInv(q)'
<1>1. documentLocal[q].content \in Contents /\ Len(documents) \in Nat
      /\ DOMAIN documents = 1..Len(documents)
  BY DocumentRowTypes
<1> QED BY <1>1 DEF UploadInv, DocumentsGrow

\* Without the step before it, the first stage has no successor.
LEMMA PipelineStops == ~Allowed(PipelineStatuses[1], PipelineStatuses[1 + 1])
BY DEF Allowed, Successors, PipelineStatuses

LEMMA DocumentInvInit == DocumentInit => DocumentInv
<1> SUFFICES ASSUME DocumentInit PROVE DocumentInv
  OBVIOUS
<1>1. (CHOOSE c \in Contents : TRUE) \in Contents
  BY DocumentAssumption
<1>2. DocumentTypeOK
  BY <1>1 DEF DocumentInit, DocumentTypeOK, DocumentPC, DocumentLocal
<1> QED BY <1>2 DEF DocumentInit, DocumentInv, AnalysedInv, UploadInv

\* What a step of a request leaves of the rows, and that it takes no status of an archived
\* document back.
DocumentEffect ==
    /\ DocumentInv' /\ DocumentsGrow
    /\ \A d \in DOMAIN documents :
         documents[d].status = "ARCHIVED" => documents'[d].status = "ARCHIVED"
    /\ documents' = documents \/ checksums' = checksums

LEMMA CreateDocumentRowStep ==
    ASSUME DocumentInv, NEW r \in DocumentRequests, CreateDocumentRow(r)
    PROVE  DocumentEffect
<1>1. DocumentTypeOK /\ UploadInv(r) /\ AnalysedInv
  BY DEF DocumentInv
<1> DEFINE row == [content |-> documentLocal[r].content, status |-> "UPLOADED", analysed |-> 0]
           mine == [documentLocal[r] EXCEPT !.document = Len(documents) + 1]
<1>2. row \in DocumentRow /\ row.content = documentLocal[r].content /\ row.analysed = 0
  BY <1>1, DocumentRowTypes DEF DocumentRow, DocumentStatus
<1>3. /\ mine \in DocumentLocal /\ mine.document = Len(documents) + 1
      /\ mine.content = documentLocal[r].content /\ mine.stage = documentLocal[r].stage
  BY <1>1, DocumentRowTypes DEF DocumentLocal
<1>4. /\ documents' = Append(documents, row) /\ documentPc[r] = "createDocument"
      /\ documentLocal' = [documentLocal EXCEPT ![r] = mine] /\ checksums' = checksums
      /\ documentPc' = [documentPc EXCEPT ![r] = "createChecksum"]
  BY <1>1 DEF CreateDocumentRow, DocumentGo, DocumentTypeOK
<1> HIDE DEF row, mine
<1>5. /\ documents' \in Seq(DocumentRow) /\ DOMAIN documents' = 1..(Len(documents) + 1)
      /\ \A d \in 1..Len(documents) : documents'[d] = documents[d]
      /\ documents'[Len(documents) + 1] = row
      /\ Len(documents) \in Nat /\ DOMAIN documents = 1..Len(documents)
  BY <1>1, <1>2, <1>4, AppendProperties, DocumentRowTypes DEF DocumentTypeOK
<1>6. /\ documentPc' \in [DocumentRequests -> DocumentPC] /\ documentPc'[r] = "createChecksum"
      /\ \A q \in DocumentRequests : q # r => documentPc'[q] = documentPc[q]
  BY <1>1, <1>4, DocumentMoves DEF DocumentPC
<1>7. /\ documentLocal' \in [DocumentRequests -> DocumentLocal] /\ documentLocal'[r] = mine
      /\ \A q \in DocumentRequests : q # r => documentLocal'[q] = documentLocal[q]
  BY <1>1, <1>3, <1>4 DEF DocumentTypeOK
<1>8. DocumentTypeOK' /\ DocumentsGrow
  BY <1>1, <1>4, <1>5, <1>6, <1>7 DEF DocumentTypeOK, DocumentsGrow
<1>9. AnalysedInv'
  BY <1>1, <1>2, <1>4, <1>5 DEF AnalysedInv
<1>10. UploadInv(r)'
  BY <1>1, <1>2, <1>3, <1>5, <1>6, <1>7 DEF UploadInv
<1>11. \A q \in DocumentRequests : UploadInv(q)'
  BY <1>1, <1>6, <1>7, <1>8, <1>10, UploadStays DEF DocumentInv
<1> QED BY <1>4, <1>5, <1>8, <1>9, <1>11 DEF DocumentEffect, DocumentInv

LEMMA CreateChecksumStep ==
    ASSUME DocumentInv, NEW r \in DocumentRequests, CreateChecksum(r)
    PROVE  DocumentEffect
<1>1. DocumentTypeOK /\ UploadInv(r) /\ AnalysedInv /\ documentPc[r] = "createChecksum"
  BY DEF DocumentInv, CreateChecksum, DocumentGo
<1>2. PICK c \in Contents : c = documentLocal[r].content
  BY <1>1, DocumentRowTypes
<1>3. PICK n \in Nat : n = documentLocal[r].document
  BY <1>1, DocumentRowTypes
<1>4. /\ n \in DOMAIN documents /\ n # 0
      /\ documentPc' = [documentPc EXCEPT ![r] = IF checksums[c] = 0 THEN "save" ELSE "failed"]
      /\ checksums' = [checksums EXCEPT ![c] = IF checksums[c] = 0 THEN n ELSE checksums[c]]
      /\ documents' = documents /\ documentLocal' = documentLocal
  <2>1. n \in DOMAIN documents /\ n # 0
    BY <1>1, <1>3, DocumentRowTypes DEF UploadInv
  <2> QED BY <1>1, <1>2, <1>3, <2>1 DEF CreateChecksum, DocumentGo, DocumentTypeOK
<1>5. /\ checksums' \in [Contents -> Nat]
      /\ \A k \in Contents : checksums[k] # 0 => checksums'[k] = checksums[k]
      /\ checksums[c] = 0 => checksums'[c] = n
  BY <1>1, <1>3, <1>4 DEF DocumentTypeOK
<1>6. /\ documentPc' \in [DocumentRequests -> DocumentPC]
      /\ documentPc'[r] = IF checksums[c] = 0 THEN "save" ELSE "failed"
      /\ \A q \in DocumentRequests : q # r => documentPc'[q] = documentPc[q]
  BY <1>1, <1>4, DocumentMoves DEF DocumentPC
<1>7. DocumentTypeOK' /\ DocumentsGrow
  BY <1>1, <1>4, <1>5, <1>6 DEF DocumentTypeOK, DocumentsGrow
<1>8. AnalysedInv'
  <2> SUFFICES ASSUME NEW d \in DOMAIN documents, documents[d].analysed > 0
               PROVE  checksums'[documents[d].content] = d
    BY <1>4 DEF AnalysedInv
  <2>1. checksums[documents[d].content] = d /\ d # 0 /\ documents[d].content \in Contents
    BY <1>1, DocumentRowTypes DEF AnalysedInv
  <2> QED BY <1>5, <2>1
<1>9. UploadInv(r)'
  BY <1>1, <1>2, <1>3, <1>4, <1>5, <1>6 DEF UploadInv
<1>10. \A q \in DocumentRequests : UploadInv(q)'
  BY <1>1, <1>4, <1>6, <1>7, <1>9, UploadStays DEF DocumentInv
<1> QED BY <1>4, <1>7, <1>8, <1>10 DEF DocumentEffect, DocumentInv

LEMMA SaveStageStep ==
    ASSUME DocumentInv, NEW r \in DocumentRequests, SaveStage(r)
    PROVE  DocumentEffect
<1>1. DocumentTypeOK /\ UploadInv(r) /\ AnalysedInv /\ documentPc[r] = "save"
  BY DEF DocumentInv, SaveStage, DocumentGo
<1>2. PICK n \in DOMAIN documents : n = documentLocal[r].document
  BY <1>1 DEF UploadInv
<1> DEFINE row == [documents[n] EXCEPT !.analysed = @ + 1]
<1>3. /\ row \in DocumentRow /\ row.content = documents[n].content
      /\ row.status = documents[n].status
  BY <1>1, DocumentRowTypes DEF DocumentRow
<1>4. /\ documents' = [documents EXCEPT ![n] = row]
      /\ documentPc' = [documentPc EXCEPT ![r] = "transition"]
      /\ checksums' = checksums /\ documentLocal' = documentLocal
  BY <1>1, <1>2 DEF SaveStage, DocumentGo
<1>5. checksums[documents[n].content] = n
  BY <1>1, <1>2 DEF UploadInv
<1> HIDE DEF row
<1>6. /\ documents' \in Seq(DocumentRow) /\ DOMAIN documents' = DOMAIN documents
      /\ documents'[n] = row /\ \A e \in DOMAIN documents : e # n => documents'[e] = documents[e]
  BY <1>1, <1>3, <1>4, DocumentWritten
<1>7. /\ documentPc' \in [DocumentRequests -> DocumentPC] /\ documentPc'[r] = "transition"
      /\ \A q \in DocumentRequests : q # r => documentPc'[q] = documentPc[q]
  BY <1>1, <1>4, DocumentMoves DEF DocumentPC
<1>8. DocumentTypeOK' /\ DocumentsGrow
  BY <1>1, <1>3, <1>4, <1>6, <1>7 DEF DocumentTypeOK, DocumentsGrow
<1>9. AnalysedInv'
  BY <1>1, <1>3, <1>4, <1>5, <1>6 DEF AnalysedInv
<1>10. UploadInv(r)'
  BY <1>1, <1>2, <1>3, <1>4, <1>6, <1>7 DEF UploadInv
<1>11. \A q \in DocumentRequests : UploadInv(q)'
  BY <1>1, <1>4, <1>7, <1>8, <1>10, UploadStays DEF DocumentInv
<1>12. \A d \in DOMAIN documents :
         documents[d].status = "ARCHIVED" => documents'[d].status = "ARCHIVED"
  BY <1>3, <1>6
<1> QED BY <1>4, <1>8, <1>9, <1>11, <1>12 DEF DocumentEffect, DocumentInv

LEMMA ArchiveStep ==
    ASSUME DocumentInv, NEW r \in DocumentRequests, Archive(r)
    PROVE  DocumentEffect
<1>1. DocumentTypeOK /\ UploadInv(r) /\ AnalysedInv /\ documentPc[r] = "archive"
  BY DEF DocumentInv, Archive, DocumentGo
<1>2. PICK n \in DOMAIN documents : n = documentLocal[r].document
  BY <1>1 DEF UploadInv
<1> DEFINE row == [documents[n] EXCEPT !.status = "ARCHIVED"]
<1>3. /\ row \in DocumentRow /\ row.content = documents[n].content
      /\ row.analysed = documents[n].analysed /\ row.status = "ARCHIVED"
  BY <1>1, DocumentRowTypes DEF DocumentRow, DocumentStatus
<1>4. /\ documents' = [documents EXCEPT ![n] = row]
      /\ documentPc' = [documentPc EXCEPT ![r] = "done"]
      /\ checksums' = checksums /\ documentLocal' = documentLocal
  BY <1>1, <1>2 DEF Archive, DocumentGo
<1> HIDE DEF row
<1>6. /\ documents' \in Seq(DocumentRow) /\ DOMAIN documents' = DOMAIN documents
      /\ documents'[n] = row /\ \A e \in DOMAIN documents : e # n => documents'[e] = documents[e]
  BY <1>1, <1>3, <1>4, DocumentWritten
<1>7. /\ documentPc' \in [DocumentRequests -> DocumentPC] /\ documentPc'[r] = "done"
      /\ \A q \in DocumentRequests : q # r => documentPc'[q] = documentPc[q]
  BY <1>1, <1>4, DocumentMoves DEF DocumentPC
<1>8. DocumentTypeOK' /\ DocumentsGrow
  BY <1>1, <1>3, <1>4, <1>6, <1>7 DEF DocumentTypeOK, DocumentsGrow
<1>9. AnalysedInv'
  BY <1>1, <1>3, <1>4, <1>6 DEF AnalysedInv
<1>10. UploadInv(r)'
  BY <1>1, <1>4, <1>7 DEF UploadInv
<1>11. \A q \in DocumentRequests : UploadInv(q)'
  BY <1>1, <1>4, <1>7, <1>8, <1>10, UploadStays DEF DocumentInv
<1>12. \A d \in DOMAIN documents :
         documents[d].status = "ARCHIVED" => documents'[d].status = "ARCHIVED"
  BY <1>3, <1>6
<1> QED BY <1>4, <1>8, <1>9, <1>11, <1>12 DEF DocumentEffect, DocumentInv

\* Steps that leave the rows alone.
LEMMA RowsAloneStep ==
    ASSUME DocumentInv, NEW r \in DocumentRequests,
           \/ Upload(r) \/ Transition(r) \/ CheckArchive(r) \/ FailDocument(r)
    PROVE  DocumentEffect
<1>1. DocumentTypeOK /\ UploadInv(r) /\ AnalysedInv
  BY DEF DocumentInv
<1> DEFINE Alone(to, mine) ==
             /\ documents' = documents /\ checksums' = checksums
             /\ documentPc' = [documentPc EXCEPT ![r] = to]
             /\ documentLocal' = [documentLocal EXCEPT ![r] = mine]
             /\ mine.stage = 1
             /\ to \in {"createDocument", "archive", "failed"}
             /\ to = "archive" => mine.document \in DOMAIN documents
<1>2. PICK to \in DocumentPC, mine \in DocumentLocal : Alone(to, mine)
  <2>0. documentLocal[r] \in DocumentLocal /\ documentLocal[r].stage = 1
        /\ Len(documents) \in Nat /\ DOMAIN documents = 1..Len(documents)
    BY <1>1, DocumentRowTypes DEF UploadInv
  <2>1. ASSUME NEW c \in Contents, DocumentGo(r, "idle", "createDocument"),
               documentLocal' = [documentLocal EXCEPT ![r].content = c],
               UNCHANGED <<documents, checksums>>
        PROVE  \E to \in DocumentPC, mine \in DocumentLocal : Alone(to, mine)
    <3> DEFINE mine == [documentLocal[r] EXCEPT !.content = c]
    <3>1. /\ mine \in DocumentLocal /\ mine.stage = 1
          /\ documentLocal' = [documentLocal EXCEPT ![r] = mine]
      BY <2>0, <2>1 DEF DocumentLocal
    <3>2. "createDocument" \in DocumentPC
      BY DEF DocumentPC
    <3> HIDE DEF mine
    <3>3. Alone("createDocument", mine)
      BY <2>1, <3>1 DEF DocumentGo
    <3> HIDE DEF Alone
    <3> QED BY <3>1, <3>2, <3>3
  <2>2. ASSUME UNCHANGED <<documents, checksums, documentLocal>>,
               documentPc' = [documentPc EXCEPT ![r] = "failed"]
        PROVE  \E to \in DocumentPC, mine \in DocumentLocal : Alone(to, mine)
    <3>1. "failed" \in DocumentPC
      BY DEF DocumentPC
    <3>2. documentLocal' = [documentLocal EXCEPT ![r] = documentLocal[r]]
      BY <1>1, <2>2 DEF DocumentTypeOK
    <3>3. Alone("failed", documentLocal[r])
      BY <2>0, <2>2, <3>2
    <3> HIDE DEF Alone
    <3> QED BY <2>0, <3>1, <3>3
  <2>3. ASSUME NEW d \in DOMAIN documents, NEW to \in {"archive", "failed"},
               DocumentGo(r, "idle", to),
               documentLocal' = [documentLocal EXCEPT ![r].document = d],
               UNCHANGED <<documents, checksums>>
        PROVE  \E too \in DocumentPC, mine \in DocumentLocal : Alone(too, mine)
    <3> DEFINE mine == [documentLocal[r] EXCEPT !.document = d]
    <3>1. /\ mine \in DocumentLocal /\ mine.stage = 1 /\ mine.document = d
          /\ documentLocal' = [documentLocal EXCEPT ![r] = mine]
      BY <2>0, <2>3 DEF DocumentLocal
    <3>2. to \in DocumentPC
      BY DEF DocumentPC
    <3> HIDE DEF mine
    <3>3. Alone(to, mine)
      BY <2>3, <3>1 DEF DocumentGo
    <3> HIDE DEF Alone
    <3> QED BY <3>1, <3>2, <3>3
  <2> HIDE DEF Alone
  <2>4. CASE Upload(r)
    BY <2>1, <2>4 DEF Upload
  <2>5. CASE Transition(r)
    <3>1. UNCHANGED <<documents, checksums, documentLocal>>
          /\ documentPc' = [documentPc EXCEPT ![r] = "failed"]
      BY <2>0, <2>5, PipelineStops DEF Transition, DocumentGo
    <3> QED BY <2>2, <3>1
  <2>6. CASE CheckArchive(r)
    BY <2>3, <2>6 DEF CheckArchive
  <2>7. CASE FailDocument(r)
    BY <2>2, <2>7 DEF FailDocument
  <2> QED BY <2>4, <2>5, <2>6, <2>7
<1>3. /\ documentPc' \in [DocumentRequests -> DocumentPC] /\ documentPc'[r] = to
      /\ \A q \in DocumentRequests : q # r => documentPc'[q] = documentPc[q]
  BY <1>1, <1>2, DocumentMoves
<1>4. /\ documentLocal' \in [DocumentRequests -> DocumentLocal] /\ documentLocal'[r] = mine
      /\ \A q \in DocumentRequests : q # r => documentLocal'[q] = documentLocal[q]
  BY <1>1, <1>2 DEF DocumentTypeOK
<1>5. DocumentTypeOK' /\ DocumentsGrow /\ AnalysedInv'
  BY <1>1, <1>2, <1>3, <1>4 DEF DocumentTypeOK, DocumentsGrow, AnalysedInv
<1>6. UploadInv(r)'
  BY <1>2, <1>3, <1>4 DEF UploadInv
<1>7. \A q \in DocumentRequests : UploadInv(q)'
  BY <1>1, <1>3, <1>4, <1>5, <1>6, UploadStays DEF DocumentInv
<1> QED BY <1>2, <1>5, <1>7 DEF DocumentEffect, DocumentInv

LEMMA DocumentInvStep ==
    ASSUME DocumentInv, [DocumentNext]_documentVars
    PROVE  DocumentEffect
<1>1. ASSUME NEW r \in DocumentRequests, DocumentStep(r) PROVE DocumentEffect
  BY <1>1, CreateDocumentRowStep, CreateChecksumStep, SaveStageStep, ArchiveStep, RowsAloneStep
     DEF DocumentStep
<1>2. CASE UNCHANGED documentVars
  BY <1>2, DocumentRowTypes
     DEF documentVars, DocumentEffect, DocumentsGrow, DocumentInv, DocumentTypeOK, AnalysedInv,
         UploadInv
<1> QED BY <1>1, <1>2 DEF DocumentNext

\* The inductive invariant: checksums, documents and what the requests know of them agree
\* however many uploads and archivals overlap.
THEOREM DocumentInvariance == DocumentSpec => []DocumentInv
<1>1. DocumentInv /\ [DocumentNext]_documentVars => DocumentInv'
  BY DocumentInvStep DEF DocumentEffect
<1> QED BY <1>1, DocumentInvInit, PTL DEF DocumentSpec

\* The types of the documents, checksums and requests.
THEOREM DocumentTypeCorrectness == DocumentSpec => []DocumentTypeOK
<1>1. DocumentInv => DocumentTypeOK
  BY DEF DocumentInv
<1> QED BY <1>1, DocumentInvariance, PTL

\* No step takes the archival of a document back, and whatever gets a stage's result is the
\* document its content's checksum names.
THEOREM ArchivalIsFinal == DocumentSpec => ArchivedIsFinal
<1> DEFINE Final == \A d \in DOMAIN documents :
             /\ documents[d].status = "ARCHIVED" => documents'[d].status = "ARCHIVED"
             /\ documents'[d].analysed > 0 => checksums[documents[d].content] = d
<1>1. DocumentInv /\ [DocumentNext]_documentVars => [Final]_documentVars
  <2> SUFFICES ASSUME DocumentInv, DocumentNext, NEW d \in DOMAIN documents
               PROVE  /\ documents[d].status = "ARCHIVED" => documents'[d].status = "ARCHIVED"
                      /\ documents'[d].analysed > 0 => checksums[documents[d].content] = d
    OBVIOUS
  <2>1. DocumentEffect
    BY DocumentInvStep
  <2>2. ASSUME documents'[d].analysed > 0
        PROVE  checksums[documents[d].content] = d
    <3>1. CASE documents' = documents
      BY <2>2, <3>1 DEF DocumentInv, AnalysedInv
    <3>2. CASE checksums' = checksums
      BY <2>1, <2>2, <3>2 DEF DocumentEffect, DocumentInv, AnalysedInv, DocumentsGrow
    <3> QED BY <2>1, <3>1, <3>2 DEF DocumentEffect
  <2> QED BY <2>1, <2>2 DEF DocumentEffect
<1> QED BY <1>1, DocumentInvariance, PTL DEF DocumentSpec, ArchivedIsFinal

-------------------------------------------------------------------------------
(* The records of the runs: what they say changed did change *)

\* The records of one step of one run.
RowsOf(r, target) == {c \in captured : c.run = r /\ c.target = target}

\* The step has not ended, or not begun.
Unended(r, j) == j > runLocal[r].step \/ (j = runLocal[r].step /\ runPc[r] # "done")
Unbegun(r, j) == j > runLocal[r].step \/ (j = runLocal[r].step /\ runPc[r] = "capture")

\* What the engine of the step has come to: a state is created after the one that was
\* captured, and an evaluation that is through has created one.
EngineInv(r) ==
    LET local == runLocal[r]
    IN  /\ local.step = 1 =>
              /\ evalPc[r] \in {"idle", "storeTrace", "storeSnapshot"} => local.after = 0
              /\ evalPc[r] \in {"report", "done"} => local.after # 0
              /\ local.after # 0 => local.before < local.after /\ local.after <= Len(snapshots)
        /\ local.step = 2 => \A g \in local.generation :
              /\ local.after = recLocal[g].portfolio
              /\ recPc[g] \in {"storeSnapshot", "report", "done"} => local.before < local.after
        /\ local.step = 3 /\ local.after # 0 =>
              local.before < local.after /\ local.after <= Len(readiness)

RunInv(r) ==
    LET local == runLocal[r]
    IN  /\ \A j \in 1..3 : Unended(r, j) => outcome[r][Order[j]] = "PENDING"
        /\ \A j \in 1..3 : Unbegun(r, j) => RowsOf(r, Order[j]) = {}
        /\ runPc[r] = "engine" =>
              /\ RowsOf(r, Target(r)) = {StateSnapshot(r, "BEFORE", local.before)}
              /\ local.before <= LatestState(Target(r))
              /\ EngineInv(r)
        /\ local.step = 1 /\ runPc[r] = "capture" => evalPc[r] = "idle" /\ local.after = 0
        /\ Unbegun(r, 2) \/ local.step = 1 => local.generation = {}
        /\ \A g \in local.generation : recPc[g] # "idle"

\* No two runs call the engine under one name.
GenerationsApart == \A q, r \in Runs :
    q # r => runLocal[q].generation \cap runLocal[r].generation = {}

\* A difference says what is said of the two states it names.
DiffTells(d) ==
    /\ d.before < d.after
    /\ d.target = "ELIGIBILITY" =>
          /\ d.before <= Len(snapshots) /\ d.after <= Len(snapshots)
          /\ d.material <=> StatusIn(d.before) # StatusIn(d.after)
    /\ d.target = "JOURNEY" =>
          /\ d.before <= Len(readiness) /\ d.after <= Len(readiness)
          /\ d.material <=> ReadinessIn(d.before) # ReadinessIn(d.after)

DiffInv == \A d \in diffs : DiffTells(d)

\* A step that succeeded has its records and its difference.
Recorded(r, target) == \E d \in diffs :
    /\ d.run = r /\ d.target = target /\ d.before < d.after
    /\ RowsOf(r, target) =
         {[run |-> r, target |-> target, type |-> "BEFORE", state |-> d.before],
          [run |-> r, target |-> target, type |-> "AFTER", state |-> d.after]}

SuccessInv == \A r \in Runs, target \in Targets :
    outcome[r][target] = "SUCCEEDED" => Recorded(r, target)

\* An eligibility is reported, in somebody's hands or that of a step that failed.
Accounted(state) ==
    \/ \E d \in diffs : d.target = "ELIGIBILITY" /\ d.after = state
    \/ \E r \in Runs : \/ runLocal[r].after = state /\ Target(r) = "ELIGIBILITY"
                       \/ outcome[r]["ELIGIBILITY"] = "FAILED"

StatesInv == \A state \in 1..Len(snapshots) : Accounted(state)

\* Whoever is told of an activation is told of the row, which is never replaced.
ActivationInv == \A o \in Officers :
    officerPc[o] = "answered" => told[o] = activation /\ activation # Nobody

RunsInv ==
    /\ DecisionInv /\ RecordsTypeOK
    /\ \A r \in Runs : RunInv(r)
    /\ GenerationsApart /\ DiffInv /\ SuccessInv /\ StatesInv

RecordsInv == RunsInv /\ ActivationInv

-------------------------------------------------------------------------------
(* The order of the steps, and types *)

LEMMA OrderFacts ==
    /\ DOMAIN Order = 1..3 /\ Len(Order) = 3
    /\ Order[1] = "ELIGIBILITY" /\ Order[2] = "RECOMMENDATION" /\ Order[3] = "JOURNEY"
    /\ Targets = {"ELIGIBILITY", "RECOMMENDATION", "JOURNEY"}
<1>1. /\ DOMAIN Order = 1..3 /\ Len(Order) = 3
      /\ Order[1] = "ELIGIBILITY" /\ Order[2] = "RECOMMENDATION" /\ Order[3] = "JOURNEY"
  BY DEF Order
<1>2. \A i : i \in 1..3 <=> i = 1 \/ i = 2 \/ i = 3
  OBVIOUS
<1>3. Targets = {"ELIGIBILITY", "RECOMMENDATION", "JOURNEY"}
  <2>1. Targets = {Order[i] : i \in 1..3}
    BY <1>1 DEF Targets
  <2> QED BY <1>1, <1>2, <2>1
<1> QED BY <1>1, <1>3

LEMMA RunTypes ==
    ASSUME DecisionInv, RecordsTypeOK
    PROVE  /\ Len(snapshots) \in Nat /\ Len(portfolios) \in Nat /\ Len(readiness) \in Nat
           /\ DOMAIN snapshots = 1..Len(snapshots) /\ DOMAIN readiness = 1..Len(readiness)
           /\ \A i \in 1..Len(readiness) : readiness[i] \in Nat
           /\ \A g \in Generations : recLocal[g].portfolio \in Nat
           /\ \A r \in Runs : /\ r \in Evaluations
                              /\ runLocal[r] \in RunLocal /\ runLocal[r].step \in 1..3
                              /\ runLocal[r].before \in Nat /\ runLocal[r].after \in Nat
                              /\ runLocal[r].score \in Nat
                              /\ runLocal[r].generation \subseteq Generations
<1>1. Len(snapshots) \in Nat /\ DOMAIN snapshots = 1..Len(snapshots)
  BY EligibilityTypes DEF DecisionInv, EligibilityInv
<1>2. Len(portfolios) \in Nat /\ \A g \in Generations : recLocal[g].portfolio \in Nat
  BY RecommendationTypes DEF DecisionInv, RecommendationInv
<1>3. /\ Len(readiness) \in Nat /\ DOMAIN readiness = 1..Len(readiness)
      /\ \A i \in 1..Len(readiness) : readiness[i] \in Nat
  BY DEF RecordsTypeOK
<1>4. \A r \in Runs : runLocal[r] \in RunLocal /\ r \in Evaluations
  BY RecordsAssumption DEF RecordsTypeOK
<1> QED BY <1>1, <1>2, <1>3, <1>4, OrderFacts DEF RunLocal

LEMMA TargetFacts ==
    ASSUME DecisionInv, RecordsTypeOK, NEW r \in Runs
    PROVE  /\ Target(r) \in Targets /\ LatestState(Target(r)) \in Nat
           /\ Target(r) = Order[runLocal[r].step]
           /\ runLocal[r].step = 1 => /\ Target(r) = "ELIGIBILITY"
                                      /\ LatestState(Target(r)) = Len(snapshots)
           /\ runLocal[r].step = 2 => /\ Target(r) = "RECOMMENDATION"
                                      /\ LatestState(Target(r)) = Len(portfolios)
           /\ runLocal[r].step = 3 => /\ Target(r) = "JOURNEY"
                                      /\ LatestState(Target(r)) = Len(readiness)
<1>1. runLocal[r].step \in 1..3
  BY RunTypes
<1>2. runLocal[r].step = 1 \/ runLocal[r].step = 2 \/ runLocal[r].step = 3
  BY <1>1
<1> QED BY <1>2, RunTypes, OrderFacts DEF Target, LatestState, LatestSnapshot

\* What is known or not adds at least one.
LEMMA ReadinessType == Readiness \in Nat /\ Readiness # 0
<1>1. {key \in AccountKeys : Known(key)} \subseteq AccountKeys
  OBVIOUS
<1> QED BY <1>1, FS_Subset, FS_CardinalityType, RecordsAssumption DEF Readiness

LEMMA RunWritten ==
    ASSUME RecordsTypeOK, NEW r \in Runs, NEW x \in RunLocal,
           runLocal' = [runLocal EXCEPT ![r] = x]
    PROVE  /\ runLocal' \in [Runs -> RunLocal]
           /\ runLocal'[r] = x
           /\ \A q \in Runs : q # r => runLocal'[q] = runLocal[q]
BY DEF RecordsTypeOK

LEMMA RunMoved ==
    ASSUME RecordsTypeOK, NEW r \in Runs, NEW to \in RunPC, runPc' = [runPc EXCEPT ![r] = to]
    PROVE  /\ runPc' \in [Runs -> RunPC] /\ runPc'[r] = to
           /\ \A q \in Runs : q # r => runPc'[q] = runPc[q]
BY DEF RecordsTypeOK

-------------------------------------------------------------------------------
(* States are only added, and a run disturbs no other *)

\* The states there were are there and say what they said.
StatesGrow ==
    /\ SnapshotsGrow
    /\ Len(portfolios) <= Len(portfolios')
    /\ Len(readiness) <= Len(readiness') /\ Len(readiness') \in Nat
    /\ \A i \in 1..Len(readiness) : readiness'[i] = readiness[i]
    /\ diffs \subseteq diffs'

\* A step that is not one of the run q.
Untouched(q) ==
    /\ runPc'[q] = runPc[q] /\ runLocal'[q] = runLocal[q] /\ outcome'[q] = outcome[q]
    /\ evalPc'[q] = evalPc[q]
    /\ \A g \in runLocal[q].generation : recPc'[g] = recPc[g] /\ recLocal'[g] = recLocal[g]
    /\ \A target \in Targets : RowsOf(q, target)' = RowsOf(q, target)

LEMMA UntouchedKeeps ==
    ASSUME DecisionInv, RecordsTypeOK, DecisionInv', RecordsTypeOK', StatesGrow,
           NEW q \in Runs, RunInv(q), Untouched(q)
    PROVE  RunInv(q)'
<1>1. /\ runPc'[q] = runPc[q] /\ runLocal'[q] = runLocal[q] /\ outcome'[q] = outcome[q]
      /\ evalPc'[q] = evalPc[q]
      /\ \A g \in runLocal[q].generation : recPc'[g] = recPc[g] /\ recLocal'[g] = recLocal[g]
      /\ \A target \in Targets : RowsOf(q, target)' = RowsOf(q, target)
  BY DEF Untouched
<1>2. /\ Target(q)' = Target(q) /\ Target(q) \in Targets
      /\ \A j \in 1..3 : Order[j] \in Targets
      /\ \A j : Unended(q, j)' <=> Unended(q, j)
      /\ \A j : Unbegun(q, j)' <=> Unbegun(q, j)
  BY <1>1, TargetFacts, OrderFacts DEF Target, Unended, Unbegun
<1>3. LatestState(Target(q)) <= LatestState(Target(q))'
  <2>1. Len(snapshots) <= Len(snapshots') /\ Len(portfolios) <= Len(portfolios')
        /\ Len(readiness) <= Len(readiness')
    BY DEF StatesGrow, SnapshotsGrow
  <2> QED BY <1>2, <2>1, OrderFacts DEF LatestState, LatestSnapshot
<1>4. LatestState(Target(q)) \in Nat /\ LatestState(Target(q))' \in Nat
  <2>1. Len(portfolios) \in Nat /\ Len(readiness) \in Nat /\ Len(snapshots) \in Nat
    BY RunTypes
  <2>2. Len(portfolios') \in Nat /\ Len(readiness') \in Nat /\ Len(snapshots') \in Nat
    BY RecommendationTypes DEF StatesGrow, SnapshotsGrow, DecisionInv, RecommendationInv, RecommendationTypeOK
  <2> QED BY <1>2, <2>1, <2>2, OrderFacts DEF LatestState, LatestSnapshot
<1>5. EngineInv(q) => EngineInv(q)'
  <2>1. /\ Len(snapshots) <= Len(snapshots') /\ Len(snapshots) \in Nat /\ Len(snapshots') \in Nat
        /\ Len(readiness) <= Len(readiness') /\ Len(readiness) \in Nat /\ Len(readiness') \in Nat
    BY RunTypes DEF StatesGrow, SnapshotsGrow
  <2>2. runLocal[q].after \in Nat
    BY RunTypes
  <2> QED BY <1>1, <2>1, <2>2 DEF EngineInv
<1>6. runLocal[q].before \in Nat
  BY RunTypes
<1>7. runLocal[q].before <= LatestState(Target(q)) => runLocal'[q].before <= LatestState(Target(q))'
  BY <1>1, <1>3, <1>4, <1>6
<1> QED BY <1>1, <1>2, <1>5, <1>7 DEF RunInv, StateSnapshot

\* A difference between states there were says of them what it said.
LEMMA DiffStays ==
    ASSUME DecisionInv, RecordsTypeOK, StatesGrow, NEW d \in diffs, DiffTells(d)
    PROVE  DiffTells(d)'
<1>1. d.before \in Nat /\ d.after \in Nat
  BY DEF RecordsTypeOK, Diff
<1>2. /\ Len(snapshots) <= Len(snapshots') /\ Len(snapshots) \in Nat /\ Len(snapshots') \in Nat
      /\ Len(readiness) <= Len(readiness') /\ Len(readiness) \in Nat /\ Len(readiness') \in Nat
  BY RunTypes DEF StatesGrow, SnapshotsGrow
<1>3. \A n \in Nat : n <= Len(snapshots) => StatusIn(n)' = StatusIn(n)
  BY <1>2 DEF StatusIn, StatesGrow, SnapshotsGrow
<1>4. \A n \in Nat : n <= Len(readiness) => ReadinessIn(n)' = ReadinessIn(n)
  BY <1>2 DEF ReadinessIn, StatesGrow
<1> QED BY <1>1, <1>2, <1>3, <1>4 DEF DiffTells

\* The parts of the invariant that are about all runs, after a step of the run r.
LEMMA RunsTogether ==
    ASSUME RunsInv, NEW r \in Runs, DecisionInv', RecordsTypeOK', StatesGrow,
           \A q \in Runs : q # r => Untouched(q),
           RunInv(r)', GenerationsApart',
           \A d \in diffs' : d \in diffs \/ DiffTells(d)',
           \A target \in Targets : outcome'[r][target] = "SUCCEEDED" => Recorded(r, target)',
           \A state \in 1..Len(snapshots) :
              \/ runLocal[r].after = state /\ Target(r) = "ELIGIBILITY"
              \/ outcome[r]["ELIGIBILITY"] = "FAILED"
              => Accounted(state)',
           \A state \in 1..Len(snapshots') : state \in 1..Len(snapshots) \/ Accounted(state)'
    PROVE  RunsInv'
<1> USE DEF RunsInv
<1>1. \A q \in Runs : RunInv(q)'
  BY UntouchedKeeps
<1>2. DiffInv'
  BY DiffStays DEF DiffInv
<1>3. SuccessInv'
  <2> SUFFICES ASSUME NEW q \in Runs, q # r, NEW target \in Targets,
                      outcome'[q][target] = "SUCCEEDED"
               PROVE  Recorded(q, target)'
    BY DEF SuccessInv
  <2>1. Recorded(q, target) /\ RowsOf(q, target)' = RowsOf(q, target)
    BY DEF Untouched, SuccessInv
  <2> QED BY <2>1 DEF Recorded, StatesGrow
<1>4. StatesInv'
  <2> SUFFICES ASSUME NEW state \in 1..Len(snapshots)
               PROVE  Accounted(state)'
    BY DEF StatesInv
  <2>1. CASE \E d \in diffs : d.target = "ELIGIBILITY" /\ d.after = state
    BY <2>1 DEF Accounted, StatesGrow
  <2>2. ASSUME NEW q \in Runs, q # r,
               \/ runLocal[q].after = state /\ Target(q) = "ELIGIBILITY"
               \/ outcome[q]["ELIGIBILITY"] = "FAILED"
        PROVE  Accounted(state)'
    BY <2>2 DEF Accounted, Untouched, Target
  <2> QED BY <2>1, <2>2 DEF StatesInv, Accounted
<1> QED BY <1>1, <1>2, <1>3, <1>4

-------------------------------------------------------------------------------
(* Steps while the engine is under way *)

\* A step of the engine records nothing yet.
LEMMA EngineKeeps ==
    ASSUME RunsInv, NEW r \in Runs, NEW x \in RunLocal, DecisionInv', StatesGrow,
           runPc[r] = "engine", runLocal' = [runLocal EXCEPT ![r] = x],
           x.step = runLocal[r].step, x.before = runLocal[r].before,
           UNCHANGED <<captured, diffs, runPc, outcome>>, UNCHANGED activationVars,
           readiness' \in Seq(Nat),
           \A q \in Runs : q # r => evalPc'[q] = evalPc[q],
           \A g \in Generations : g \notin x.generation =>
              recPc'[g] = recPc[g] /\ recLocal'[g] = recLocal[g],
           \A g \in x.generation : recPc'[g] # "idle",
           \A g \in x.generation : g \in runLocal[r].generation \/ recPc[g] = "idle",
           x.step = 1 => x.generation = {},
           EngineInv(r)',
           x.step = 1 /\ runLocal[r].after # 0 => x.after = runLocal[r].after,
           \A state \in 1..Len(snapshots') :
              state \in 1..Len(snapshots) \/ (x.step = 1 /\ x.after = state)
    PROVE  RunsInv'
<1> USE DEF RunsInv
<1>1. /\ runLocal' \in [Runs -> RunLocal] /\ runLocal'[r] = x
      /\ \A q \in Runs : q # r => runLocal'[q] = runLocal[q]
  BY RunWritten
<1>2. RecordsTypeOK'
  BY <1>1 DEF RecordsTypeOK, activationVars
<1>3. x.step \in 1..3 /\ x.before \in Nat /\ x.generation \subseteq Generations
  BY RunTypes DEF RunLocal
<1>4. \A q \in Runs : q # r => \A g \in runLocal[q].generation : g \notin x.generation
  <2> SUFFICES ASSUME NEW q \in Runs, q # r, NEW g \in runLocal[q].generation, g \in x.generation
               PROVE  FALSE
    OBVIOUS
  <2>1. recPc[g] # "idle"
    BY DEF RunInv
  <2>2. g \in runLocal[r].generation
    BY <2>1
  <2> QED BY <2>2 DEF GenerationsApart
<1>5. \A q \in Runs : q # r => Untouched(q)
  <2> SUFFICES ASSUME NEW q \in Runs, q # r PROVE Untouched(q)
    OBVIOUS
  <2>1. runLocal[q].generation \subseteq Generations
    BY RunTypes
  <2>2. \A g \in runLocal[q].generation : recPc'[g] = recPc[g] /\ recLocal'[g] = recLocal[g]
    BY <1>4, <2>1
  <2> QED BY <1>1, <2>2 DEF Untouched, RowsOf
<1>6. GenerationsApart'
  <2> SUFFICES ASSUME NEW p \in Runs, NEW q \in Runs, p # q
               PROVE  runLocal'[p].generation \cap runLocal'[q].generation = {}
    BY DEF GenerationsApart
  <2>1. CASE p = r
    BY <1>1, <1>4, <2>1
  <2>2. CASE q = r
    BY <1>1, <1>4, <2>2
  <2>3. CASE p # r /\ q # r
    BY <1>1, <2>3 DEF GenerationsApart
  <2> QED BY <2>1, <2>2, <2>3
<1>7. Target(r)' = Target(r) /\ Target(r) \in Targets
  BY <1>1, TargetFacts DEF Target
<1>8. RunInv(r)'
  <2>1. \A j : (Unended(r, j)' <=> Unended(r, j)) /\ (Unbegun(r, j)' <=> Unbegun(r, j))
    BY <1>1 DEF Unended, Unbegun
  <2>2. \A target : RowsOf(r, target)' = RowsOf(r, target)
    BY DEF RowsOf
  <2>3. LatestState(Target(r)) <= LatestState(Target(r))' /\ LatestState(Target(r)) \in Nat
        /\ LatestState(Target(r))' \in Nat
    <3>1. /\ Len(portfolios) \in Nat /\ Len(readiness) \in Nat /\ Len(snapshots) \in Nat
          /\ Len(portfolios') \in Nat /\ Len(readiness') \in Nat /\ Len(snapshots') \in Nat
          /\ Len(snapshots) <= Len(snapshots') /\ Len(portfolios) <= Len(portfolios')
          /\ Len(readiness) <= Len(readiness')
      BY RunTypes
         DEF StatesGrow, SnapshotsGrow, DecisionInv, RecommendationInv, RecommendationTypeOK
    <3> QED BY <1>7, <3>1, OrderFacts DEF LatestState, LatestSnapshot
  <2>4. /\ RowsOf(r, Target(r))' = {StateSnapshot(r, "BEFORE", x.before)}
        /\ StateSnapshot(r, "BEFORE", x.before)' = StateSnapshot(r, "BEFORE", x.before)
    BY <1>7, <2>2 DEF RunInv, StateSnapshot
  <2>5. x.before <= LatestState(Target(r))'
    BY <1>3, <2>3 DEF RunInv
  <2>6. (~Unbegun(r, 2) /\ x.step # 1) \/ x.generation = {}
    <3>1. CASE x.step = 1
      BY <3>1
    <3>2. CASE x.step # 1
      BY <1>3, <3>2 DEF Unbegun
    <3> QED BY <3>1, <3>2
  <2> QED BY <1>1, <2>1, <2>2, <2>4, <2>5, <2>6 DEF RunInv
<1>9. \A target \in Targets : outcome'[r][target] = "SUCCEEDED" => Recorded(r, target)'
  BY DEF SuccessInv, Recorded, RowsOf
<1>10. \A state \in 1..Len(snapshots) :
          \/ runLocal[r].after = state /\ Target(r) = "ELIGIBILITY"
          \/ outcome[r]["ELIGIBILITY"] = "FAILED"
          => Accounted(state)'
  <2> SUFFICES ASSUME NEW state \in 1..Len(snapshots), runLocal[r].after = state,
                      Target(r) = "ELIGIBILITY"
               PROVE  Accounted(state)'
    BY DEF Accounted
  <2>1. x.step = 1 /\ state # 0
    BY <1>3, TargetFacts, OrderFacts, RunTypes
  <2> QED BY <1>1, <1>7, <2>1 DEF Accounted
<1>11. \A state \in 1..Len(snapshots') : state \in 1..Len(snapshots) \/ Accounted(state)'
  <2> SUFFICES ASSUME NEW state \in 1..Len(snapshots'), x.step = 1, x.after = state
               PROVE  Accounted(state)'
    OBVIOUS
  <2>1. Target(r)' = "ELIGIBILITY"
    BY <1>7, TargetFacts
  <2> QED BY <1>1, <2>1 DEF Accounted
<1> QED BY <1>2, <1>5, <1>6, <1>8, <1>9, <1>10, <1>11, RunsTogether

\* What evaluations and generations do is what they do without a re-evaluation.
LEMMA DecisionsGrow ==
    ASSUME RunsInv,
           \/ EligibilityNext /\ UNCHANGED recommendationVars
           \/ \E g \in Generations : GenerationStep(g)
           \/ UNCHANGED decisionVars,
           \/ UNCHANGED readiness
           \/ \E score \in Nat : readiness' = Append(readiness, score),
           diffs \subseteq diffs'
    PROVE  DecisionInv' /\ StatesGrow /\ readiness' \in Seq(Nat)
<1> USE DEF RunsInv
<1>1. DecisionInv'
  BY DecisionStep DEF DecisionNext
<1>2. SnapshotsGrow
  <2>1. EligibilityNext \/ UNCHANGED eligibilityVars
    BY DEF GenerationStep, ReadEligibility, StoreRecommendation, StorePortfolio,
           StoreRecSnapshot, ReportGeneration, FailGeneration, RecGo, decisionVars
  <2> QED BY <2>1, EligibilityGrows DEF DecisionInv
<1>3. Len(portfolios) <= Len(portfolios')
  <2>1. \/ portfolios' = portfolios
        \/ \E e \in Nat \ {0} : portfolios' = Append(portfolios, e)
    <3>1. ASSUME NEW g \in Generations, StorePortfolio(g)
          PROVE  \E e \in Nat \ {0} : portfolios' = Append(portfolios, e)
      <4>1. recPc[g] \in Storing /\ portfolios' = Append(portfolios, recLocal[g].eligibility)
        BY <3>1 DEF StorePortfolio, RecGo, Storing
      <4>2. recLocal[g].eligibility \in DOMAIN snapshots
        BY <4>1 DEF DecisionInv, RecommendationInv, GenerationInv, Remembers
      <4> QED BY <4>1, <4>2, RunTypes
    <3>2. \A g \in Generations : GenerationStep(g) => StorePortfolio(g) \/ portfolios' = portfolios
      BY DEF GenerationStep, ReadEligibility, StoreRecommendation,
             StoreRecSnapshot, ReportGeneration, FailGeneration, RecGo
    <3> QED BY <3>1, <3>2 DEF recommendationVars, decisionVars
  <2>2. portfolios \in Seq(Nat \ {0}) /\ Len(portfolios) \in Nat
    BY RunTypes DEF DecisionInv, RecommendationInv, RecommendationTypeOK
  <2> QED BY <2>1, <2>2, AppendRow
<1>4. /\ readiness' \in Seq(Nat) /\ Len(readiness) <= Len(readiness') /\ Len(readiness') \in Nat
      /\ \A i \in 1..Len(readiness) : readiness'[i] = readiness[i]
  <2>1. readiness \in Seq(Nat) /\ Len(readiness) \in Nat
    BY RunTypes DEF RecordsTypeOK
  <2> QED BY <2>1, AppendRow, SMTT(20)
<1> QED BY <1>1, <1>2, <1>3, <1>4 DEF StatesGrow

LEMMA EvaluateAgainKeeps ==
    ASSUME RunsInv, NEW r \in Runs, EvaluateAgain(r), UNCHANGED activationVars
    PROVE  RunsInv'
<1> USE DEF RunsInv
<1>1. /\ runPc[r] = "engine" /\ Target(r) = "ELIGIBILITY" /\ r \in Evaluations
      /\ UNCHANGED <<recommendationVars, readiness, captured, diffs, runPc, outcome>>
      /\ runLocal[r] \in RunLocal /\ runLocal[r].after \in Nat /\ runLocal[r].before \in Nat
      /\ runLocal[r].generation \subseteq Generations
      /\ Len(snapshots) \in Nat
  BY RunTypes DEF EvaluateAgain
<1>2. runLocal[r].step = 1 /\ LatestState(Target(r)) = Len(snapshots)
  BY <1>1, TargetFacts, RunTypes, OrderFacts
<1>3. EligibilityNext
  BY <1>1 DEF EvaluateAgain, EligibilityNext, EvaluationStep
<1>4. DecisionInv' /\ StatesGrow /\ readiness' \in Seq(Nat)
  BY <1>1, <1>3, DecisionsGrow
<1>5. Len(snapshots') \in Nat /\ Len(snapshots) <= Len(snapshots')
  BY <1>4 DEF StatesGrow, SnapshotsGrow
<1> DEFINE after == IF snapshots' # snapshots THEN Len(snapshots') ELSE runLocal[r].after
           x == [runLocal[r] EXCEPT !.after = after]
<1>6. /\ x \in RunLocal /\ x.step = 1 /\ x.before = runLocal[r].before /\ x.after = after
      /\ x.generation = runLocal[r].generation
  BY <1>1, <1>2, <1>5 DEF RunLocal
<1>7. runLocal' = [runLocal EXCEPT ![r] = x]
  BY <1>1 DEF EvaluateAgain, RecordsTypeOK
<1>8. runLocal[r].generation = {} /\ EngineInv(r) /\ runLocal[r].before <= Len(snapshots)
  BY <1>1, <1>2 DEF RunInv
<1>9. \/ /\ StoreSnapshot(r) /\ evalPc[r] = "storeSnapshot" /\ evalPc'[r] = "report"
         /\ Len(snapshots') = Len(snapshots) + 1 /\ snapshots' # snapshots
      \/ /\ snapshots' = snapshots
         /\ \/ evalPc[r] = "report" /\ evalPc'[r] = "done"
            \/ evalPc[r] = "idle" /\ evalPc'[r] = "storeTrace"
            \/ evalPc[r] = "storeTrace" /\ evalPc'[r] \in {"failed", "storeSnapshot"}
            \/ evalPc'[r] = "failed"
  <2>1. evalPc \in [Evaluations -> EvalPC]
    BY DEF DecisionInv, EligibilityInv, EligibilityTypeOK
  <2>2. CASE StoreSnapshot(r)
    <3>1. evalPc[r] = "storeSnapshot" /\ evalPc'[r] = "report"
          /\ snapshots' = Append(snapshots, NewSnapshot(evalLocal[r]))
      BY <1>1, <2>1, <2>2 DEF StoreSnapshot, EvalGo
    <3>2. \A S, row : snapshots \in Seq(S) => Len(Append(snapshots, row)) = Len(snapshots) + 1
      OBVIOUS
    <3>3. snapshots \in Seq(SnapshotRow)
      BY DEF DecisionInv, EligibilityInv, EligibilityTypeOK
    <3>4. Len(snapshots') = Len(snapshots) + 1
      BY <3>1, <3>2, <3>3
    <3> QED BY <1>1, <2>2, <3>1, <3>4
  <2>3. CASE Evaluate(r) \/ StoreTrace(r) \/ ReportEvaluation(r) \/ FailEvaluation(r)
    BY <1>1, <2>1, <2>3 DEF Evaluate, StoreTrace, ReportEvaluation, FailEvaluation, EvalGo
  <2> QED BY <2>2, <2>3 DEF EvaluateAgain
<1>10. \A q \in Runs : q # r => evalPc'[q] = evalPc[q]
  <2>1. \E to : evalPc' = [evalPc EXCEPT ![r] = to]
    BY DEF EvaluateAgain, Evaluate, StoreTrace, StoreSnapshot, ReportEvaluation, FailEvaluation,
           EvalGo
  <2>2. evalPc \in [Evaluations -> EvalPC] /\ Runs \subseteq Evaluations
    BY RecordsAssumption DEF DecisionInv, EligibilityInv, EligibilityTypeOK
  <2> QED BY <2>1, <2>2
<1> HIDE DEF x
<1>11. runLocal'[r] = x
  BY <1>6, <1>7, RunWritten
<1>12. EngineInv(r)'
  BY <1>1, <1>2, <1>5, <1>6, <1>8, <1>9, <1>11 DEF EngineInv
<1>13. x.step = 1 /\ runLocal[r].after # 0 => x.after = runLocal[r].after
  BY <1>2, <1>6, <1>8, <1>9 DEF EngineInv
<1>14. \A state \in 1..Len(snapshots') :
         state \in 1..Len(snapshots) \/ (x.step = 1 /\ x.after = state)
  BY <1>1, <1>5, <1>6, <1>9
<1>15. \A g \in Generations : recPc'[g] = recPc[g] /\ recLocal'[g] = recLocal[g]
  BY <1>1 DEF recommendationVars
<1> QED BY <1>1, <1>2, <1>4, <1>6, <1>7, <1>8, <1>10, <1>12, <1>13, <1>14, <1>15, EngineKeeps, ZenonT(60)

LEMMA GenerateAgainKeeps ==
    ASSUME RunsInv, NEW r \in Runs, GenerateAgain(r), UNCHANGED activationVars
    PROVE  RunsInv'
<1> USE DEF RunsInv
<1>1. PICK g \in Generations :
        /\ runPc[r] = "engine" /\ Target(r) = "RECOMMENDATION"
        /\ IF runLocal[r].generation = {} THEN recPc[g] = "idle" ELSE g \in runLocal[r].generation
        /\ GenerationStep(g)
        /\ runLocal' = [runLocal EXCEPT ![r].generation = {g}, ![r].after = recLocal'[g].portfolio]
        /\ UNCHANGED <<readiness, captured, diffs, runPc, outcome>>
  BY DEF GenerateAgain
<1>2. /\ runLocal[r] \in RunLocal /\ runLocal[r].before \in Nat
      /\ Len(portfolios) \in Nat
      /\ runLocal[r].step = 2 /\ LatestState(Target(r)) = Len(portfolios)
  BY <1>1, TargetFacts, RunTypes, OrderFacts
<1>3. DecisionInv' /\ StatesGrow /\ readiness' \in Seq(Nat)
  BY <1>1, DecisionsGrow
<1>4. recLocal'[g].portfolio \in Nat
  BY <1>3 DEF DecisionInv, RecommendationInv, RecommendationTypeOK, RecLocal
<1> DEFINE x == [runLocal[r] EXCEPT !.generation = {g}, !.after = recLocal'[g].portfolio]
<1>5. /\ x \in RunLocal /\ x.step = 2 /\ x.before = runLocal[r].before
      /\ x.after = recLocal'[g].portfolio /\ x.generation = {g}
  BY <1>2, <1>4 DEF RunLocal
<1>6. runLocal' = [runLocal EXCEPT ![r] = x]
  BY <1>1 DEF RecordsTypeOK
<1> HIDE DEF x
<1>7. runLocal'[r] = x
  BY <1>5, <1>6, RunWritten
<1>8. EngineInv(r) /\ runLocal[r].before <= Len(portfolios)
  BY <1>1, <1>2 DEF RunInv
<1>9. UNCHANGED eligibilityVars
  BY <1>1 DEF GenerationStep, ReadEligibility, StoreRecommendation, StorePortfolio,
              StoreRecSnapshot, ReportGeneration, FailGeneration, RecGo
<1>10. recPc \in [Generations -> RecPC] /\ recLocal \in [Generations -> RecLocal]
  BY DEF DecisionInv, RecommendationInv, RecommendationTypeOK
<1>11. /\ recPc'[g] # "idle"
       /\ \A h \in Generations : h # g => recPc'[h] = recPc[h] /\ recLocal'[h] = recLocal[h]
       /\ \/ StorePortfolio(g) /\ recLocal'[g].portfolio = Len(portfolios) + 1
          \/ recPc'[g] \in {"storeRecommendation", "storePortfolio", "failed"}
          \/ /\ recPc[g] \in {"storeSnapshot", "report"}
             /\ recLocal'[g].portfolio = recLocal[g].portfolio
  <2>1. CASE StorePortfolio(g)
    <3>1. /\ recPc' = [recPc EXCEPT ![g] = "storeSnapshot"]
          /\ recLocal' = [recLocal EXCEPT ![g].portfolio = Len(portfolios) + 1]
      BY <2>1 DEF StorePortfolio, RecGo
    <3>2. recLocal[g] \in RecLocal
      BY <1>10
    <3>3. recLocal'[g].portfolio = Len(portfolios) + 1
      BY <1>10, <3>1, <3>2 DEF RecLocal
    <3> QED BY <1>10, <2>1, <3>1, <3>3
  <2>2. CASE ReadEligibility(g)
    BY <1>10, <2>2 DEF ReadEligibility, RecGo
  <2>3. CASE StoreRecommendation(g)
    BY <1>10, <2>3 DEF StoreRecommendation, RecGo
  <2>4. CASE StoreRecSnapshot(g) \/ ReportGeneration(g)
    BY <1>10, <2>4 DEF StoreRecSnapshot, ReportGeneration, RecGo
  <2>5. CASE FailGeneration(g)
    BY <1>10, <2>5 DEF FailGeneration
  <2> QED BY <1>1, <2>1, <2>2, <2>3, <2>4, <2>5 DEF GenerationStep
<1>12. g \in runLocal[r].generation \/ recPc[g] = "idle"
  BY <1>1
<1>13. EngineInv(r)'
  <2> SUFFICES ASSUME recPc'[g] \in {"storeSnapshot", "report", "done"}
               PROVE  x.before < x.after
    BY <1>5, <1>7 DEF EngineInv
  <2>1. CASE StorePortfolio(g) /\ recLocal'[g].portfolio = Len(portfolios) + 1
    BY <1>2, <1>5, <1>8, <2>1
  <2>2. CASE recPc[g] \in {"storeSnapshot", "report"}
             /\ recLocal'[g].portfolio = recLocal[g].portfolio
    <3>1. g \in runLocal[r].generation
      BY <1>12, <2>2
    <3> QED BY <1>2, <1>5, <1>8, <2>2, <3>1 DEF EngineInv
  <2> QED BY <1>11, <2>1, <2>2
<1>14. /\ \A q \in Runs : q # r => evalPc'[q] = evalPc[q]
       /\ snapshots' = snapshots
  BY <1>9 DEF eligibilityVars
<1>15. /\ \A h \in Generations : h \notin x.generation =>
              recPc'[h] = recPc[h] /\ recLocal'[h] = recLocal[h]
       /\ \A h \in x.generation : recPc'[h] # "idle"
       /\ \A h \in x.generation : h \in runLocal[r].generation \/ recPc[h] = "idle"
       /\ x.step = runLocal[r].step /\ x.step # 1
       /\ \A state \in 1..Len(snapshots') : state \in 1..Len(snapshots)
  BY <1>2, <1>5, <1>11, <1>12, <1>14
<1> QED BY <1>1, <1>3, <1>5, <1>6, <1>13, <1>14, <1>15, EngineKeeps

\* Generations nobody steps.
LEMMA DecisionsRest ==
    ASSUME UNCHANGED decisionVars
    PROVE  /\ snapshots' = snapshots /\ evalPc' = evalPc /\ recPc' = recPc /\ recLocal' = recLocal
           /\ portfolios' = portfolios
BY DEF decisionVars, eligibilityVars, recommendationVars

LEMMA JourneyAgainKeeps ==
    ASSUME RunsInv, NEW r \in Runs, PlanAgain(r) \/ CreateJourneyAgain(r), UNCHANGED activationVars
    PROVE  RunsInv'
<1> USE DEF RunsInv
<1>1. /\ runPc[r] = "engine" /\ Target(r) = "JOURNEY"
      /\ UNCHANGED <<decisionVars, captured, diffs, runPc, outcome>>
      /\ runLocal[r] \in RunLocal /\ runLocal[r].before \in Nat /\ runLocal[r].score \in Nat
      /\ Len(readiness) \in Nat /\ runLocal[r].generation \subseteq Generations
  BY RunTypes DEF PlanAgain, CreateJourneyAgain
<1>2. runLocal[r].step = 3 /\ LatestState(Target(r)) = Len(readiness)
  BY <1>1, TargetFacts, RunTypes, OrderFacts
<1>3. EngineInv(r) /\ runLocal[r].before <= Len(readiness)
  BY <1>1, <1>2 DEF RunInv
<1>4. UNCHANGED readiness \/ \E score \in Nat : readiness' = Append(readiness, score)
  BY <1>1 DEF PlanAgain, CreateJourneyAgain
<1>5. DecisionInv' /\ StatesGrow /\ readiness' \in Seq(Nat)
  BY <1>1, <1>4, DecisionsGrow
<1> DEFINE Written(x) ==
             /\ runLocal' = [runLocal EXCEPT ![r] = x]
             /\ x.step = 3 /\ x.before = runLocal[r].before
             /\ x.generation = runLocal[r].generation
             /\ x.after # 0 => x.before < x.after /\ x.after <= Len(readiness')
<1>6. \E x \in RunLocal : Written(x)
  <2>1. CASE PlanAgain(r)
    <3> DEFINE x == [runLocal[r] EXCEPT !.score = Readiness]
    <3>1. /\ x \in RunLocal /\ x.step = 3 /\ x.before = runLocal[r].before
          /\ x.generation = runLocal[r].generation /\ x.after = runLocal[r].after
      BY <1>1, <1>2, ReadinessType DEF RunLocal
    <3>2. runLocal' = [runLocal EXCEPT ![r] = x] /\ readiness' = readiness
      BY <2>1 DEF PlanAgain, RecordsTypeOK
    <3> HIDE DEF x
    <3>3. Written(x)
      BY <1>2, <1>3, <3>1, <3>2 DEF EngineInv
    <3> HIDE DEF Written
    <3> QED BY <3>1, <3>3
  <2>2. CASE CreateJourneyAgain(r)
    <3> DEFINE x == [runLocal[r] EXCEPT !.after = Len(readiness) + 1]
    <3>1. /\ x \in RunLocal /\ x.step = 3 /\ x.before = runLocal[r].before
          /\ x.generation = runLocal[r].generation /\ x.after = Len(readiness) + 1
      BY <1>1, <1>2 DEF RunLocal
    <3>2. runLocal' = [runLocal EXCEPT ![r] = x]
          /\ readiness' = Append(readiness, runLocal[r].score)
      BY <2>2 DEF CreateJourneyAgain, RecordsTypeOK
    <3>3. Len(readiness') = Len(readiness) + 1
      BY <1>1, <3>2, AppendRow DEF RecordsTypeOK
    <3> HIDE DEF x
    <3>4. Written(x)
      BY <1>1, <1>3, <3>1, <3>2, <3>3
    <3> HIDE DEF Written
    <3> QED BY <3>1, <3>4
  <2> QED BY <2>1, <2>2
<1>7. PICK x \in RunLocal : Written(x)
  BY <1>6
<1>8. runLocal'[r] = x
  BY <1>7, RunWritten
<1>9. EngineInv(r)'
  BY <1>7, <1>8 DEF EngineInv
<1>10. \A g \in x.generation : recPc'[g] # "idle" /\ g \in runLocal[r].generation
  BY <1>1, <1>7, DecisionsRest DEF RunInv
<1>11. /\ \A q \in Runs : q # r => evalPc'[q] = evalPc[q]
       /\ \A g \in Generations : recPc'[g] = recPc[g] /\ recLocal'[g] = recLocal[g]
       /\ snapshots' = snapshots
  BY <1>1, DecisionsRest
<1>12. /\ x.step = runLocal[r].step /\ x.step # 1 /\ x.before = runLocal[r].before
       /\ runLocal' = [runLocal EXCEPT ![r] = x]
       /\ \A state \in 1..Len(snapshots') : state \in 1..Len(snapshots)
  BY <1>2, <1>7, <1>11
<1> HIDE DEF Written
<1> QED BY <1>1, <1>5, <1>9, <1>10, <1>11, <1>12, EngineKeeps

-------------------------------------------------------------------------------
(* Steps that begin or end a step of the run *)

\* What is recorded for another step of the run, or another run, stays.
LEMMA OtherRows ==
    ASSUME NEW r, NEW row, row.run = r, captured' = captured \/ captured' = captured \cup {row},
           NEW q, NEW target, q # r \/ target # row.target
    PROVE  RowsOf(q, target)' = RowsOf(q, target)
BY DEF RowsOf

LEMMA CaptureKeeps ==
    ASSUME RunsInv, NEW r \in Runs, CaptureBefore(r), UNCHANGED activationVars
    PROVE  RunsInv'
<1> USE DEF RunsInv
<1>1. /\ runLocal[r] \in RunLocal /\ runLocal[r].step \in 1..3
      /\ LatestState(Target(r)) \in Nat
      /\ Target(r) \in Targets /\ Target(r) = Order[runLocal[r].step]
      /\ runPc[r] = "capture"
  BY RunTypes, TargetFacts DEF CaptureBefore, RunGo
<1>0. PICK state \in Nat : state = LatestState(Target(r))
  BY <1>1
<1>2. PICK x \in RunLocal :
         /\ x = [runLocal[r] EXCEPT !.before = state, !.after = 0, !.score = 0]
         /\ x.step = runLocal[r].step /\ x.before = state /\ x.after = 0
         /\ x.generation = runLocal[r].generation
  <2> DEFINE y == [runLocal[r] EXCEPT !.before = state, !.after = 0, !.score = 0]
  <2>1. /\ y \in RunLocal /\ y.step = runLocal[r].step /\ y.before = state /\ y.after = 0
        /\ y.generation = runLocal[r].generation
    BY <1>1, <1>0 DEF RunLocal
  <2> QED BY <2>1
<1>3. PICK row \in Captured :
         /\ row = StateSnapshot(r, "BEFORE", state) /\ row.run = r /\ row.target = Target(r)
  <2>1. /\ StateSnapshot(r, "BEFORE", state) \in Captured
        /\ StateSnapshot(r, "BEFORE", state).run = r
        /\ StateSnapshot(r, "BEFORE", state).target = Target(r)
    BY <1>1, <1>0 DEF StateSnapshot, Captured
  <2> QED BY <2>1
<1>4. /\ captured' = captured \cup {row} /\ runLocal' = [runLocal EXCEPT ![r] = x]
      /\ runPc' = [runPc EXCEPT ![r] = "engine"]
      /\ UNCHANGED <<decisionVars, readiness, diffs, outcome>>
  BY <1>0, <1>2, <1>3 DEF CaptureBefore, RunGo
<1>5. /\ runLocal' \in [Runs -> RunLocal] /\ runLocal'[r] = x
      /\ \A q \in Runs : q # r => runLocal'[q] = runLocal[q]
  BY <1>2, <1>4, RunWritten
<1>6. /\ runPc' \in [Runs -> RunPC] /\ runPc'[r] = "engine"
      /\ \A q \in Runs : q # r => runPc'[q] = runPc[q]
  BY <1>4, RunMoved DEF RunPC
<1>7. DecisionInv' /\ StatesGrow
  BY <1>4, DecisionsGrow
<1>8. RecordsTypeOK'
  BY <1>3, <1>4, <1>5, <1>6 DEF RecordsTypeOK, activationVars
<1>9. /\ snapshots' = snapshots /\ evalPc' = evalPc /\ recPc' = recPc /\ recLocal' = recLocal
      /\ portfolios' = portfolios
  BY <1>4, DecisionsRest
<1>10. \A q \in Runs : q # r => Untouched(q)
  BY <1>3, <1>4, <1>5, <1>6, <1>9, OtherRows DEF Untouched
<1>11. \A j \in 1..3 : Order[j] = Target(r) => j = runLocal[r].step
  BY <1>1, OrderFacts
<1>12. /\ Target(r)' = Target(r) /\ LatestState(Target(r))' = state
       /\ StateSnapshot(r, "BEFORE", x.before)' = row
  <2>1. Target(r)' = Target(r)
    BY <1>2, <1>5 DEF Target
  <2>2. LatestState(Target(r))' = state
    BY <1>0, <1>4, <1>9, <2>1 DEF LatestState, LatestSnapshot
  <2> QED BY <1>2, <1>3, <2>1, <2>2 DEF StateSnapshot
<1>13. RowsOf(r, Target(r))' = {row}
  <2>1. RowsOf(r, Target(r)) = {}
    BY <1>1 DEF RunInv, Unbegun
  <2>2. RowsOf(r, Target(r))' = RowsOf(r, Target(r)) \cup {row}
    BY <1>3, <1>4, <1>12 DEF RowsOf
  <2> QED BY <2>1, <2>2
<1>14. runLocal[r].step = 1 => evalPc[r] = "idle" /\ runLocal[r].after = 0
  BY <1>1 DEF RunInv
<1>15. runLocal[r].step \in {1, 2} => runLocal[r].generation = {}
  BY <1>1 DEF RunInv, Unbegun
<1>16. EngineInv(r)'
  BY <1>2, <1>5, <1>9, <1>14, <1>15 DEF EngineInv
<1>17. RunInv(r)'
  <2>1. \A j \in 1..3 : Unended(r, j)' => outcome'[r][Order[j]] = "PENDING"
    BY <1>1, <1>2, <1>4, <1>5 DEF Unended, RunInv
  <2>2. \A j \in 1..3 : Unbegun(r, j)' => RowsOf(r, Order[j])' = {}
    <3> SUFFICES ASSUME NEW j \in 1..3, Unbegun(r, j)' PROVE RowsOf(r, Order[j])' = {}
      OBVIOUS
    <3>1. j > runLocal[r].step
      BY <1>2, <1>5, <1>6 DEF Unbegun
    <3>2. Order[j] # Target(r)
      BY <1>1, <1>11, <3>1
    <3>3. RowsOf(r, Order[j]) = {}
      BY <3>1 DEF RunInv, Unbegun
    <3> QED BY <1>3, <1>4, <3>2, <3>3, OtherRows
  <2>3. x.before <= LatestState(Target(r))'
    BY <1>1, <1>2, <1>12
  <2>4. Unbegun(r, 2)' \/ x.step = 1 => x.generation = {}
    BY <1>1, <1>2, <1>5, <1>6, <1>15 DEF Unbegun
  <2>5. \A g \in x.generation : recPc'[g] # "idle"
    BY <1>2, <1>9 DEF RunInv
  <2>6. /\ RowsOf(r, Target(r))' = {StateSnapshot(r, "BEFORE", runLocal[r].before)'}
        /\ runLocal'[r].before <= LatestState(Target(r))'
        /\ EngineInv(r)'
    <3>1. StateSnapshot(r, "BEFORE", runLocal[r].before)' = row
      BY <1>2, <1>5, <1>12
    <3> QED BY <1>2, <1>5, <1>13, <1>16, <2>3, <3>1
  <2>7. ~ (runLocal'[r].step = 1 /\ runPc'[r] = "capture")
    BY <1>6
  <2>8. Unbegun(r, 2)' \/ runLocal'[r].step = 1 => runLocal'[r].generation = {}
    BY <1>5, <2>4
  <2>9. \A g \in runLocal'[r].generation : recPc'[g] # "idle"
    BY <1>5, <2>5
  <2> QED BY <2>1, <2>2, <2>6, <2>7, <2>8, <2>9 DEF RunInv
<1>18. GenerationsApart'
  <2>1. \A q \in Runs : runLocal'[q].generation = runLocal[q].generation
    BY <1>2, <1>5
  <2> QED BY <2>1 DEF GenerationsApart
<1>19. \A target \in Targets : outcome'[r][target] = "SUCCEEDED" => Recorded(r, target)'
  <2> SUFFICES ASSUME NEW target \in Targets, outcome[r][target] = "SUCCEEDED"
               PROVE  Recorded(r, target)'
    BY <1>4
  <2>1. outcome[r][Target(r)] = "PENDING"
    BY <1>1 DEF RunInv, Unended
  <2>2. RowsOf(r, target)' = RowsOf(r, target)
    BY <1>3, <1>4, <2>1, OtherRows
  <2> QED BY <1>4, <2>2 DEF SuccessInv, Recorded
<1>20. \A s \in 1..Len(snapshots) :
          \/ runLocal[r].after = s /\ Target(r) = "ELIGIBILITY"
          \/ outcome[r]["ELIGIBILITY"] = "FAILED"
          => Accounted(s)'
  <2> SUFFICES ASSUME NEW s \in 1..Len(snapshots), runLocal[r].after = s, Target(r) = "ELIGIBILITY"
               PROVE  FALSE
    BY <1>4 DEF Accounted
  <2>1. runLocal[r].step = 1
    BY <1>1, OrderFacts
  <2> QED BY <1>14, <2>1, RunTypes
<1> QED BY <1>4, <1>7, <1>8, <1>9, <1>10, <1>17, <1>18, <1>19, <1>20, RunsTogether

\* What came back is a state of its own, after the one that was captured.
LEMMA ReturnedTells ==
    ASSUME RunsInv, NEW r \in Runs, runPc[r] = "engine", Returned(r)
    PROVE  NewDiff(r) \in Diff /\ DiffTells(NewDiff(r))
<1> USE DEF RunsInv
<1>1. /\ runLocal[r].step \in 1..3 /\ Target(r) \in Targets
      /\ runLocal[r].before \in Nat /\ runLocal[r].after \in Nat
      /\ EngineInv(r) /\ runLocal[r].before <= LatestState(Target(r))
      /\ Target(r) = Order[runLocal[r].step]
      /\ Len(snapshots) \in Nat /\ Len(readiness) \in Nat
  BY RunTypes, TargetFacts DEF RunInv
<1> DEFINE material == Material(Target(r), runLocal[r].before, runLocal[r].after)
<1>2. material \in BOOLEAN
  BY <1>1, OrderFacts DEF Material
<1>3. /\ NewDiff(r) \in Diff
      /\ NewDiff(r).target = Target(r) /\ NewDiff(r).material = material
      /\ NewDiff(r).before = runLocal[r].before /\ NewDiff(r).after = runLocal[r].after
  BY <1>1, <1>2 DEF NewDiff, Diff
<1>4. CASE runLocal[r].step = 1
  <2>1. Target(r) = "ELIGIBILITY" /\ LatestState(Target(r)) = Len(snapshots)
    BY <1>4, TargetFacts
  <2>2. evalPc[r] = "done"
    BY <2>1 DEF Returned
  <2>3. runLocal[r].before < runLocal[r].after /\ runLocal[r].after <= Len(snapshots)
    BY <1>1, <1>4, <2>2 DEF EngineInv
  <2>4. material <=> StatusIn(runLocal[r].before) # StatusIn(runLocal[r].after)
    BY <2>1 DEF Material
  <2> HIDE DEF material
  <2> QED BY <1>1, <1>3, <2>1, <2>3, <2>4 DEF DiffTells
<1>5. CASE runLocal[r].step = 2
  <2>1. Target(r) = "RECOMMENDATION"
    BY <1>5, TargetFacts
  <2>2. runLocal[r].before < runLocal[r].after
    BY <1>1, <1>5, <2>1 DEF EngineInv, Returned
  <2> QED BY <1>3, <2>1, <2>2 DEF DiffTells
<1>6. CASE runLocal[r].step = 3
  <2>1. Target(r) = "JOURNEY"
    BY <1>6, TargetFacts
  <2>2. runLocal[r].before < runLocal[r].after /\ runLocal[r].after <= Len(readiness)
    BY <1>1, <1>6, <2>1 DEF EngineInv, Returned
  <2>3. material <=> ReadinessIn(runLocal[r].before) # ReadinessIn(runLocal[r].after)
    BY <2>1 DEF Material
  <2> HIDE DEF material
  <2> QED BY <1>1, <1>3, <2>1, <2>2, <2>3 DEF DiffTells
<1> QED BY <1>1, <1>3, <1>4, <1>5, <1>6

LEMMA EndKeeps ==
    ASSUME RunsInv, NEW r \in Runs, NEW status \in {"SUCCEEDED", "FAILED"}, EndStep(r, status),
           runPc[r] \in {"capture", "engine"}, UNCHANGED activationVars,
           captured' = captured \/ captured' = captured \cup {AfterRow(r)},
           diffs' = diffs \/ (diffs' = diffs \cup {NewDiff(r)} /\ runPc[r] = "engine" /\ Returned(r)),
           status = "SUCCEEDED" =>
              /\ runPc[r] = "engine"
              /\ captured' = captured \cup {AfterRow(r)} /\ diffs' = diffs \cup {NewDiff(r)}
    PROVE  RunsInv'
<1> USE DEF RunsInv
<1>1. /\ runLocal[r] \in RunLocal /\ runLocal[r].step \in 1..3
      /\ runLocal[r].after \in Nat
      /\ Target(r) \in Targets /\ Target(r) = Order[runLocal[r].step]
  BY RunTypes, TargetFacts
<1>2. AfterRow(r) \in Captured /\ AfterRow(r).run = r /\ AfterRow(r).target = Target(r)
  BY <1>1 DEF AfterRow, StateSnapshot, Captured
<1>3. /\ UNCHANGED <<decisionVars, readiness>>
      /\ outcome' = [outcome EXCEPT ![r][Target(r)] = status]
  BY DEF EndStep
<1>4. PICK x \in RunLocal, to \in {"capture", "done"} :
         /\ runLocal' = [runLocal EXCEPT ![r] = x] /\ runPc' = [runPc EXCEPT ![r] = to]
         /\ x.generation = runLocal[r].generation /\ x.after = runLocal[r].after
         /\ IF runLocal[r].step < 3 THEN to = "capture" /\ x.step = runLocal[r].step + 1
            ELSE to = "done" /\ x.step = 3
  <2>1. CASE runLocal[r].step < 3
    <3> DEFINE x == [runLocal[r] EXCEPT !.step = @ + 1]
    <3>1. /\ x \in RunLocal /\ x.step = runLocal[r].step + 1
          /\ x.generation = runLocal[r].generation /\ x.after = runLocal[r].after
      BY <1>1, <2>1, OrderFacts DEF RunLocal
    <3>2. runLocal' = [runLocal EXCEPT ![r] = x] /\ runPc' = [runPc EXCEPT ![r] = "capture"]
      BY <2>1, OrderFacts DEF EndStep, RecordsTypeOK
    <3> HIDE DEF x
    <3> QED BY <2>1, <3>1, <3>2
  <2>2. CASE ~(runLocal[r].step < 3)
    <3>1. runLocal' = runLocal /\ runPc' = [runPc EXCEPT ![r] = "done"] /\ runLocal[r].step = 3
      BY <1>1, <2>2, OrderFacts DEF EndStep
    <3>2. runLocal' = [runLocal EXCEPT ![r] = runLocal[r]]
      BY <3>1 DEF RecordsTypeOK
    <3> QED BY <1>1, <2>2, <3>1, <3>2
  <2> QED BY <2>1, <2>2
<1>5. /\ runLocal' \in [Runs -> RunLocal] /\ runLocal'[r] = x
      /\ \A q \in Runs : q # r => runLocal'[q] = runLocal[q]
  BY <1>4, RunWritten
<1>6. /\ runPc' \in [Runs -> RunPC] /\ runPc'[r] = to
      /\ \A q \in Runs : q # r => runPc'[q] = runPc[q]
  BY <1>4, RunMoved DEF RunPC
<1>7. /\ outcome' \in [Runs -> [Targets -> {"PENDING", "SUCCEEDED", "FAILED"}]]
      /\ outcome'[r][Target(r)] = status
      /\ \A target \in Targets : target # Target(r) => outcome'[r][target] = outcome[r][target]
      /\ \A q \in Runs : q # r => outcome'[q] = outcome[q]
  BY <1>1, <1>3 DEF RecordsTypeOK
<1>8. diffs \subseteq diffs' /\ diffs' \subseteq Diff
  BY ReturnedTells DEF RecordsTypeOK
<1>9. DecisionInv' /\ StatesGrow
  BY <1>3, <1>8, DecisionsGrow
<1>10. /\ snapshots' = snapshots /\ evalPc' = evalPc /\ recPc' = recPc /\ recLocal' = recLocal
       /\ portfolios' = portfolios
  BY <1>3, DecisionsRest
<1>11. RecordsTypeOK'
  BY <1>2, <1>3, <1>5, <1>6, <1>7, <1>8 DEF RecordsTypeOK, activationVars
<1>12. \A q \in Runs : q # r => Untouched(q)
  BY <1>2, <1>5, <1>6, <1>7, <1>10, OtherRows DEF Untouched
<1>13. outcome[r][Target(r)] = "PENDING"
  BY <1>1 DEF RunInv, Unended
<1>14. \A j \in 1..3 : j # runLocal[r].step =>
         /\ Order[j] \in Targets /\ Order[j] # Target(r)
         /\ RowsOf(r, Order[j])' = RowsOf(r, Order[j])
         /\ outcome'[r][Order[j]] = outcome[r][Order[j]]
  <2> SUFFICES ASSUME NEW j \in 1..3, j # runLocal[r].step
               PROVE  /\ Order[j] \in Targets /\ Order[j] # Target(r)
                      /\ RowsOf(r, Order[j])' = RowsOf(r, Order[j])
                      /\ outcome'[r][Order[j]] = outcome[r][Order[j]]
    OBVIOUS
  <2>1. Order[j] \in Targets /\ Order[j] # Target(r)
    BY <1>1, OrderFacts
  <2> QED BY <1>2, <1>7, <2>1, OtherRows
<1>15. RunInv(r)'
  <2>1. \A j \in 1..3 : Unended(r, j)' =>
           j # runLocal[r].step /\ Unended(r, j) /\ j > runLocal[r].step
    BY <1>1, <1>4, <1>5, <1>6 DEF Unended
  <2>2. \A j \in 1..3 : Unbegun(r, j)' => j # runLocal[r].step /\ Unbegun(r, j)
    BY <1>1, <1>4, <1>5, <1>6 DEF Unbegun
  <2>3. x.step # 1 /\ to # "engine"
    BY <1>1, <1>4
  <2>4. Unbegun(r, 2)' => x.generation = {}
    <3>1. Unbegun(r, 2)' => Unbegun(r, 2)
      BY <2>2
    <3> QED BY <1>4, <3>1 DEF RunInv
  <2>5. \A g \in x.generation : recPc'[g] # "idle"
    BY <1>4, <1>10 DEF RunInv
  <2>6. \A j \in 1..3 : Unended(r, j)' => outcome'[r][Order[j]] = "PENDING"
    BY <1>14, <2>1 DEF RunInv
  <2>7. \A j \in 1..3 : Unbegun(r, j)' => RowsOf(r, Order[j])' = {}
    BY <1>14, <2>2 DEF RunInv
  <2> QED BY <1>5, <1>6, <2>3, <2>4, <2>5, <2>6, <2>7 DEF RunInv
<1>16. GenerationsApart'
  BY <1>4, <1>5 DEF GenerationsApart
<1>17. \A d \in diffs' : d \in diffs \/ DiffTells(d)'
  <2> SUFFICES ASSUME NEW d \in diffs', d \notin diffs PROVE DiffTells(d)'
    OBVIOUS
  <2>1. DiffTells(d)
    BY ReturnedTells
  <2> QED BY <1>3, <1>10, <2>1 DEF DiffTells, StatusIn, ReadinessIn
<1>18. \A target \in Targets : outcome'[r][target] = "SUCCEEDED" => Recorded(r, target)'
  <2> SUFFICES ASSUME NEW target \in Targets, outcome'[r][target] = "SUCCEEDED"
               PROVE  Recorded(r, target)'
    OBVIOUS
  <2>1. CASE target # Target(r)
    <3>1. RowsOf(r, target)' = RowsOf(r, target)
      BY <1>2, <2>1, OtherRows
    <3> QED BY <1>7, <1>8, <2>1, <3>1 DEF SuccessInv, Recorded
  <2>2. CASE target = Target(r)
    <3>1. /\ runPc[r] = "engine" /\ captured' = captured \cup {AfterRow(r)}
          /\ NewDiff(r) \in diffs'
      BY <1>7, <2>2
    <3>2. RowsOf(r, target) = {StateSnapshot(r, "BEFORE", runLocal[r].before)}
      BY <2>2, <3>1 DEF RunInv
    <3>3. RowsOf(r, target)' = RowsOf(r, target) \cup {AfterRow(r)}
      BY <1>2, <2>2, <3>1 DEF RowsOf
    <3>4. /\ NewDiff(r).run = r /\ NewDiff(r).target = target
          /\ NewDiff(r).before = runLocal[r].before /\ NewDiff(r).after = runLocal[r].after
      BY <2>2 DEF NewDiff
    <3>5. runLocal[r].before < runLocal[r].after
      <4>1. NewDiff(r) \in diffs => DiffTells(NewDiff(r))
        BY DEF DiffInv
      <4>2. NewDiff(r) \notin diffs => DiffTells(NewDiff(r))
        BY <3>1, ReturnedTells
      <4> QED BY <3>4, <4>1, <4>2 DEF DiffTells
    <3>6. PICK d \in diffs' : d = NewDiff(r)
      BY <3>1
    <3>7. AfterRow(r) = [run |-> r, target |-> target, type |-> "AFTER", state |-> d.after]
          /\ StateSnapshot(r, "BEFORE", runLocal[r].before)
             = [run |-> r, target |-> target, type |-> "BEFORE", state |-> d.before]
      BY <2>2, <3>4, <3>6 DEF AfterRow, StateSnapshot
    <3> QED BY <3>2, <3>3, <3>4, <3>5, <3>6, <3>7 DEF Recorded
  <2> QED BY <2>1, <2>2
<1>19. \A s \in 1..Len(snapshots) :
          \/ runLocal[r].after = s /\ Target(r) = "ELIGIBILITY"
          \/ outcome[r]["ELIGIBILITY"] = "FAILED"
          => Accounted(s)'
  <2> SUFFICES ASSUME NEW s \in 1..Len(snapshots),
                      \/ runLocal[r].after = s /\ Target(r) = "ELIGIBILITY"
                      \/ outcome[r]["ELIGIBILITY"] = "FAILED"
               PROVE  Accounted(s)'
    OBVIOUS
  <2>1. CASE outcome'[r]["ELIGIBILITY"] = "FAILED"
    BY <2>1 DEF Accounted
  <2>2. CASE outcome'[r]["ELIGIBILITY"] # "FAILED"
    <3>1. Target(r) = "ELIGIBILITY" /\ runLocal[r].after = s
      BY <1>7, <1>13, <2>2, OrderFacts
    <3>2. status = "SUCCEEDED"
      BY <1>7, <2>2, <3>1
    <3>3. NewDiff(r) \in diffs' /\ NewDiff(r).target = "ELIGIBILITY" /\ NewDiff(r).after = s
      BY <3>1, <3>2 DEF NewDiff
    <3> QED BY <3>3 DEF Accounted
  <2> QED BY <2>1, <2>2
<1>20. \A s \in 1..Len(snapshots') : s \in 1..Len(snapshots) \/ Accounted(s)'
  BY <1>10
<1> QED BY <1>9, <1>11, <1>12, <1>15, <1>16, <1>17, <1>18, <1>19, <1>20, RunsTogether

\* A citizen's answer, or no step at all.
LEMMA AnswerKeeps ==
    ASSUME RunsInv, (AnswerFact /\ UNCHANGED recommendationVars) \/ UNCHANGED decisionVars,
           UNCHANGED recordVars, UNCHANGED activationVars
    PROVE  RunsInv'
<1> USE DEF RunsInv
<1>1. DecisionInv' /\ StatesGrow
  BY DecisionsGrow DEF EligibilityNext, recordVars
<1>2. UNCHANGED <<snapshots, evalPc, portfolios, recPc, recLocal>>
  BY DecisionsRest DEF AnswerFact, recommendationVars
<1>3. RecordsTypeOK'
  BY DEF RecordsTypeOK, recordVars, activationVars
<1>4. \A q \in Runs : Untouched(q)
  BY <1>2 DEF Untouched, RowsOf, recordVars
<1>5. \A q \in Runs : RunInv(q)'
  BY <1>1, <1>3, <1>4, UntouchedKeeps
<1>6. GenerationsApart' /\ DiffInv' /\ SuccessInv' /\ StatesInv'
  BY <1>2 DEF recordVars, GenerationsApart, DiffInv, DiffTells, StatusIn, ReadinessIn, SuccessInv,
              Recorded, RowsOf, StatesInv, Accounted, Target
<1> QED BY <1>1, <1>3, <1>5, <1>6

LEMMA RecordsStep ==
    ASSUME RunsInv, RecordsNext, UNCHANGED activationVars
    PROVE  RunsInv'
<1>1. CASE AnswerFact /\ UNCHANGED <<recommendationVars, recordVars>>
  BY <1>1, AnswerKeeps
<1>2. ASSUME NEW r \in Runs, RunStep(r) PROVE RunsInv'
  <2>1. CASE SucceedStep(r)
    BY <2>1, EndKeeps DEF SucceedStep
  <2>2. CASE FailRunStep(r)
    BY <2>2, EndKeeps DEF FailRunStep
  <2> QED BY <1>2, <2>1, <2>2, CaptureKeeps, EvaluateAgainKeeps, GenerateAgainKeeps,
             JourneyAgainKeeps DEF RunStep
<1> QED BY <1>1, <1>2 DEF RecordsNext

-------------------------------------------------------------------------------
(* Activations *)

\* The row of an activation is written once.
LEMMA ActivationStep ==
    ASSUME RecordsTypeOK, ActivationInv, ActivationNext, UNCHANGED recordVars
    PROVE  RecordsTypeOK' /\ ActivationInv'
<1>1. PICK o \in Officers : FindActivation(o) \/ CreateActivation(o)
  BY DEF ActivationNext
<1>2. o # Nobody
  BY RecordsAssumption
<1>3. CASE FindActivation(o)
  BY <1>3 DEF FindActivation, OfficerGo, RecordsTypeOK, ActivationInv, recordVars
<1>4. CASE CreateActivation(o)
  BY <1>2, <1>4 DEF CreateActivation, OfficerGo, RecordsTypeOK, ActivationInv, recordVars
<1> QED BY <1>1, <1>3, <1>4

-------------------------------------------------------------------------------
(* Theorems *)

LEMMA RecordsInvInit == EligibilityInit /\ RecommendationInit /\ RecordsInit => RecordsInv
<1> SUFFICES ASSUME EligibilityInit, RecommendationInit, RecordsInit PROVE RecordsInv
  OBVIOUS
<1>1. DecisionInv /\ Len(snapshots) = 0
  BY DecisionInit DEF EligibilityInit
<1>2. /\ captured = {} /\ diffs = {} /\ runPc = [r \in Runs |-> "capture"]
      /\ runLocal = [r \in Runs |-> [step |-> 1, before |-> 0, after |-> 0, score |-> 0,
                                      generation |-> {}]]
      /\ outcome = [r \in Runs |-> [t \in Targets |-> "PENDING"]]
      /\ readiness = <<>>
      /\ officerPc = [o \in Officers |-> "idle"]
      /\ activation = Nobody /\ told = [o \in Officers |-> Nobody]
  BY DEF RecordsInit
<1>3. RecordsTypeOK
  BY <1>2, OrderFacts DEF RecordsTypeOK, RunPC, RunLocal
<1>4. \A r \in Runs : evalPc[r] = "idle"
  BY RecordsAssumption DEF EligibilityInit
<1>5. \A r \in Runs : RunInv(r)
  BY <1>2, <1>4, OrderFacts DEF RunInv, Unended, Unbegun, RowsOf
<1>6. GenerationsApart /\ DiffInv /\ SuccessInv /\ StatesInv /\ ActivationInv
  BY <1>1, <1>2 DEF GenerationsApart, DiffInv, SuccessInv, StatesInv, ActivationInv
<1> QED BY <1>1, <1>3, <1>5, <1>6 DEF RecordsInv, RunsInv

LEMMA RecordsInvStep ==
    ASSUME RecordsInv,
           \/ RecordsNext /\ UNCHANGED activationVars
           \/ ActivationNext /\ UNCHANGED <<decisionVars, recordVars>>
           \/ UNCHANGED <<decisionVars, recordVars, activationVars>>
    PROVE  RecordsInv'
<1> USE DEF RecordsInv
<1>1. CASE RecordsNext /\ UNCHANGED activationVars
  BY <1>1, RecordsStep DEF ActivationInv, activationVars
<1>2. CASE ActivationNext /\ UNCHANGED <<decisionVars, recordVars>>
  <2>1. RecordsTypeOK' /\ ActivationInv'
    BY <1>2, ActivationStep DEF RunsInv
  <2>2. DecisionInv' /\ StatesGrow
    BY <1>2, DecisionsGrow DEF recordVars
  <2>3. UNCHANGED <<snapshots, evalPc, portfolios, recPc, recLocal>>
    BY <1>2, DecisionsRest
  <2>4. \A q \in Runs : Untouched(q)
    BY <1>2, <2>3 DEF Untouched, RowsOf, recordVars
  <2>5. \A q \in Runs : RunInv(q)'
    BY <2>1, <2>2, <2>4, UntouchedKeeps DEF RunsInv
  <2>6. GenerationsApart' /\ DiffInv' /\ SuccessInv' /\ StatesInv'
    BY <1>2, <2>3
       DEF RunsInv, recordVars, GenerationsApart, DiffInv, DiffTells, StatusIn, ReadinessIn,
           SuccessInv, Recorded, RowsOf, StatesInv, Accounted, Target
  <2> QED BY <2>1, <2>2, <2>5, <2>6 DEF RunsInv
<1>3. CASE UNCHANGED <<decisionVars, recordVars, activationVars>>
  BY <1>3, AnswerKeeps DEF ActivationInv, activationVars
<1> QED BY <1>1, <1>2, <1>3

\* The inductive invariant: however many runs overlap, each has recorded what its steps
\* have come to, and every eligibility is accounted for.
THEOREM RecordsInvariance == RecordsSpec => []RecordsInv
<1>1. /\ RecordsInv
      /\ [\/ RecordsNext /\ UNCHANGED activationVars
          \/ ActivationNext /\ UNCHANGED <<decisionVars, recordVars>>
         ]_<<decisionVars, recordVars, activationVars>>
      => RecordsInv'
  BY RecordsInvStep
<1> QED BY <1>1, RecordsInvInit, PTL DEF RecordsSpec

\* The types of what a re-evaluation and an activation store and remember.
THEOREM RecordsTypeCorrectness == RecordsSpec => []RecordsTypeOK
<1>1. RecordsInv => RecordsTypeOK
  BY DEF RecordsInv, RunsInv
<1> QED BY <1>1, RecordsInvariance, PTL

\* What a succeeded step changed is recorded and told as it is, no eligibility goes
\* missing, and all officers are told of one activation.
THEOREM ChangesAreReported == RecordsSpec => []ChangesReported
<1>1. RecordsInv => ChangesReported
  <2> SUFFICES ASSUME RecordsInv PROVE ChangesReported
    OBVIOUS
  <2> USE DEF RecordsInv, RunsInv
  <2>1. \A r \in Runs, t \in Targets : outcome[r][t] = "SUCCEEDED" =>
          \E d \in diffs :
            /\ d.run = r /\ d.target = t /\ d.before < d.after
            /\ {c \in captured : c.run = r /\ c.target = t} =
                 {[run |-> r, target |-> t, type |-> "BEFORE", state |-> d.before],
                  [run |-> r, target |-> t, type |-> "AFTER", state |-> d.after]}
    BY DEF SuccessInv, Recorded, RowsOf
  <2>2. \A d \in diffs : d.before = d.after - 1 =>
          /\ d.target = "ELIGIBILITY" =>
               (d.material <=> StatusIn(d.after - 1) # StatusIn(d.after))
          /\ d.target = "JOURNEY" =>
               (d.material <=> ReadinessIn(d.after - 1) # ReadinessIn(d.after))
    BY DEF DiffInv, DiffTells
  <2>3. \A state \in DOMAIN snapshots :
          \/ \E d \in diffs : d.target = "ELIGIBILITY" /\ d.after = state
          \/ \E r \in Runs : \/ runLocal[r].after = state /\ Target(r) = "ELIGIBILITY"
                             \/ outcome[r]["ELIGIBILITY"] = "FAILED"
    BY RunTypes DEF StatesInv, Accounted
  <2>4. \A o \in Officers : officerPc[o] = "answered" => told[o] = activation
    BY DEF ActivationInv
  <2> QED BY <2>1, <2>2, <2>3, <2>4 DEF ChangesReported
<1> QED BY <1>1, RecordsInvariance, PTL

-------------------------------------------------------------------------------
(* Counting up, and sorting *)

\* Induction up to n.
LEMMA CountingUp ==
    ASSUME NEW n \in Nat, NEW P, 0 \in P, \A m \in 0..(n - 1) : m \in P => m + 1 \in P
    PROVE  0..n \subseteq P
<1>1. SUFFICES ASSUME NEW k \in 0..n, k \notin P PROVE FALSE
  OBVIOUS
<1>2. IsWellFoundedOn(OpToRel(<, Nat), Nat)
  BY NatLessThanWellFounded
<1>3. PICK missing : missing = {m \in Nat : m <= n /\ m \notin P}
  OBVIOUS
<1>4. missing \subseteq Nat /\ missing # {}
  BY <1>1, <1>3
<1>5. PICK m \in missing : \A i \in missing : <<i, m>> \notin OpToRel(<, Nat)
  BY <1>2, <1>4, WFMin, Zenon
<1>6. m \in Nat /\ m <= n /\ m \notin P /\ m # 0
  BY <1>3, <1>5
<1>7. m - 1 \in Nat /\ m - 1 \in 0..(n - 1) /\ m - 1 < m /\ m - 1 <= n /\ (m - 1) + 1 = m
  BY <1>6
<1>8. m - 1 \notin P
  BY <1>6, <1>7
<1>9. m - 1 \in missing
  BY <1>3, <1>7, <1>8
<1> QED BY <1>5, <1>6, <1>7, <1>9 DEF OpToRel

\* f is what becomes of x when F is applied n times.
Iteration(f, X, F, x, n) ==
    f \in [0..n -> X] /\ f[0] = x /\ \A m \in 1..n : f[m] = F[f[m - 1]]

\* A function may be applied again and again.
LEMMA Iterates ==
    ASSUME NEW X, NEW F, F \in [X -> X], NEW x, x \in X, NEW n, n \in Nat
    PROVE  \E f : Iteration(f, X, F, x, n)
<1> USE DEF Iteration
<1>1. PICK P : P = {m \in 0..n : \E f \in [0..m -> X] :
                      f[0] = x /\ \A i \in 1..m : f[i] = F[f[i - 1]]}
  OBVIOUS
<1>2. 0 \in P
  <2>1. PICK f : f = [m \in 0..0 |-> x]
    OBVIOUS
  <2>2. f \in [0..0 -> X] /\ f[0] = x /\ 1..0 = {} /\ 0 \in 0..n
    BY <2>1
  <2> QED BY <1>1, <2>2
<1>3. ASSUME NEW m \in 0..(n - 1), m \in P PROVE m + 1 \in P
  <2>1. PICK f \in [0..m -> X] : f[0] = x /\ \A i \in 1..m : f[i] = F[f[i - 1]]
    BY <1>1, <1>3
  <2>2. PICK g : g = [i \in 0..(m + 1) |-> IF i = m + 1 THEN F[f[m]] ELSE f[i]]
    OBVIOUS
  <2>3. m \in Nat /\ m + 1 \in 0..n /\ f[m] \in X
    OBVIOUS
  <2>4. g \in [0..(m + 1) -> X]
    BY <2>2, <2>3
  <2>5. g[0] = x
    BY <2>1, <2>2, <2>3
  <2>6. \A i \in 1..(m + 1) : g[i] = F[g[i - 1]]
    <3> TAKE i \in 1..(m + 1)
    <3>1. CASE i = m + 1
      BY <2>2, <2>3, <3>1
    <3>2. CASE i # m + 1
      <4>1. i \in 1..m /\ i \in 0..(m + 1) /\ i - 1 \in 0..(m + 1) /\ i - 1 # m + 1
        BY <2>3, <3>2
      <4> QED BY <2>1, <2>2, <3>2, <4>1
    <3> QED BY <3>1, <3>2
  <2> QED BY <1>1, <2>3, <2>4, <2>5, <2>6
<1>4. n \in P
  <2>1. 0..n \subseteq P
    BY <1>2, <1>3, CountingUp
  <2> QED BY <2>1
<1> QED BY <1>1, <1>4

\* A sequence without repetitions.
Once(s) == \A i, j \in DOMAIN s : s[i] = s[j] => i = j

LEMMA InOrderFacts ==
    ASSUME NEW T, NEW S, S \subseteq T, IsFiniteSet(S), S \subseteq Nat
    PROVE  InOrder(S) \in Seq(T) /\ Once(InOrder(S)) /\ ToSet(InOrder(S)) = S
<1>1. PICK n \in Nat : n = Cardinality(S)
  BY FS_CardinalityType
<1>2. PICK below : below = [c \in S |-> {e \in S : e < c}]
  OBVIOUS
<1>3. PICK rank : rank = [c \in S |-> Cardinality(below[c])]
  OBVIOUS
<1>4. Ranks(S, below, rank)
  BY <1>2, <1>3 DEF Ranks
<1>5. /\ \A c \in S : rank[c] \in 0..(n - 1)
      /\ \A i \in 0..(n - 1) : \E c \in S : rank[c] = i
      /\ \A a, b \in S : rank[a] = rank[b] => a = b
  BY ONLY <1>1, <1>4, Ranking, SMTT(30)
<1>6. PICK s : s = InOrder(S)
  OBVIOUS
<1>7. s = [i \in 1..n |-> CHOOSE c \in S : Cardinality({t \in S : t < c}) = i - 1]
  BY <1>1, <1>6 DEF InOrder
<1>8. \A i \in 1..n : s[i] \in S /\ rank[s[i]] = i - 1
  <2> TAKE i \in 1..n
  <2>1. \A c \in S : Cardinality({t \in S : t < c}) = rank[c]
    BY <1>2, <1>3
  <2>2. \E c \in S : Cardinality({t \in S : t < c}) = i - 1
    <3>1. PICK c \in S : rank[c] = i - 1
      BY <1>5
    <3> QED BY <2>1, <3>1
  <2>3. s[i] \in S /\ Cardinality({t \in S : t < s[i]}) = i - 1
    BY <1>7, <2>2
  <2> QED BY <2>1, <2>3
<1>9. s \in Seq(T) /\ DOMAIN s = 1..n
  <2>1. s \in [1..n -> T]
    BY <1>7, <1>8
  <2> QED BY <2>1
<1>10. Once(s)
  BY <1>8, <1>9 DEF Once
<1>11. ToSet(s) = S
  <2>1. ASSUME NEW c \in S PROVE \E i \in 1..n : s[i] = c
    <3>1. PICK i \in 1..n : i = rank[c] + 1
      BY <1>1, <1>5
    <3>2. rank[s[i]] = rank[c] /\ s[i] \in S
      BY <1>5, <1>8, <3>1
    <3> QED BY <1>5, <3>2
  <2> QED BY <1>8, <1>9, <2>1 DEF ToSet
<1> QED BY <1>6, <1>9, <1>10, <1>11

LEMMA ConcatOnce ==
    ASSUME NEW S, NEW a \in Seq(S), NEW b \in Seq(S), Once(a), Once(b), ToSet(a) \cap ToSet(b) = {}
    PROVE  a \o b \in Seq(S) /\ Once(a \o b) /\ ToSet(a \o b) = ToSet(a) \cup ToSet(b)
<1>1. /\ a \o b \in Seq(S) /\ Len(a \o b) = Len(a) + Len(b)
      /\ \A i \in 1..(Len(a) + Len(b)) : (a \o b)[i] = IF i <= Len(a) THEN a[i] ELSE b[i - Len(a)]
  BY ConcatProperties
<1>2. PICK c : c = a \o b
  OBVIOUS
<1>3. PICK k \in Nat, m \in Nat : k = Len(a) /\ m = Len(b) /\ DOMAIN a = 1..k /\ DOMAIN b = 1..m
  OBVIOUS
<1>4. /\ DOMAIN c = 1..(k + m)
      /\ \A i \in 1..(k + m) : c[i] = IF i <= k THEN a[i] ELSE b[i - k]
  BY <1>1, <1>2, <1>3
<1>5. \A i \in 1..k, j \in 1..m : a[i] # b[j]
  BY <1>3 DEF ToSet
<1>6. Once(c)
  <2> SUFFICES ASSUME NEW i \in 1..(k + m), NEW j \in 1..(k + m), c[i] = c[j] PROVE i = j
    BY <1>4 DEF Once
  <2>1. CASE i <= k /\ j <= k
    BY <1>3, <1>4, <2>1 DEF Once
  <2>2. CASE i > k /\ j > k
    <3>1. i - k \in 1..m /\ j - k \in 1..m /\ b[i - k] = b[j - k]
      BY <1>4, <2>2
    <3>2. i - k = j - k
      BY <1>3, <3>1 DEF Once
    <3> QED BY <3>2
  <2>3. CASE i <= k /\ j > k
    <3>1. i \in 1..k /\ j - k \in 1..m /\ a[i] = b[j - k]
      BY <1>4, <2>3
    <3> QED BY <1>5, <3>1
  <2>4. CASE i > k /\ j <= k
    <3>1. j \in 1..k /\ i - k \in 1..m /\ a[j] = b[i - k]
      BY <1>4, <2>4
    <3> QED BY <1>5, <3>1
  <2> QED BY <2>1, <2>2, <2>3, <2>4
<1>7. ToSet(c) = ToSet(a) \cup ToSet(b)
  <2>1. \A i \in 1..(k + m) : c[i] \in ToSet(a) \cup ToSet(b)
    <3> TAKE i \in 1..(k + m)
    <3>1. i <= k => i \in 1..k
      OBVIOUS
    <3>2. ~(i <= k) => i - k \in 1..m
      OBVIOUS
    <3> QED BY <1>3, <1>4, <3>1, <3>2 DEF ToSet
  <2>2. \A i \in 1..k : i \in 1..(k + m) /\ c[i] = a[i]
    BY <1>4
  <2>3. \A j \in 1..m : j + k \in 1..(k + m) /\ c[j + k] = b[j]
    <3> TAKE j \in 1..m
    <3>1. j + k \in 1..(k + m) /\ ~(j + k <= k) /\ (j + k) - k = j
      OBVIOUS
    <3> QED BY <1>4, <3>1
  <2>4. ToSet(c) = {c[i] : i \in 1..(k + m)}
    BY <1>4 DEF ToSet
  <2>5. ToSet(a) = {a[i] : i \in 1..k} /\ ToSet(b) = {b[j] : j \in 1..m}
    BY <1>3 DEF ToSet
  <2>6. ToSet(a) \cup ToSet(b) \subseteq ToSet(c)
    BY <2>2, <2>3, <2>4, <2>5
  <2>7. ToSet(c) \subseteq ToSet(a) \cup ToSet(b)
    BY <2>1, <2>4
  <2> QED BY <2>6, <2>7
<1> QED BY <1>1, <1>2, <1>6, <1>7

LEMMA TailOnce ==
    ASSUME NEW S, NEW q \in Seq(S), q # <<>>, Once(q)
    PROVE  /\ Tail(q) \in Seq(S) /\ Once(Tail(q)) /\ Head(q) \in S
           /\ Head(q) \notin ToSet(Tail(q)) /\ ToSet(q) = ToSet(Tail(q)) \cup {Head(q)}
<1>1. /\ Head(q) \in S /\ Tail(q) \in Seq(S) /\ Len(Tail(q)) = Len(q) - 1
      /\ \A i \in 1..(Len(q) - 1) : Tail(q)[i] = q[i + 1]
  BY HeadTailProperties
<1>2. PICK n \in Nat : n = Len(q) /\ n > 0 /\ DOMAIN q = 1..n /\ Head(q) = q[1]
  BY EmptySeq
<1>3. PICK t : t = Tail(q)
  OBVIOUS
<1>4. DOMAIN t = 1..(n - 1) /\ \A i \in 1..(n - 1) : t[i] = q[i + 1] /\ i + 1 \in 1..n
  BY <1>1, <1>2, <1>3
<1>5. Once(t)
  <2> SUFFICES ASSUME NEW i \in 1..(n - 1), NEW j \in 1..(n - 1), t[i] = t[j] PROVE i = j
    BY <1>4 DEF Once
  <2>1. i + 1 = j + 1
    BY <1>2, <1>4 DEF Once
  <2> QED BY <2>1
<1>6. q[1] \notin ToSet(t)
  <2> SUFFICES ASSUME NEW i \in 1..(n - 1), t[i] = q[1] PROVE FALSE
    BY <1>4 DEF ToSet
  <2>1. 1 \in 1..n /\ i + 1 = 1
    BY <1>2, <1>4 DEF Once
  <2> QED BY <2>1
<1>7. ToSet(q) = ToSet(t) \cup {q[1]}
  <2>1. \A i \in 1..n : i = 1 \/ (i - 1 \in 1..(n - 1) /\ q[i] = t[i - 1])
    <3> TAKE i \in 1..n
    <3>1. i # 1 => i - 1 \in 1..(n - 1) /\ (i - 1) + 1 = i
      OBVIOUS
    <3> QED BY <1>4, <3>1
  <2>2. ToSet(q) = {q[i] : i \in 1..n} /\ ToSet(t) = {t[i] : i \in 1..(n - 1)} /\ 1 \in 1..n
    BY <1>2, <1>4 DEF ToSet
  <2>3. ToSet(q) \subseteq ToSet(t) \cup {q[1]}
    BY <2>1, <2>2
  <2>4. ToSet(t) \cup {q[1]} \subseteq ToSet(q)
    BY <1>4, <2>2
  <2> QED BY <2>3, <2>4
<1> QED BY <1>1, <1>2, <1>3, <1>5, <1>6, <1>7

LEMMA AppendOnce ==
    ASSUME NEW S, NEW s \in Seq(S), NEW u \in S, Once(s), u \notin ToSet(s)
    PROVE  /\ Append(s, u) \in Seq(S) /\ Once(Append(s, u)) /\ Len(Append(s, u)) = Len(s) + 1
           /\ ToSet(Append(s, u)) = ToSet(s) \cup {u}
           /\ \A i \in 1..Len(s) : Append(s, u)[i] = s[i]
           /\ Append(s, u)[Len(s) + 1] = u
<1>1. PICK n \in Nat : n = Len(s) /\ DOMAIN s = 1..n
  OBVIOUS
<1>2. PICK t : t = Append(s, u)
  OBVIOUS
<1>3. /\ t \in Seq(S) /\ Len(t) = n + 1 /\ DOMAIN t = 1..(n + 1)
      /\ \A i \in 1..n : t[i] = s[i]
      /\ t[n + 1] = u
  BY <1>1, <1>2, AppendProperties
<1>4. \A i \in 1..n : t[i] # u
  BY <1>1, <1>3 DEF ToSet
<1>5. \A i \in 1..(n + 1) : i \in 1..n \/ i = n + 1
  OBVIOUS
<1>6. Once(t)
  BY <1>1, <1>3, <1>4, <1>5 DEF Once
<1>7. ToSet(t) = ToSet(s) \cup {u}
  <2>1. n + 1 \in 1..(n + 1) /\ \A i \in 1..n : i \in 1..(n + 1)
    OBVIOUS
  <2> QED BY <1>1, <1>3, <1>5, <2>1 DEF ToSet
<1> QED BY <1>1, <1>2, <1>3, <1>6, <1>7

\* A sequence without repetitions is as long as its set is large.
LEMMA OnceLength ==
    ASSUME NEW S, IsFiniteSet(S), NEW s \in Seq(S), Once(s)
    PROVE  Len(s) <= Cardinality(S) /\ (ToSet(s) = S <=> Len(s) = Cardinality(S))
<1>1. PICK n \in Nat : n = Len(s) /\ DOMAIN s = 1..n
  OBVIOUS
<1>2. ToSet(s) \subseteq S /\ IsFiniteSet(ToSet(s))
  <2>1. ToSet(s) \subseteq S
    BY <1>1 DEF ToSet
  <2> QED BY <2>1, FS_Subset
<1>3. s \in Bijection(1..n, ToSet(s))
  <2>1. s \in [1..n -> ToSet(s)]
    BY <1>1 DEF ToSet
  <2>2. \A e \in ToSet(s) : \E i \in 1..n : s[i] = e
    BY <1>1 DEF ToSet
  <2>3. \A i, j \in 1..n : s[i] = s[j] => i = j
    BY <1>1 DEF Once
  <2> QED BY <2>1, <2>2, <2>3 DEF Bijection, Injection, Surjection, IsInjective
<1>4. IsFiniteSet(1..n) /\ Cardinality(1..n) = n
  <2>1. 1 \in Int /\ n \in Int
    OBVIOUS
  <2>2. IsFiniteSet(1..n) /\ Cardinality(1..n) = IF 1 > n THEN 0 ELSE n - 1 + 1
    BY <2>1, FS_Interval
  <2> QED BY <2>2
<1>5. Cardinality(ToSet(s)) = n
  BY <1>3, <1>4, FS_Bijection DEF ExistsBijection
<1>6. /\ Cardinality(ToSet(s)) <= Cardinality(S)
      /\ Cardinality(ToSet(s)) = Cardinality(S) => ToSet(s) = S
  BY <1>2, FS_Subset
<1> QED BY <1>1, <1>5, <1>6

-------------------------------------------------------------------------------
(* Sorting *)

\* What topologicalSort has done after n turns: every step whose prerequisites are sorted
\* is sorted or queued, once, and nothing was sorted before what it waits for.
SortedSoFar(graph, S, queue, sorted, n) ==
    /\ queue \in Seq(S) /\ sorted \in Seq(S)
    /\ Once(queue) /\ Once(sorted) /\ ToSet(queue) \cap ToSet(sorted) = {}
    /\ Len(sorted) <= n /\ (queue # <<>> => Len(sorted) = n)
    /\ \A i \in DOMAIN sorted : \A p \in Waiting(graph, sorted[i], S) :
         \E j \in DOMAIN sorted : j < i /\ sorted[j] = p
    /\ \A s \in S : Waiting(graph, s, S) \subseteq ToSet(sorted) <=>
                      s \in ToSet(sorted) \cup ToSet(queue)

LEMMA SortTurnKeeps ==
    ASSUME NEW graph, NEW S, IsFiniteSet(S), S \subseteq Nat, NEW n \in Nat,
           NEW st, SortedSoFar(graph, S, st.queue, st.sorted, n),
           NEW next, next = SortTurn(graph, S, st)
    PROVE  SortedSoFar(graph, S, next.queue, next.sorted, n + 1)
<1>1. CASE st.queue = <<>>
  <2>1. next = st
    BY <1>1 DEF SortTurn
  <2>2. PICK queue, sorted : queue = st.queue /\ sorted = st.sorted
    OBVIOUS
  <2>3. SortedSoFar(graph, S, queue, sorted, n) /\ queue = <<>> /\ Len(sorted) \in Nat
    BY <1>1, <2>2 DEF SortedSoFar
  <2>4. Len(sorted) <= n => Len(sorted) <= n + 1
    BY <2>3
  <2>5. SortedSoFar(graph, S, queue, sorted, n + 1)
    BY <2>3, <2>4 DEF SortedSoFar
  <2> QED BY <2>1, <2>2, <2>5
<1>2. CASE st.queue # <<>>
  <2>1. PICK queue \in Seq(S), sorted \in Seq(S) : queue = st.queue /\ sorted = st.sorted
    BY DEF SortedSoFar
  <2>2. /\ queue # <<>> /\ Once(queue) /\ Once(sorted) /\ ToSet(queue) \cap ToSet(sorted) = {}
        /\ Len(sorted) = n
        /\ \A i \in DOMAIN sorted : \A p \in Waiting(graph, sorted[i], S) :
             \E j \in DOMAIN sorted : j < i /\ sorted[j] = p
        /\ \A s \in S : Waiting(graph, s, S) \subseteq ToSet(sorted) <=>
                          s \in ToSet(sorted) \cup ToSet(queue)
    BY <1>2, <2>1 DEF SortedSoFar
  <2>3. PICK u : u = Head(queue)
    OBVIOUS
  <2>4. PICK tail : tail = Tail(queue)
    OBVIOUS
  <2>5. /\ tail \in Seq(S) /\ Once(tail) /\ u \in S /\ u \notin ToSet(tail)
        /\ ToSet(queue) = ToSet(tail) \cup {u}
    BY <2>2, <2>3, <2>4, TailOnce
  <2>6. u \notin ToSet(sorted)
    BY <2>2, <2>5
  <2>7. PICK longer : longer = Append(sorted, u)
    OBVIOUS
  <2>8. /\ longer \in Seq(S) /\ Once(longer) /\ Len(longer) = n + 1
        /\ ToSet(longer) = ToSet(sorted) \cup {u}
        /\ \A i \in 1..n : longer[i] = sorted[i]
        /\ longer[n + 1] = u
    BY <2>2, <2>5, <2>6, <2>7, AppendOnce
  <2>9. PICK released : released = Released(graph, S, u, st)
    OBVIOUS
  <2>10. released = {s \in S : /\ u \in Waiting(graph, s, S)
                               /\ Waiting(graph, s, S) \subseteq ToSet(sorted) \cup {u}}
    BY <2>1, <2>9 DEF Released
  <2>11. PICK more : more = InOrder(released)
    OBVIOUS
  <2>12. more \in Seq(S) /\ Once(more) /\ ToSet(more) = released
    <3>1. released \subseteq S /\ released \subseteq Nat
      BY <2>10
    <3>2. IsFiniteSet(released)
      BY <3>1, FS_Subset
    <3> QED BY <2>11, <3>1, <3>2, InOrderFacts
  <2>13. released \cap (ToSet(sorted) \cup ToSet(queue)) = {}
    BY <2>2, <2>6, <2>10
  <2>14. ToSet(tail) \cap ToSet(more) = {}
    BY <2>5, <2>12, <2>13
  <2>15. PICK later : later = tail \o more
    OBVIOUS
  <2>16. later \in Seq(S) /\ Once(later) /\ ToSet(later) = ToSet(tail) \cup released
    BY <2>5, <2>12, <2>14, <2>15, ConcatOnce
  <2>17. ToSet(later) \cap ToSet(longer) = {}
    BY <2>2, <2>5, <2>8, <2>13, <2>16
  <2>18. \A s \in S : Waiting(graph, s, S) \subseteq ToSet(longer) <=>
                        s \in ToSet(longer) \cup ToSet(later)
    <3> TAKE s \in S
    <3>1. CASE u \in Waiting(graph, s, S)
      <4>1. s \in released <=> Waiting(graph, s, S) \subseteq ToSet(longer)
        BY <2>8, <2>10, <3>1
      <4>2. s \notin ToSet(sorted) \cup ToSet(queue)
        BY <2>2, <2>6, <3>1
      <4> QED BY <2>5, <2>8, <2>16, <4>1, <4>2
    <3>2. CASE u \notin Waiting(graph, s, S)
      <4>1. Waiting(graph, s, S) \subseteq ToSet(longer) <=> Waiting(graph, s, S) \subseteq ToSet(sorted)
        BY <2>8, <3>2
      <4>2. s \notin released
        BY <2>10, <3>2
      <4> QED BY <2>2, <2>5, <2>8, <2>16, <4>1, <4>2
    <3> QED BY <3>1, <3>2
  <2>19. \A i \in DOMAIN longer : \A p \in Waiting(graph, longer[i], S) :
           \E j \in DOMAIN longer : j < i /\ longer[j] = p
    <3>1. DOMAIN longer = 1..(n + 1) /\ DOMAIN sorted = 1..n
      BY <2>2, <2>8
    <3> SUFFICES ASSUME NEW i \in 1..(n + 1), NEW p \in Waiting(graph, longer[i], S)
                 PROVE  \E j \in 1..(n + 1) : j < i /\ longer[j] = p
      BY <3>1
    <3>2. CASE i = n + 1
      <4>1. Waiting(graph, u, S) \subseteq ToSet(sorted)
        BY <2>2, <2>5
      <4>2. p \in ToSet(sorted)
        BY <2>8, <3>2, <4>1
      <4>3. PICK j \in 1..n : sorted[j] = p
        BY <3>1, <4>2 DEF ToSet
      <4>4. j \in 1..(n + 1) /\ j < i /\ longer[j] = p
        BY <2>8, <3>2, <4>3
      <4> QED BY <4>4
    <3>3. CASE i # n + 1
      <4>1. i \in 1..n /\ longer[i] = sorted[i]
        BY <2>8, <3>3
      <4>2. PICK j \in 1..n : j < i /\ sorted[j] = p
        BY <2>2, <3>1, <4>1
      <4>3. j \in 1..(n + 1) /\ longer[j] = p
        BY <2>8, <4>2
      <4> QED BY <4>2, <4>3
    <3> QED BY <3>2, <3>3
  <2>20. next = [queue |-> later, sorted |-> longer]
    BY <1>2, <2>1, <2>3, <2>4, <2>7, <2>9, <2>11, <2>15 DEF SortTurn
  <2>21. next.queue = later /\ next.sorted = longer
    BY <2>20
  <2>22. SortedSoFar(graph, S, later, longer, n + 1)
    BY <2>8, <2>16, <2>17, <2>18, <2>19 DEF SortedSoFar
  <2> QED BY <2>21, <2>22
<1> QED BY <1>1, <1>2

\* Each step once, after all it waits for, and as many as there is an order for.
RightOrder(graph, S, sorted) ==
    /\ sorted \in Seq(S) /\ Once(sorted)
    /\ \A i \in DOMAIN sorted : \A p \in Waiting(graph, sorted[i], S) :
         \E j \in DOMAIN sorted : j < i /\ sorted[j] = p
    /\ \A s \in S : Waiting(graph, s, S) \subseteq ToSet(sorted) => s \in ToSet(sorted)

\* What topologicalSort returns.
LEMMA SortedFacts ==
    ASSUME NEW graph, NEW S, IsFiniteSet(S), S \subseteq Nat, NEW sorted,
           sorted = Sorted(graph, S)
    PROVE  RightOrder(graph, S, sorted)
<1>1. PICK N \in Nat : N = Cardinality(S)
  BY FS_CardinalityType
<1>2. PICK free : free = {s \in S : Waiting(graph, s, S) = {}}
  OBVIOUS
<1>3. PICK queue : queue = InOrder(free)
  OBVIOUS
<1>4. PICK start : start = [queue |-> queue, sorted |-> <<>>]
  OBVIOUS
<1>5. /\ SortedSoFar(graph, S, start.queue, start.sorted, 0)
      /\ start \in [queue : Seq(S), sorted : Seq(S)]
  <2>1. free \subseteq S /\ free \subseteq Nat
    BY <1>2
  <2>2. IsFiniteSet(free)
    BY <2>1, FS_Subset
  <2>3. queue \in Seq(S) /\ Once(queue) /\ ToSet(queue) = free
    BY <1>3, <2>1, <2>2, InOrderFacts
  <2>4. start.queue = queue /\ start.sorted = <<>>
    BY <1>4
  <2>5. <<>> \in Seq(S) /\ Len(<<>>) = 0 /\ DOMAIN <<>> = {} /\ ToSet(<<>>) = {}
    BY DEF ToSet
  <2>6. Once(<<>>)
    BY <2>5 DEF Once
  <2>7. \A s \in S : Waiting(graph, s, S) \subseteq {} <=> s \in free
    BY <1>2
  <2>8. SortedSoFar(graph, S, queue, <<>>, 0)
    BY <2>3, <2>5, <2>6, <2>7 DEF SortedSoFar
  <2> QED BY <1>4, <2>3, <2>4, <2>5, <2>8
<1>6. PICK States : States = [queue : Seq(S), sorted : Seq(S)]
  OBVIOUS
<1>7. PICK F : F = [st \in States |-> SortTurn(graph, S, st)]
  OBVIOUS
<1>8. F \in [States -> States]
  <2> SUFFICES ASSUME NEW st \in States PROVE SortTurn(graph, S, st) \in States
    BY <1>7
  <2>1. st.queue \in Seq(S) /\ st.sorted \in Seq(S)
    BY <1>6
  <2>2. CASE st.queue # <<>>
    <3>1. Head(st.queue) \in S /\ Tail(st.queue) \in Seq(S)
      BY <2>1, <2>2, HeadTailProperties
    <3>2. PICK u \in S, tail \in Seq(S) : u = Head(st.queue) /\ tail = Tail(st.queue)
      BY <3>1
    <3>3. PICK released : released = Released(graph, S, u, st)
      OBVIOUS
    <3>4. released \subseteq S
      BY <3>3 DEF Released
    <3>5. IsFiniteSet(released) /\ released \subseteq Nat
      BY <3>4, FS_Subset
    <3>6. PICK more \in Seq(S) : more = InOrder(released)
      BY <3>4, <3>5, InOrderFacts
    <3>7. PICK later : later = tail \o more
      OBVIOUS
    <3>8. PICK longer : longer = Append(st.sorted, u)
      OBVIOUS
    <3>9. later \in Seq(S) /\ longer \in Seq(S)
      BY <2>1, <3>7, <3>8, ConcatProperties, AppendProperties
    <3>10. SortTurn(graph, S, st) = [queue |-> later, sorted |-> longer]
      BY <2>2, <3>2, <3>3, <3>6, <3>7, <3>8 DEF SortTurn
    <3> QED BY <1>6, <3>9, <3>10
  <2> QED BY <2>2 DEF SortTurn
<1>9. PICK turn \in [0..N -> States] :
         turn[0] = start /\ \A n \in 1..N : turn[n] = SortTurn(graph, S, turn[n - 1])
  <2>1. start \in States
    BY <1>5, <1>6
  <2>2. PICK f : Iteration(f, States, F, start, N)
    BY <1>8, <2>1, Iterates
  <2>3. \A n \in 1..N : f[n] = SortTurn(graph, S, f[n - 1])
    <3> TAKE n \in 1..N
    <3>1. f[n - 1] \in States
      BY <2>2 DEF Iteration
    <3> QED BY <1>7, <2>2, <3>1 DEF Iteration
  <2> QED BY <2>2, <2>3 DEF Iteration
<1>10. turn = [n \in 0..N |-> IF n = 0 THEN start ELSE SortTurn(graph, S, turn[n - 1])]
  <2>1. \A n \in 0..N : turn[n] = IF n = 0 THEN start ELSE SortTurn(graph, S, turn[n - 1])
    BY <1>9
  <2> QED BY <2>1
<1>11. PICK loop : loop = CHOOSE f : f = [n \in 0..N |-> IF n = 0 THEN start
                                          ELSE SortTurn(graph, S, f[n - 1])]
  OBVIOUS
<1>12. loop = [n \in 0..N |-> IF n = 0 THEN start ELSE SortTurn(graph, S, loop[n - 1])]
  BY <1>10, <1>11
<1>13. sorted = loop[N].sorted
  BY <1>1, <1>2, <1>3, <1>4, <1>11 DEF Sorted
<1>14. \A n \in 0..N : SortedSoFar(graph, S, loop[n].queue, loop[n].sorted, n)
  <2>1. PICK P : P = {n \in Nat : SortedSoFar(graph, S, loop[n].queue, loop[n].sorted, n)}
    OBVIOUS
  <2>2. 0 \in P
    BY <1>5, <1>12, <2>1
  <2>3. ASSUME NEW n \in 0..(N - 1), n \in P PROVE n + 1 \in P
    <3>1. n + 1 \in 0..N /\ n + 1 # 0 /\ (n + 1) - 1 = n /\ n \in Nat /\ n + 1 \in Nat
      OBVIOUS
    <3>2. loop[n + 1] = SortTurn(graph, S, loop[n])
      BY <1>12, <3>1
    <3>3. PICK st, next : st = loop[n] /\ next = loop[n + 1]
      OBVIOUS
    <3>4. SortedSoFar(graph, S, st.queue, st.sorted, n) /\ next = SortTurn(graph, S, st)
      BY <2>1, <2>3, <3>2, <3>3
    <3>5. SortedSoFar(graph, S, next.queue, next.sorted, n + 1)
      BY <3>1, <3>4, SortTurnKeeps
    <3> QED BY <2>1, <3>1, <3>3, <3>5
  <2>4. 0..N \subseteq P
    BY <2>2, <2>3, CountingUp
  <2> QED BY <2>1, <2>4
<1>15. PICK last : last = loop[N].queue
  OBVIOUS
<1>16. SortedSoFar(graph, S, last, sorted, N)
  <2>1. N \in 0..N
    OBVIOUS
  <2> QED BY <1>13, <1>14, <1>15, <2>1
<1>17. last = <<>>
  <2> SUFFICES ASSUME last # <<>> PROVE FALSE
    OBVIOUS
  <2>1. /\ sorted \in Seq(S) /\ Once(sorted) /\ Len(sorted) = N
        /\ last \in Seq(S) /\ ToSet(last) \cap ToSet(sorted) = {}
    BY <1>16 DEF SortedSoFar
  <2>2. ToSet(sorted) = S
    BY <1>1, <2>1, OnceLength
  <2>3. 1 \in DOMAIN last /\ last[1] \in S
    BY <2>1, EmptySeq
  <2>4. last[1] \in ToSet(last)
    BY <2>3 DEF ToSet
  <2> QED BY <2>1, <2>2, <2>3, <2>4
<1>18. ToSet(last) = {}
  BY <1>17 DEF ToSet
<1> QED BY <1>16, <1>18 DEF SortedSoFar, RightOrder

\* Sorting succeeds exactly when the steps can be ranked.
LEMMA SortedIfOrderable ==
    ASSUME NEW graph, NEW S, IsFiniteSet(S), S \subseteq Nat, NEW sorted,
           sorted = Sorted(graph, S)
    PROVE  Orderable(graph, S) <=> Len(sorted) = Cardinality(S)
<1>1. /\ sorted \in Seq(S) /\ Once(sorted)
      /\ \A i \in DOMAIN sorted : \A p \in Waiting(graph, sorted[i], S) :
           \E j \in DOMAIN sorted : j < i /\ sorted[j] = p
      /\ \A s \in S : Waiting(graph, s, S) \subseteq ToSet(sorted) => s \in ToSet(sorted)
  <2>1. RightOrder(graph, S, sorted)
    BY SortedFacts
  <2> QED BY <2>1 DEF RightOrder
<1>2. ToSet(sorted) = S <=> Len(sorted) = Cardinality(S)
  BY <1>1, OnceLength
<1>3. PICK N \in Nat : N = Cardinality(S)
  BY FS_CardinalityType
<1>4. \A s \in S : Waiting(graph, s, S) \subseteq S
  BY DEF Waiting
<1>5. ASSUME Len(sorted) = N PROVE Orderable(graph, S)
  <2>1. ToSet(sorted) = S /\ DOMAIN sorted = 1..N
    BY <1>1, <1>2, <1>3, <1>5
  <2>2. \A s \in S : \E i \in 1..N : sorted[i] = s
    BY <2>1 DEF ToSet
  <2>3. PICK rank : rank = [s \in S |-> CHOOSE i \in 1..N : sorted[i] = s]
    OBVIOUS
  <2>4. \A s \in S : rank[s] \in 1..N /\ sorted[rank[s]] = s
    BY <2>2, <2>3
  <2>5. rank \in [S -> 1..N]
    BY <2>3, <2>4
  <2>6. ASSUME NEW s \in S, NEW p \in Waiting(graph, s, S) PROVE rank[p] < rank[s]
    <3>1. PICK i \in 1..N : i = rank[s] /\ sorted[i] = s
      BY <2>4
    <3>2. PICK j \in 1..N : j < i /\ sorted[j] = p
      BY <1>1, <2>1, <2>6, <3>1
    <3>3. p \in S
      BY <1>4, <2>6
    <3>4. sorted[rank[p]] = sorted[j] /\ rank[p] \in 1..N
      BY <2>4, <3>2, <3>3
    <3>5. rank[p] = j
      BY <1>1, <2>1, <3>2, <3>4 DEF Once
    <3> QED BY <3>1, <3>2, <3>5
  <2> QED BY <1>3, <2>5, <2>6 DEF Orderable
<1>6. ASSUME Orderable(graph, S) PROVE ToSet(sorted) = S
  <2>1. PICK rank \in [S -> 1..N] :
           \A s \in S : \A p \in Waiting(graph, s, S) : rank[p] < rank[s]
    BY <1>3, <1>6 DEF Orderable
  <2>2. ToSet(sorted) \subseteq S
    BY <1>1 DEF ToSet
  <2>3. SUFFICES ASSUME NEW e \in S, e \notin ToSet(sorted) PROVE FALSE
    BY <2>2
  <2>4. PICK missing : missing = {rank[s] : s \in S \ ToSet(sorted)}
    OBVIOUS
  <2>5. missing \subseteq Nat /\ missing # {}
    BY <2>1, <2>3, <2>4
  <2>6. IsWellFoundedOn(OpToRel(<, Nat), Nat)
    BY NatLessThanWellFounded
  <2>7. PICK m \in missing : \A k \in missing : <<k, m>> \notin OpToRel(<, Nat)
    BY <2>5, <2>6, WFMin, Zenon
  <2>8. PICK s \in S \ ToSet(sorted) : m = rank[s]
    BY <2>4
  <2>9. ASSUME NEW p \in Waiting(graph, s, S) PROVE p \in ToSet(sorted)
    <3>0. s \in S /\ p \in S
      BY <1>4, <2>8, <2>9
    <3>1. rank[p] < m /\ rank[p] \in Nat /\ m \in Nat
      BY <2>1, <2>8, <2>9, <3>0
    <3>2. rank[p] \notin missing
      BY <2>7, <3>1 DEF OpToRel
    <3> QED BY <2>4, <3>0, <3>2
  <2> QED BY <1>1, <2>8, <2>9
<1> QED BY <1>2, <1>3, <1>5, <1>6

\* The steps a blueprint inherits are finitely many.
LEMMA InheritedFacts ==
    ASSUME NEW b \in Blueprints
    PROVE  IsFiniteSet(InheritedSteps(b)) /\ InheritedSteps(b) \subseteq Nat
<1>1. PICK N \in Nat : N = Cardinality(Blueprints)
  BY JourneyAssumption, FS_CardinalityType
<1>2. PICK known : known = Blueprints \cup {NoBlueprint}
  OBVIOUS
<1>3. PICK F : F = [c \in known |-> IF c = NoBlueprint THEN NoBlueprint ELSE Parent[c]]
  OBVIOUS
<1>4. F \in [known -> known] /\ b \in known
  BY <1>2, <1>3, JourneyAssumption
<1>5. PICK f : Iteration(f, known, F, b, N)
  BY <1>4, Iterates
<1>6. f = [n \in 0..N |-> IF n = 0 THEN b
                           ELSE IF f[n - 1] = NoBlueprint THEN NoBlueprint ELSE Parent[f[n - 1]]]
  <2>1. \A n \in 1..N : f[n - 1] \in known /\ f[n] = F[f[n - 1]]
    BY <1>5 DEF Iteration
  <2>2. \A n \in 0..N : f[n] = IF n = 0 THEN b ELSE IF f[n - 1] = NoBlueprint THEN NoBlueprint
                                                    ELSE Parent[f[n - 1]]
    BY <1>3, <1>5, <2>1 DEF Iteration
  <2>3. f \in [0..N -> known]
    BY <1>5 DEF Iteration
  <2> QED BY <2>2, <2>3
<1>7. PICK up : up = CHOOSE g : g = [n \in 0..N |-> IF n = 0 THEN b
                        ELSE IF g[n - 1] = NoBlueprint THEN NoBlueprint ELSE Parent[g[n - 1]]]
  OBVIOUS
<1>8. up = [n \in 0..N |-> IF n = 0 THEN b
                        ELSE IF up[n - 1] = NoBlueprint THEN NoBlueprint ELSE Parent[up[n - 1]]]
  BY <1>6, <1>7
<1>9. up = Ancestor(b)
  BY <1>1, <1>7 DEF Ancestor
<1>10. \A n \in 0..N : up[n] \in known
  <2>1. PICK P : P = {n \in Nat : up[n] \in known}
    OBVIOUS
  <2>2. 0 \in P
    BY <1>4, <1>8, <2>1
  <2>3. ASSUME NEW n \in 0..(N - 1), n \in P PROVE n + 1 \in P
    <3>1. n + 1 \in 0..N /\ n + 1 # 0 /\ (n + 1) - 1 = n /\ n + 1 \in Nat
      OBVIOUS
    <3>2. up[n] \in known
      BY <2>1, <2>3
    <3>3. up[n + 1] = IF up[n] = NoBlueprint THEN NoBlueprint ELSE Parent[up[n]]
      BY <1>8, <3>1
    <3> QED BY <1>2, <2>1, <3>1, <3>2, <3>3, JourneyAssumption
  <2>4. 0..N \subseteq P
    BY <2>2, <2>3, CountingUp
  <2> QED BY <2>1, <2>4
<1>11. Chain(b) \subseteq Blueprints
  BY <1>1, <1>2, <1>9, <1>10 DEF Chain
<1>12. IsFiniteSet(Chain(b))
  BY <1>11, JourneyAssumption, FS_Subset
<1>13. PICK added : added = {DefaultSteps[c] : c \in Chain(b)}
  OBVIOUS
<1>14. IsFiniteSet(added)
  <2>1. PICK g : g = [c \in Chain(b) |-> DefaultSteps[c]]
    OBVIOUS
  <2>2. g \in Surjection(Chain(b), added)
    BY <1>13, <2>1 DEF Surjection
  <2> QED BY <1>12, <2>2, FS_Surjection
<1>15. \A steps \in added : IsFiniteSet(steps) /\ steps \subseteq Nat
  BY <1>11, <1>13, JourneyAssumption
<1>16. IsFiniteSet(UNION added)
  BY <1>14, <1>15, FS_UNION
<1> QED BY <1>13, <1>15, <1>16 DEF InheritedSteps

\* What a plan is to its blueprint.
PlanRight(graph, steps, plan) ==
    /\ Orderable(graph, steps) <=> Len(plan) = Cardinality(steps)
    /\ Len(plan) <= Cardinality(steps)
    /\ \A i, j \in DOMAIN plan :
        /\ plan[i].step = plan[j].step => i = j
        /\ plan[j].step \in graph[plan[i].step] => j < i
    /\ \A i \in DOMAIN plan :
        /\ plan[i].step \in steps
        /\ plan[i].status = "READY" <=> graph[plan[i].step] = {}

LEMMA PlanFacts ==
    ASSUME NEW graph, NEW b \in Blueprints
    PROVE  PlanRight(graph, InheritedSteps(b), Plan(graph, b))
<1>1. PICK S : S = InheritedSteps(b) /\ IsFiniteSet(S) /\ S \subseteq Nat
  BY InheritedFacts
<1>2. PICK sorted : sorted = Sorted(graph, S)
  OBVIOUS
<1>3. /\ sorted \in Seq(S) /\ Once(sorted)
      /\ \A i \in DOMAIN sorted : \A p \in Waiting(graph, sorted[i], S) :
           \E j \in DOMAIN sorted : j < i /\ sorted[j] = p
  BY <1>1, <1>2, SortedFacts DEF RightOrder
<1>4. PICK k \in Nat : k = Len(sorted) /\ DOMAIN sorted = 1..k
  BY <1>3
<1>5. k <= Cardinality(S) /\ (Orderable(graph, S) <=> k = Cardinality(S))
  BY <1>1, <1>2, <1>3, <1>4, SortedIfOrderable, OnceLength
<1>6. PICK plan : plan = Plan(graph, b)
  OBVIOUS
<1>7. plan = [i \in 1..k |-> [step |-> sorted[i], status |-> StatusOf(graph, sorted[i])]]
  BY <1>1, <1>2, <1>4, <1>6 DEF Plan
<1>8. Len(plan) = k /\ DOMAIN plan = 1..k
  BY <1>7
<1>9. \A i \in 1..k : /\ plan[i].step = sorted[i] /\ sorted[i] \in S
                      /\ plan[i].status = StatusOf(graph, sorted[i])
  BY <1>3, <1>4, <1>7
<1>10. \A i \in 1..k : plan[i].status = "READY" <=> graph[plan[i].step] = {}
  BY <1>9 DEF StatusOf
<1>11. ASSUME NEW i \in 1..k, NEW j \in 1..k, plan[j].step \in graph[plan[i].step]
       PROVE  j < i
  <2>1. sorted[j] \in Waiting(graph, sorted[i], S)
    BY <1>9, <1>11 DEF Waiting
  <2>2. PICK m \in 1..k : m < i /\ sorted[m] = sorted[j]
    BY <1>3, <1>4, <2>1
  <2> QED BY <1>3, <1>4, <2>2 DEF Once
<1>12. \A i, j \in 1..k : plan[i].step = plan[j].step => i = j
  BY <1>3, <1>4, <1>9 DEF Once
<1>13. PlanRight(graph, S, plan)
  BY <1>5, <1>8, <1>9, <1>10, <1>11, <1>12 DEF PlanRight
<1> QED BY <1>1, <1>6, <1>13

-------------------------------------------------------------------------------
(* The journey of an application *)

\* What a request knows of its plan, and of its journey once there is one.
PlanInv(r) ==
    LET local == journeyLocal[r]
    IN  /\ DOMAIN local = {"blueprint", "plan", "journey"}
        /\ local.blueprint \in Blueprints \cup {NoBlueprint} /\ local.journey \in Nat
        /\ local.blueprint # NoBlueprint => local.plan = Plan(prerequisites, local.blueprint)
        /\ local.blueprint = NoBlueprint => journeyPc[r] \in {"idle", "done", "failed"}
        /\ local.blueprint # NoBlueprint /\ Circular(prerequisites, local.blueprint) =>
              journeyPc[r] = "failed" /\ local.journey = 0
        /\ journeyPc[r] \in {"recordCreated", "createSnapshot"} =>
              /\ local.journey \in DOMAIN journeys
              /\ journeys[local.journey].blueprint = local.blueprint
        /\ journeyPc[r] = "createSnapshot" => local.journey \in timeline
        /\ journeyPc[r] = "idle" => local.blueprint = NoBlueprint /\ local.journey = 0

\* A snapshot is of a journey in the timeline, and counts the steps of its blueprint.
CountInv(snapshot) ==
    /\ snapshot.journey \in timeline
    /\ snapshot.stepsCount = Cardinality(InheritedSteps(journeys[snapshot.journey].blueprint))

JourneyInv ==
    /\ JourneyTypeOK
    /\ DOMAIN journeyLocal = JourneyRequests
    /\ journeySnapshots \in Seq([journey : Nat, stepsCount : Nat])
    /\ \A r \in JourneyRequests : PlanInv(r)
    /\ \A i \in DOMAIN journeySnapshots : CountInv(journeySnapshots[i])

\* Journeys are only added, and keep their blueprint and their events.
JourneysGrow ==
    /\ DOMAIN journeys \subseteq DOMAIN journeys'
    /\ \A j \in DOMAIN journeys : journeys'[j].blueprint = journeys[j].blueprint
    /\ timeline \subseteq timeline'
    /\ prerequisites' = prerequisites

\* A request that does nothing keeps what it knows ...
LEMMA PlanStays ==
    ASSUME NEW r, PlanInv(r), JourneysGrow, journeyLocal'[r] = journeyLocal[r],
           \/ journeyPc'[r] = journeyPc[r]
           \/ journeyPc[r] \notin {"idle", "done", "failed"} /\ journeyPc'[r] = "failed"
           \/ journeyPc[r] = "idle" /\ journeyPc'[r] \in {"done", "failed"}
    PROVE  PlanInv(r)'
<1>1. PICK local : local = journeyLocal[r]
  OBVIOUS
<1>2. local.journey \in DOMAIN journeys => journeys'[local.journey].blueprint = journeys[local.journey].blueprint
  BY DEF JourneysGrow
<1> QED BY <1>1, <1>2 DEF PlanInv, JourneysGrow

\* ... and so does a snapshot.
LEMMA CountStays ==
    ASSUME JourneysGrow, timeline \subseteq DOMAIN journeys, NEW snapshot, CountInv(snapshot)
    PROVE  /\ snapshot.journey \in timeline'
           /\ snapshot.stepsCount =
                Cardinality(InheritedSteps(journeys'[snapshot.journey].blueprint))
BY DEF JourneysGrow, CountInv

\* The invariant after a step that stores no snapshot.
LEMMA JourneyKeeps ==
    ASSUME JourneyInv, NEW r \in JourneyRequests, JourneysGrow,
           journeys' \in Seq(JourneyRow), timeline' \subseteq DOMAIN journeys',
           journeySnapshots' = journeySnapshots,
           journeyPc' = [journeyPc EXCEPT ![r] = journeyPc'[r]], journeyPc'[r] \in JourneyPC,
           DOMAIN journeyLocal' = JourneyRequests,
           \A q \in JourneyRequests \ {r} : journeyLocal'[q] = journeyLocal[q],
           PlanInv(r)'
    PROVE  JourneyInv'
<1>1. /\ JourneyTypeOK /\ timeline \subseteq DOMAIN journeys
      /\ journeyPc \in [JourneyRequests -> JourneyPC]
      /\ \A i \in DOMAIN journeySnapshots : CountInv(journeySnapshots[i])
  BY DEF JourneyInv, JourneyTypeOK
<1>2. \A q \in JourneyRequests \ {r} : journeyPc'[q] = journeyPc[q]
  BY <1>1
<1>3. ASSUME NEW q \in JourneyRequests PROVE PlanInv(q)'
  <2>1. CASE q = r
    BY <2>1
  <2>2. CASE q # r
    <3>1. PlanInv(q)
      BY DEF JourneyInv
    <3> QED BY <1>2, <2>2, <3>1, PlanStays
  <2> QED BY <2>1, <2>2
<1>4. ASSUME NEW i \in DOMAIN journeySnapshots' PROVE CountInv(journeySnapshots[i])'
  <2>1. PICK snapshot : snapshot = journeySnapshots[i] /\ snapshot = journeySnapshots'[i]
    OBVIOUS
  <2>2. CountInv(snapshot)
    BY <1>1, <1>4, <2>1
  <2>3. /\ snapshot.journey \in timeline'
        /\ snapshot.stepsCount = Cardinality(InheritedSteps(journeys'[snapshot.journey].blueprint))
    BY <1>1, <2>2, CountStays
  <2> QED BY <2>1, <2>3 DEF CountInv
<1>5. JourneyTypeOK'
  <2>1. \A i \in DOMAIN journeySnapshots' : journeySnapshots'[i].journey \in DOMAIN journeys'
    BY <1>1 DEF JourneyTypeOK, JourneysGrow
  <2>2. \A q \in JourneyRequests : journeyLocal'[q].blueprint \in Blueprints \cup {NoBlueprint}
    BY <1>3 DEF PlanInv
  <2>3. journeyPc' \in [JourneyRequests -> JourneyPC]
    BY <1>1
  <2> QED BY <1>1, <2>1, <2>2, <2>3 DEF JourneyTypeOK, JourneysGrow
<1> QED BY <1>3, <1>4, <1>5 DEF JourneyInv

\* The rows that JourneyInv speaks of.
LEMMA JourneyTypes ==
    ASSUME JourneyInv
    PROVE  /\ prerequisites \in [Steps -> SUBSET Steps]
           /\ journeys \in Seq(JourneyRow) /\ timeline \subseteq DOMAIN journeys
           /\ journeyPc \in [JourneyRequests -> JourneyPC]
           /\ Len(journeys) \in Nat /\ DOMAIN journeys = 1..Len(journeys)
           /\ DOMAIN journeyLocal = JourneyRequests
           /\ journeySnapshots \in Seq([journey : Nat, stepsCount : Nat])
           /\ \A r \in JourneyRequests : PlanInv(r)
           /\ \A i \in DOMAIN journeySnapshots : CountInv(journeySnapshots[i])
<1>1. journeys \in Seq(JourneyRow)
  BY DEF JourneyInv, JourneyTypeOK
<1>2. Len(journeys) \in Nat /\ DOMAIN journeys = 1..Len(journeys)
  BY <1>1
<1> QED BY <1>1, <1>2 DEF JourneyInv, JourneyTypeOK

LEMMA GenerateKeeps ==
    ASSUME JourneyInv, NEW r \in JourneyRequests, GenerateJourney(r) PROVE JourneyInv'
<1>1. PICK b \in Blueprints :
         /\ JourneyGo(r, "idle", IF Circular(prerequisites, b) THEN "failed" ELSE "createJourney")
         /\ journeyLocal' = [journeyLocal EXCEPT ![r].blueprint = b, ![r].plan = Plan(prerequisites, b)]
         /\ UNCHANGED <<journeys, timeline, journeySnapshots>>
  BY DEF GenerateJourney
<1>2. PICK to : to = IF Circular(prerequisites, b) THEN "failed" ELSE "createJourney"
  OBVIOUS
<1>3. /\ journeyPc[r] = "idle" /\ journeyPc' = [journeyPc EXCEPT ![r] = to]
      /\ prerequisites' = prerequisites
  BY <1>1, <1>2 DEF JourneyGo
<1>4. journeyPc'[r] = to /\ journeyPc' = [journeyPc EXCEPT ![r] = journeyPc'[r]] /\ to \in JourneyPC
  BY <1>2, <1>3, JourneyTypes DEF JourneyPC
<1>5. PICK local : local = journeyLocal[r]
  OBVIOUS
<1>6. /\ DOMAIN local = {"blueprint", "plan", "journey"} /\ local.journey = 0
  BY <1>3, <1>5, JourneyTypes DEF PlanInv
<1>7. PICK plan : plan = Plan(prerequisites, b)
  OBVIOUS
<1>8. PICK after : after = journeyLocal'[r]
  OBVIOUS
<1>9. after = [local EXCEPT !.blueprint = b, !.plan = plan]
  BY <1>1, <1>5, <1>7, <1>8, JourneyTypes
<1>10. DOMAIN after = {"blueprint", "plan", "journey"} /\ after.blueprint = b
       /\ after.plan = plan /\ after.journey = 0
  BY <1>6, <1>9
<1>11. /\ DOMAIN journeyLocal' = JourneyRequests
       /\ \A q \in JourneyRequests \ {r} : journeyLocal'[q] = journeyLocal[q]
  BY <1>1, JourneyTypes
<1>12. PlanInv(r)'
  BY <1>2, <1>3, <1>4, <1>7, <1>8, <1>10, JourneyAssumption DEF PlanInv
<1>13. JourneysGrow
  BY <1>1, <1>3 DEF JourneysGrow
<1> QED BY <1>1, <1>4, <1>11, <1>12, <1>13, JourneyTypes, JourneyKeeps

LEMMA CreateKeeps ==
    ASSUME JourneyInv, NEW r \in JourneyRequests, CreateJourney(r) PROVE JourneyInv'
<1>1. PICK local : local = journeyLocal[r]
  OBVIOUS
<1>2. PICK row : row = [blueprint |-> local.blueprint, stored |-> {}, completed |-> {}]
  OBVIOUS
<1>3. /\ journeyPc[r] = "createJourney" /\ journeyPc' = [journeyPc EXCEPT ![r] = "recordCreated"]
      /\ prerequisites' = prerequisites /\ journeys' = Append(journeys, row)
      /\ journeyLocal' = [journeyLocal EXCEPT ![r].journey = Len(journeys) + 1]
      /\ timeline' = timeline /\ journeySnapshots' = journeySnapshots
  BY <1>1, <1>2 DEF CreateJourney, JourneyGo
<1>4. /\ DOMAIN local = {"blueprint", "plan", "journey"}
      /\ local.blueprint \in Blueprints /\ local.plan = Plan(prerequisites, local.blueprint)
      /\ ~Circular(prerequisites, local.blueprint)
  BY <1>1, <1>3, JourneyTypes DEF PlanInv
<1>5. row \in JourneyRow /\ row.blueprint = local.blueprint
  BY <1>2, <1>4 DEF JourneyRow
<1>6. PICK n \in Nat : n = Len(journeys) /\ DOMAIN journeys = 1..n
  BY JourneyTypes
<1>7. /\ journeys' \in Seq(JourneyRow) /\ DOMAIN journeys' = 1..(n + 1)
      /\ journeys'[n + 1] = row
      /\ \A j \in 1..n : journeys'[j] = journeys[j]
  BY <1>3, <1>5, <1>6, JourneyTypes, AppendProperties
<1>8. JourneysGrow /\ timeline' \subseteq DOMAIN journeys'
  BY <1>3, <1>6, <1>7, JourneyTypes DEF JourneysGrow
<1>9. PICK after : after = journeyLocal'[r]
  OBVIOUS
<1>10. after = [local EXCEPT !.journey = n + 1]
  BY <1>1, <1>3, <1>6, <1>9, JourneyTypes
<1>11. /\ DOMAIN after = {"blueprint", "plan", "journey"} /\ after.blueprint = local.blueprint
       /\ after.plan = local.plan /\ after.journey = n + 1
  BY <1>4, <1>10
<1>12. journeyPc'[r] = "recordCreated" /\ journeyPc' = [journeyPc EXCEPT ![r] = journeyPc'[r]]
       /\ journeyPc'[r] \in JourneyPC
  BY <1>3, JourneyTypes DEF JourneyPC
<1>13. PlanInv(r)'
  BY <1>3, <1>4, <1>5, <1>7, <1>9, <1>11, <1>12, JourneyAssumption DEF PlanInv
<1>14. /\ DOMAIN journeyLocal' = JourneyRequests
       /\ \A q \in JourneyRequests \ {r} : journeyLocal'[q] = journeyLocal[q]
  BY <1>3, JourneyTypes
<1> QED BY <1>3, <1>7, <1>8, <1>12, <1>13, <1>14, JourneyKeeps

LEMMA RecordKeeps ==
    ASSUME JourneyInv, NEW r \in JourneyRequests, RecordCreated(r) PROVE JourneyInv'
<1>1. PICK local : local = journeyLocal[r] /\ local = journeyLocal'[r]
  BY DEF RecordCreated
<1>2. /\ journeyPc[r] = "recordCreated" /\ journeyPc' = [journeyPc EXCEPT ![r] = "createSnapshot"]
      /\ prerequisites' = prerequisites /\ journeys' = journeys
      /\ timeline' = timeline \cup {local.journey}
      /\ journeyLocal' = journeyLocal /\ journeySnapshots' = journeySnapshots
  BY <1>1 DEF RecordCreated, JourneyGo
<1>3. journeyPc'[r] = "createSnapshot" /\ journeyPc' = [journeyPc EXCEPT ![r] = journeyPc'[r]]
      /\ journeyPc'[r] \in JourneyPC
  BY <1>2, JourneyTypes DEF JourneyPC
<1>4. local.journey \in DOMAIN journeys
  BY <1>1, <1>2, JourneyTypes DEF PlanInv
<1>5. PlanInv(r)'
  BY <1>1, <1>2, <1>3, JourneyTypes DEF PlanInv
<1>6. JourneysGrow /\ timeline' \subseteq DOMAIN journeys'
  BY <1>2, <1>4, JourneyTypes DEF JourneysGrow
<1> QED BY <1>2, <1>3, <1>5, <1>6, JourneyTypes, JourneyKeeps

LEMMA PublishJourneyKeeps ==
    ASSUME JourneyInv, NEW r \in JourneyRequests, PublishJourney(r) PROVE JourneyInv'
<1>1. /\ journeyPc[r] = "publish" /\ journeyPc' = [journeyPc EXCEPT ![r] = "done"]
      /\ prerequisites' = prerequisites
      /\ UNCHANGED <<journeys, timeline, journeySnapshots, journeyLocal>>
  BY DEF PublishJourney, JourneyGo
<1>2. journeyPc'[r] = "done" /\ journeyPc' = [journeyPc EXCEPT ![r] = journeyPc'[r]]
      /\ journeyPc'[r] \in JourneyPC
  BY <1>1, JourneyTypes DEF JourneyPC
<1>3. PlanInv(r)'
  BY <1>1, <1>2, JourneyTypes DEF PlanInv
<1>4. JourneysGrow
  BY <1>1 DEF JourneysGrow
<1> QED BY <1>1, <1>2, <1>3, <1>4, JourneyTypes, JourneyKeeps

LEMMA FailJourneyKeeps ==
    ASSUME JourneyInv, NEW r \in JourneyRequests, FailJourney(r) PROVE JourneyInv'
<1>1. /\ journeyPc[r] \notin {"idle", "done", "failed"}
      /\ journeyPc' = [journeyPc EXCEPT ![r] = "failed"]
      /\ UNCHANGED <<prerequisites, journeys, timeline, journeySnapshots, journeyLocal>>
  BY DEF FailJourney
<1>2. journeyPc'[r] = "failed" /\ journeyPc' = [journeyPc EXCEPT ![r] = journeyPc'[r]]
      /\ journeyPc'[r] \in JourneyPC
  BY <1>1, JourneyTypes DEF JourneyPC
<1>3. JourneysGrow
  BY <1>1 DEF JourneysGrow
<1>4. PlanInv(r)'
  BY <1>1, <1>2, <1>3, JourneyTypes, PlanStays
<1> QED BY <1>1, <1>2, <1>3, <1>4, JourneyTypes, JourneyKeeps

LEMMA CompleteStepKeeps ==
    ASSUME JourneyInv, NEW r \in JourneyRequests, CompleteStep(r) PROVE JourneyInv'
<1>1. PICK j \in DOMAIN journeys, s \in Steps :
         /\ JourneyGo(r, "idle", IF Completable(journeys[j], s) THEN "done" ELSE "failed")
         /\ journeys' = [journeys EXCEPT ![j].completed =
                           IF Completable(journeys[j], s) THEN @ \cup {s} ELSE @]
         /\ UNCHANGED <<timeline, journeySnapshots, journeyLocal>>
  BY DEF CompleteStep
<1>2. PICK row : row = journeys[j]
  OBVIOUS
<1>3. PICK completed : completed = IF Completable(row, s) THEN row.completed \cup {s} ELSE row.completed
  OBVIOUS
<1>4. PICK after : after = [row EXCEPT !.completed = completed]
  OBVIOUS
<1>5. journeys' = [journeys EXCEPT ![j] = after]
  BY <1>1, <1>2, <1>3, <1>4
<1>6. row \in JourneyRow
  BY <1>1, <1>2, JourneyTypes
<1>7. after \in JourneyRow /\ after.blueprint = row.blueprint
  BY <1>1, <1>3, <1>4, <1>6 DEF JourneyRow
<1>8. /\ journeys' \in Seq(JourneyRow) /\ DOMAIN journeys' = DOMAIN journeys
      /\ \A i \in DOMAIN journeys : journeys'[i] = IF i = j THEN after ELSE journeys[i]
  BY <1>5, <1>7, JourneyTypes, ExceptSeq
<1>9. /\ journeyPc[r] = "idle" /\ journeyPc'[r] \in {"done", "failed"}
      /\ journeyPc' = [journeyPc EXCEPT ![r] = journeyPc'[r]]
      /\ prerequisites' = prerequisites
  BY <1>1, JourneyTypes DEF JourneyGo
<1>10. JourneysGrow /\ timeline' \subseteq DOMAIN journeys'
  BY <1>1, <1>2, <1>7, <1>8, <1>9, JourneyTypes DEF JourneysGrow
<1>11. PlanInv(r)'
  BY <1>1, <1>9, <1>10, JourneyTypes, PlanStays
<1>12. journeyPc'[r] \in JourneyPC
  BY <1>9 DEF JourneyPC
<1> QED BY <1>1, <1>8, <1>9, <1>10, <1>11, <1>12, JourneyTypes, JourneyKeeps

LEMMA SnapshotKeeps ==
    ASSUME JourneyInv, NEW r \in JourneyRequests, CreateJourneySnapshot(r) PROVE JourneyInv'
<1>1. PICK local : local = journeyLocal[r] /\ local = journeyLocal'[r]
  BY DEF CreateJourneySnapshot
<1>2. PICK snapshot : snapshot = NewJourneySnapshot(local)
  OBVIOUS
<1>3. /\ journeyPc[r] = "createSnapshot" /\ journeyPc' = [journeyPc EXCEPT ![r] = "publish"]
      /\ prerequisites' = prerequisites /\ journeys' = journeys /\ timeline' = timeline
      /\ journeyLocal' = journeyLocal
      /\ journeySnapshots' = Append(journeySnapshots, snapshot)
  BY <1>1, <1>2 DEF CreateJourneySnapshot, JourneyGo
<1>4. /\ journeyPc'[r] = "publish" /\ journeyPc' \in [JourneyRequests -> JourneyPC]
      /\ \A q \in JourneyRequests \ {r} : journeyPc'[q] = journeyPc[q]
  BY <1>3, JourneyTypes DEF JourneyPC
<1>5. /\ local.journey \in timeline /\ local.journey \in Nat
      /\ journeys[local.journey].blueprint = local.blueprint
      /\ local.blueprint \in Blueprints /\ local.plan = Plan(prerequisites, local.blueprint)
      /\ ~Circular(prerequisites, local.blueprint)
  BY <1>1, <1>3, JourneyTypes DEF PlanInv
<1>6. PICK steps : steps = InheritedSteps(local.blueprint) /\ IsFiniteSet(steps)
  BY <1>5, InheritedFacts
<1>7. PICK k \in Nat : k = Cardinality(steps)
  BY <1>6, FS_CardinalityType
<1>8. snapshot = [journey |-> local.journey, stepsCount |-> k]
  BY <1>2, <1>5, <1>6, <1>7 DEF NewJourneySnapshot, Circular
<1>9. snapshot \in [journey : Nat, stepsCount : Nat] /\ CountInv(snapshot)
  BY <1>5, <1>6, <1>7, <1>8 DEF CountInv
<1>10. PICK n \in Nat : n = Len(journeySnapshots) /\ DOMAIN journeySnapshots = 1..n
  BY JourneyTypes
<1>11. /\ journeySnapshots' \in Seq([journey : Nat, stepsCount : Nat])
       /\ DOMAIN journeySnapshots' = 1..(n + 1) /\ journeySnapshots'[n + 1] = snapshot
       /\ \A i \in 1..n : journeySnapshots'[i] = journeySnapshots[i]
  BY <1>3, <1>9, <1>10, JourneyTypes, AppendProperties
<1>12. \A i \in DOMAIN journeySnapshots' : CountInv(journeySnapshots'[i])
  <2>1. \A i \in 1..n : CountInv(journeySnapshots[i])
    BY <1>10, JourneyTypes
  <2>2. \A i \in 1..n : CountInv(journeySnapshots'[i])
    BY <1>11, <2>1, Zenon
  <2>3. \A i \in 1..(n + 1) : i \in 1..n \/ i = n + 1
    OBVIOUS
  <2> QED BY <1>9, <1>11, <2>2, <2>3, Zenon
<1>13. \A i \in DOMAIN journeySnapshots' : CountInv(journeySnapshots[i])'
  BY <1>3, <1>12 DEF CountInv
<1>14. JourneysGrow
  BY <1>3 DEF JourneysGrow
<1>15. ASSUME NEW q \in JourneyRequests PROVE PlanInv(q)'
  <2>1. CASE q # r
    BY <1>3, <1>4, <1>14, <2>1, JourneyTypes, PlanStays
  <2>2. CASE q = r
    BY <1>1, <1>3, <1>4, <2>2, JourneyTypes DEF PlanInv
  <2> QED BY <2>1, <2>2
<1>16. JourneyTypeOK'
  <2>1. \A i \in DOMAIN journeySnapshots' : journeySnapshots'[i].journey \in DOMAIN journeys'
    BY <1>3, <1>12, JourneyTypes DEF CountInv
  <2>2. \A q \in JourneyRequests : journeyLocal'[q].blueprint \in Blueprints \cup {NoBlueprint}
    BY <1>15 DEF PlanInv
  <2> QED BY <1>3, <1>4, <2>1, <2>2, JourneyTypes DEF JourneyTypeOK
<1> QED BY <1>3, <1>11, <1>13, <1>15, <1>16, JourneyTypes DEF JourneyInv

\* The step lemma of the journeys.
LEMMA JourneyInvNext == JourneyInv /\ [JourneyNext]_journeyVars => JourneyInv'
<1> SUFFICES ASSUME JourneyInv, [JourneyNext]_journeyVars PROVE JourneyInv'
  OBVIOUS
<1>1. CASE JourneyNext
  <2>1. PICK r \in JourneyRequests : JourneyStep(r)
    BY <1>1 DEF JourneyNext
  <2>2. CASE GenerateJourney(r)
    BY <2>2, GenerateKeeps
  <2>3. CASE CreateJourney(r)
    BY <2>3, CreateKeeps
  <2>4. CASE RecordCreated(r)
    BY <2>4, RecordKeeps
  <2>5. CASE CreateJourneySnapshot(r)
    BY <2>5, SnapshotKeeps
  <2>6. CASE PublishJourney(r)
    BY <2>6, PublishJourneyKeeps
  <2>7. CASE CompleteStep(r)
    BY <2>7, CompleteStepKeeps
  <2>8. CASE FailJourney(r)
    BY <2>8, FailJourneyKeeps
  <2> QED BY <2>1, <2>2, <2>3, <2>4, <2>5, <2>6, <2>7, <2>8 DEF JourneyStep
<1>2. CASE UNCHANGED journeyVars
  <2>1. JourneyTypeOK'
    BY <1>2 DEF JourneyInv, JourneyTypeOK, journeyVars
  <2>2. \A r \in JourneyRequests : PlanInv(r)'
    BY <1>2, JourneyTypes DEF PlanInv, journeyVars
  <2>3. \A i \in DOMAIN journeySnapshots' : CountInv(journeySnapshots[i])'
    BY <1>2, JourneyTypes DEF CountInv, journeyVars
  <2> QED BY <1>2, <2>1, <2>2, <2>3, JourneyTypes DEF JourneyInv, journeyVars
<1> QED BY <1>1, <1>2

LEMMA JourneyInvInit == JourneyInit => JourneyInv
<1> SUFFICES ASSUME JourneyInit PROVE JourneyInv
  OBVIOUS
<1>1. prerequisites \in [Steps -> SUBSET Steps]
  BY JourneyAssumption DEF JourneyInit
<1>2. \A r \in JourneyRequests : PlanInv(r)
  BY JourneyAssumption DEF JourneyInit, PlanInv
<1>3. JourneyTypeOK
  BY <1>1 DEF JourneyInit, JourneyTypeOK, JourneyPC
<1> QED BY <1>2, <1>3 DEF JourneyInit, JourneyInv

\* The journeys of ApplicationJourney keep their invariant.
THEOREM JourneyInvariance == JourneySpec => []JourneyInv
<1> QED BY JourneyInvInit, JourneyInvNext, PTL DEF JourneySpec

\* The rows of the journeys and what their requests remember have their types.
THEOREM JourneyTypeCorrectness == JourneySpec => []JourneyTypeOK
<1>1. JourneyInv => JourneyTypeOK
  BY DEF JourneyInv
<1> QED BY <1>1, JourneyInvariance, PTL

\* topologicalSort fails on exactly the cyclic prerequisites, and otherwise orders every
\* inherited step after those it waits for; and the snapshot of a journey counts them.
THEOREM PlansFollowPrerequisites == JourneySpec => []PlanFollowsPrerequisites
<1>1. ASSUME JourneyInv PROVE PlanFollowsPrerequisites
  <2>1. ASSUME NEW r \in JourneyRequests, journeyLocal[r].blueprint # NoBlueprint
        PROVE  LET steps == InheritedSteps(journeyLocal[r].blueprint)
                   plan  == journeyLocal[r].plan
               IN  /\ Orderable(prerequisites, steps) <=> Len(plan) = Cardinality(steps)
                   /\ Len(plan) < Cardinality(steps) =>
                        journeyPc[r] = "failed" /\ journeyLocal[r].journey = 0
                   /\ \A i, j \in DOMAIN plan :
                       /\ plan[i].step = plan[j].step => i = j
                       /\ plan[j].step \in prerequisites[plan[i].step] => j < i
                   /\ \A i \in DOMAIN plan :
                       /\ plan[i].step \in steps
                       /\ plan[i].status = "READY" <=> prerequisites[plan[i].step] = {}
    <3>1. PICK local : local = journeyLocal[r]
      OBVIOUS
    <3>2. PICK steps : steps = InheritedSteps(local.blueprint)
      OBVIOUS
    <3>3. PICK plan : plan = local.plan
      OBVIOUS
    <3>4. /\ local.blueprint \in Blueprints /\ plan = Plan(prerequisites, local.blueprint)
          /\ Circular(prerequisites, local.blueprint) =>
                journeyPc[r] = "failed" /\ local.journey = 0
      BY <1>1, <2>1, <3>1, <3>3 DEF JourneyInv, PlanInv
    <3>5. PlanRight(prerequisites, steps, plan)
      BY <3>2, <3>4, PlanFacts
    <3>6. Len(plan) # Cardinality(steps) => journeyPc[r] = "failed" /\ local.journey = 0
      BY <3>2, <3>4 DEF Circular
    <3>7. IsFiniteSet(steps) /\ Cardinality(steps) \in Nat
      BY <3>2, <3>4, InheritedFacts, FS_CardinalityType
    <3>8. Len(plan) < Cardinality(steps) => Len(plan) # Cardinality(steps)
      BY <3>7
    <3> QED BY <3>1, <3>2, <3>3, <3>5, <3>6, <3>8 DEF PlanRight
  <2>2. \A i \in DOMAIN journeySnapshots : CountInv(journeySnapshots[i])
    BY <1>1 DEF JourneyInv
  <2> QED BY <2>1, <2>2 DEF PlanFollowsPrerequisites, CountInv
<1> QED BY <1>1, JourneyInvariance, PTL

-------------------------------------------------------------------------------
(* All components beside one another *)

\* Runs of a re-evaluation account for the eligibilities only where all decisions are
\* theirs.
PlatformInv ==
    /\ KnowledgeInv /\ DocumentInv /\ DecisionInv /\ JourneyInv /\ RetrievalInv
    /\ RecordsTypeOK
    /\ part \in {"records", "breaking records", "activation"} => RecordsInv

LEMMA PlatformInvInit == Init => PlatformInv
<1> SUFFICES ASSUME Init PROVE PlatformInv
  OBVIOUS
<1>1. /\ KnowledgeInit /\ DocumentInit /\ EligibilityInit /\ RecommendationInit
      /\ JourneyInit /\ RetrievalInit /\ RecordsInit
  BY DEF Init
<1>2. KnowledgeInv /\ DocumentInv /\ JourneyInv /\ RetrievalInv
  BY <1>1, KnowledgeInvInit, DocumentInvInit, JourneyInvInit, RetrievalInvInit
<1>3. RecordsInv
  BY <1>1, RecordsInvInit
<1>4. DecisionInv /\ RecordsTypeOK
  BY <1>3 DEF RecordsInv, RunsInv
<1> QED BY <1>2, <1>3, <1>4 DEF PlatformInv

\* What is left alone keeps its invariant.
LEMMA KnowledgeRests == KnowledgeInv /\ UNCHANGED knowledgeVars => KnowledgeInv'
BY KnowledgeInvStep
LEMMA DocumentRests == DocumentInv /\ UNCHANGED documentVars => DocumentInv'
BY DocumentInvStep DEF DocumentEffect
LEMMA DecisionRests == DecisionInv /\ UNCHANGED decisionVars => DecisionInv'
BY DecisionStep
LEMMA JourneyRests == JourneyInv /\ UNCHANGED journeyVars => JourneyInv'
BY JourneyInvNext
LEMMA RetrievalRests == RetrievalInv /\ UNCHANGED retrievalVars => RetrievalInv'
BY RetrievalInvNext
LEMMA RecordsRest ==
    RecordsTypeOK /\ UNCHANGED <<recordVars, activationVars>> => RecordsTypeOK'
BY DEF RecordsTypeOK, recordVars, activationVars

\* A step beside the records, where they are not looked at or nothing is decided.
LEMMA BesideRecords ==
    ASSUME PlatformInv, UNCHANGED <<recordVars, activationVars, part>>,
           \/ part \notin {"records", "breaking records", "activation"}
           \/ UNCHANGED decisionVars
    PROVE  RecordsTypeOK' /\ (part' \in {"records", "breaking records", "activation"} => RecordsInv')
<1>1. RecordsTypeOK'
  BY RecordsRest DEF PlatformInv
<1>2. ASSUME UNCHANGED decisionVars, RecordsInv PROVE RecordsInv'
  BY <1>2, RecordsInvStep
<1> QED BY <1>1, <1>2 DEF PlatformInv

LEMMA PlatformInvStep == PlatformInv /\ [Next]_allVars => PlatformInv'
<1> SUFFICES ASSUME PlatformInv, [Next]_allVars PROVE PlatformInv'
  OBVIOUS
<1>1. /\ KnowledgeInv /\ DocumentInv /\ DecisionInv /\ JourneyInv /\ RetrievalInv
      /\ RecordsTypeOK
      /\ part \in {"records", "breaking records", "activation"} => RecordsInv
  BY DEF PlatformInv
<1>2. CASE /\ part = "knowledge" /\ KnowledgeNext
           /\ UNCHANGED <<documentVars, decisionVars, journeyVars, retrievalVars, recordVars,
                          activationVars, part>>
  <2>1. KnowledgeInv'
    BY <1>1, <1>2, KnowledgeInvStep
  <2>2. DocumentInv' /\ DecisionInv' /\ JourneyInv' /\ RetrievalInv'
    BY <1>1, <1>2, DocumentRests, DecisionRests, JourneyRests, RetrievalRests
  <2> QED BY <1>2, <2>1, <2>2, BesideRecords DEF PlatformInv
<1>3. CASE /\ part = "documents" /\ DocumentNext
           /\ UNCHANGED <<knowledgeVars, decisionVars, journeyVars, retrievalVars, recordVars,
                          activationVars, part>>
  <2>1. DocumentInv'
    BY <1>1, <1>3, DocumentInvStep DEF DocumentEffect
  <2>2. KnowledgeInv' /\ DecisionInv' /\ JourneyInv' /\ RetrievalInv'
    BY <1>1, <1>3, KnowledgeRests, DecisionRests, JourneyRests, RetrievalRests
  <2> QED BY <1>3, <2>1, <2>2, BesideRecords DEF PlatformInv
<1>4. CASE /\ part \in {"rules", "decisions"} /\ DecisionNext
           /\ UNCHANGED <<knowledgeVars, documentVars, journeyVars, retrievalVars, recordVars,
                          activationVars, part>>
  <2>1. DecisionInv'
    BY <1>1, <1>4, DecisionStep
  <2>2. KnowledgeInv' /\ DocumentInv' /\ JourneyInv' /\ RetrievalInv'
    BY <1>1, <1>4, KnowledgeRests, DocumentRests, JourneyRests, RetrievalRests
  <2> QED BY <1>4, <2>1, <2>2, BesideRecords DEF PlatformInv
<1>5. CASE /\ part \in {"planning", "journeys"} /\ JourneyNext
           /\ UNCHANGED <<knowledgeVars, documentVars, decisionVars, retrievalVars, recordVars,
                          activationVars, part>>
  <2>1. JourneyInv'
    BY <1>1, <1>5, JourneyInvNext
  <2>2. KnowledgeInv' /\ DocumentInv' /\ DecisionInv' /\ RetrievalInv'
    BY <1>1, <1>5, KnowledgeRests, DocumentRests, DecisionRests, RetrievalRests
  <2> QED BY <1>5, <2>1, <2>2, BesideRecords DEF PlatformInv
<1>6. CASE /\ part = "retrieval" /\ RetrievalNext
           /\ UNCHANGED <<knowledgeVars, documentVars, decisionVars, journeyVars, recordVars,
                          activationVars, part>>
  <2>1. RetrievalInv'
    BY <1>1, <1>6, RetrievalInvNext
  <2>2. KnowledgeInv' /\ DocumentInv' /\ DecisionInv' /\ JourneyInv'
    BY <1>1, <1>6, KnowledgeRests, DocumentRests, DecisionRests, JourneyRests
  <2> QED BY <1>6, <2>1, <2>2, BesideRecords DEF PlatformInv
<1>7. CASE /\ part \in {"records", "breaking records"} /\ RecordsNext
           /\ UNCHANGED <<knowledgeVars, documentVars, journeyVars, retrievalVars,
                          activationVars, part>>
  <2>1. RecordsInv'
    BY <1>1, <1>7, RecordsInvStep
  <2>2. KnowledgeInv' /\ DocumentInv' /\ JourneyInv' /\ RetrievalInv'
    BY <1>1, <1>7, KnowledgeRests, DocumentRests, JourneyRests, RetrievalRests
  <2> QED BY <2>1, <2>2 DEF PlatformInv, RecordsInv, RunsInv
<1>8. CASE /\ part = "activation" /\ ActivationNext
           /\ UNCHANGED <<knowledgeVars, documentVars, decisionVars, journeyVars, retrievalVars,
                          recordVars, part>>
  <2>1. RecordsInv'
    BY <1>1, <1>8, RecordsInvStep
  <2>2. KnowledgeInv' /\ DocumentInv' /\ JourneyInv' /\ RetrievalInv'
    BY <1>1, <1>8, KnowledgeRests, DocumentRests, JourneyRests, RetrievalRests
  <2> QED BY <2>1, <2>2 DEF PlatformInv, RecordsInv, RunsInv
<1>9. CASE UNCHANGED allVars
  <2>1. UNCHANGED <<knowledgeVars, documentVars, decisionVars, journeyVars, retrievalVars,
                    recordVars, activationVars, part>>
    BY <1>9 DEF allVars
  <2>2. KnowledgeInv' /\ DocumentInv' /\ DecisionInv' /\ JourneyInv' /\ RetrievalInv'
    BY <1>1, <2>1, KnowledgeRests, DocumentRests, DecisionRests, JourneyRests, RetrievalRests
  <2> QED BY <2>1, <2>2, BesideRecords DEF PlatformInv
<1>10. AnswerFact /\ UNCHANGED recommendationVars => DecisionNext
  BY DEF DecisionNext, EligibilityNext
<1>11. (\E r \in JourneyRequests : GenerateJourney(r)) => JourneyNext
  BY DEF JourneyNext, JourneyStep
<1> QED BY <1>2, <1>3, <1>4, <1>5, <1>6, <1>7, <1>8, <1>9, <1>10, <1>11 DEF Next

\* Every component keeps its invariant whatever is exercised beside it.
THEOREM PlatformInvariance == Spec => []PlatformInv
<1> QED BY PlatformInvInit, PlatformInvStep, PTL DEF Spec

\* The rows every component stores and what its requests remember have their types.
THEOREM PlatformTypeCorrectness == Spec => []TypeOK
<1>1. PlatformInv => TypeOK
  BY DEF PlatformInv, KnowledgeInv, DocumentInv, DecisionInv, EligibilityInv, RecommendationInv,
         JourneyInv, RetrievalInv, TypeOK
<1> QED BY <1>1, PlatformInvariance, PTL

===============================================================================

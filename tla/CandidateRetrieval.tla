-------------------------- MODULE CandidateRetrieval --------------------------
(* The search for policies worth evaluating for a citizen:                      *)
(*   candidate-retrieval.controller.ts           searchCandidates               *)
(*   semantic-alignment.service.ts               alignCitizenFacts              *)
(*   candidate-retrieval.service.ts              retrieveCandidates             *)
(*   prisma-candidate-retrieval.repository.ts, deterministic-vector-test.adapter.ts *)
(*                                                                              *)
(* A request reads the facts, the documents, the vectors and then the versions  *)
(* the vectors name, each with a call of its own, while the ingestion of        *)
(* knowledge replaces versions.  Documents are numbered in the order of their   *)
(* documentNumber; <<d, v>> is version v of document d.  Scores are in          *)
(* ten-thousandths.                                                             *)
(*                                                                              *)
(* Left out: warnings and the evidence reported with a candidate; ages and the   *)
(* typed fields kept for later stages; the text of the query and its embedding.  *)
(* A document has at most one current version here.                             *)
EXTENDS Integers, Sequences, FiniteSets, SemanticRegistry

CONSTANTS
    About,                  \* what the chunks and the rules of each document say
    VectorStores,           \* the sets of chunk vectors the provider may hold
    ServerFacts,            \* what the citizen module may answer, as entries
    RetrievalRequests,      \* the requests considered
    Absent,                 \* a field that is not given
    Universal,              \* states that mean every state
    EveryCategory,          \* the category that means every category
    StateKeys, CategoryKeys,    \* keys of metadata of the citizen
    Bridge,                 \* keys that stand for a legacy key
    SensitiveKeys,
    DefaultCandidates, MostCandidates,  \* 10 and 50
    Overfetch, Headroom,    \* 2 and 3: how much more is fetched than is asked for
    MaxVersion              \* bound: versions of a document

Documents == DOMAIN About
VersionIds == Documents \X (1..MaxVersion)

\* A vector match: chunk of version `of`, said to belong to a document.
VectorMatch == [chunk : Nat, of : VersionIds, document : Documents, score : 0..100]

ASSUME RetrievalAssumption ==
    /\ DOMAIN About = 1..Len(About) /\ Len(About) \in Nat
    /\ \A d \in DOMAIN About : IsFiniteSet(About[d].references)
    /\ \A store \in VectorStores : IsFiniteSet(store) /\ store \subseteq VectorMatch
    /\ \A request \in RetrievalRequests : request.max \in Int
    /\ {DefaultCandidates, MostCandidates, Overfetch, Headroom, MaxVersion} \subseteq Nat \ {0}

VARIABLES
    corpus,         \* the policy documents and their latest versions
    vectors,        \* the chunk vectors of the provider
    retrievalPc,    \* where the request is
    retrieval,      \* what it remembers
    began,          \* the corpus when it began (history)
    answer          \* what it returned

retrievalVars == <<corpus, vectors, retrievalPc, retrieval, began, answer>>

-------------------------------------------------------------------------------
(* Types *)

\* current: version `version` is current, otherwise none is.
CorpusRow == [active : BOOLEAN, version : 1..MaxVersion, current : BOOLEAN]

Modes == {"STRUCTURED_ONLY", "HYBRID"}

RetrievalStatus == {"SUCCESS", "PARTIAL_RESULTS", "NO_RESULTS", "RETRIEVAL_FAILURE"}

Methods == {"STRUCTURED", "VECTOR", "HYBRID"}

\* In hundredths of a point.
Scores == 0..10000

Candidate == [of : VersionIds, score : Scores, method : Methods]

NoAnswer == [status |-> "NO_RESULTS", candidates |-> <<>>, total |-> 0]

NoRetrieval == [request |-> Absent, signals |-> Absent, rows |-> {},
                available |-> FALSE, matches |-> {}]

RetrievalInit ==
    /\ corpus \in [Documents -> {[active |-> TRUE, version |-> 1, current |-> TRUE],
                                 [active |-> FALSE, version |-> 1, current |-> TRUE]}]
    /\ vectors \in VectorStores
    /\ retrievalPc = "idle"
    /\ retrieval = NoRetrieval
    /\ began = corpus
    /\ answer = NoAnswer

-------------------------------------------------------------------------------
(* Alignment: entries are [key, value], in the order of the object *)

Kept(entries) == SelectSeq(entries, LAMBDA e : e.key \notin SensitiveKeys)

\* The attribute of a key, by the registry or by a bridge.
CanonicalCodes(key) ==
    IF AttributesOf(key) = {} /\ key \in DOMAIN Bridge THEN AttributesOf(Bridge[key])
    ELSE AttributesOf(key)

Resolves(e, code) == code \in CanonicalCodes(e.key) /\ ResolutionReason(code, e.value) = "RESOLVED"

\* Of several entries for one attribute the last that resolves counts.
CanonicalFacts(entries) ==
    LET Places(code) == {i \in DOMAIN entries : Resolves(entries[i], code)}
        Latest(code) == CHOOSE i \in Places(code) : \A j \in Places(code) : j <= i
    IN  [code \in {c \in AttributeCodes : Places(c) # {}} |->
            CanonicalValue(code, entries[Latest(code)].value)]

\* The last value under keys that are no attribute.
SaidUnder(entries, keys) ==
    LET said == SelectSeq(entries, LAMBDA e : e.key \in keys /\ CanonicalCodes(e.key) = {})
    IN  IF said = <<>> THEN Absent ELSE said[Len(said)].value

\* Hints about what the server knows are ignored.
OpenHints(hints, known) ==
    SelectSeq(hints, LAMBDA e : CanonicalCodes(e.key) \cap DOMAIN known = {})

\* alignCitizenFacts: what the server knows, and apart from it what hints add.
Aligned(factEntries, hintEntries) ==
    LET own == Kept(factEntries)
        known == CanonicalFacts(own)
        hints == OpenHints(Kept(hintEntries), known)
        state == SaidUnder(own, StateKeys)
        category == SaidUnder(own, CategoryKeys)
    IN  [facts |-> known,
         exploratory |-> CanonicalFacts(hints),
         state |-> state,
         category |-> category,
         exploratoryState |-> IF state = Absent THEN SaidUnder(hints, StateKeys) ELSE Absent,
         exploratoryCategory |->
            IF category = Absent THEN SaidUnder(hints, CategoryKeys) ELSE Absent]

-------------------------------------------------------------------------------
(* Filters *)

AtMost(bound, n) == IF n > bound THEN bound ELSE n

FirstGiven(values) ==
    LET given == SelectSeq(values, LAMBDA v : v # Absent)
    IN  IF given = <<>> THEN Absent ELSE Head(given)

\* maxCandidates: 0 is not given, and less than one is one.
Wanted(request) ==
    AtMost(MostCandidates,
           IF request.max = 0 THEN DefaultCandidates ELSE IF request.max < 1 THEN 1 ELSE request.max)

FilterState(request, signals) ==
    FirstGiven(<<request.state, signals.state, signals.exploratoryState>>)

FilterCategory(request, signals) ==
    FirstGiven(<<request.category, signals.category, signals.exploratoryCategory>>)

RelevantCodes(signals) == DOMAIN signals.facts \cup DOMAIN signals.exploratory

\* The checks of findStructuredCandidates on what a document says.
Matches(d, request, signals) ==
    LET about == About[d]
        state == FilterState(request, signals)
        category == FilterCategory(request, signals)
    IN  /\ about.state \in {Absent, state} \cup Universal \/ state = Absent
        /\ about.category \in {Absent, EveryCategory, category} \/ category = Absent
        /\ request.ministry \in {Absent, about.ministry}
        /\ about.department \in {Absent, request.department} \/ request.department = Absent
        /\ \/ RelevantCodes(signals) = {} \/ about.references = {}
           \/ RelevantCodes(signals) \cap about.references # {}

\* The first n documents in their order.
FirstOf(ds, n) == {d \in ds : Cardinality({e \in ds : e < d}) < n}

Offered(d) == corpus[d].active /\ corpus[d].current

\* take: a bounded number of documents is read, and only these are filtered.
Fetched(request) ==
    FirstOf({d \in Documents :
                corpus[d].active /\ request.classification \in {Absent, About[d].classification}},
            Headroom * Overfetch * Wanted(request))

StructuredRows(request, signals) ==
    {<<d, corpus[d].version>> : d \in
        FirstOf({d \in Fetched(request) : Offered(d) /\ Matches(d, request, signals)},
                Overfetch * Wanted(request))}

-------------------------------------------------------------------------------
(* Ranking *)

\* The versions whatever they are.
DiscoveredWhatever(ids) == {id \in ids : corpus[id[1]].active}

\* findCandidatePolicyVersionsByIds, for versions that are current.
Discovered(ids) == {id \in ids : Offered(id[1]) /\ corpus[id[1]].version = id[2]}

\* When a state is asked for, a document for every state does not count as a match.
StateMatch(about, state) ==
    IF state = Absent THEN about.state \in {Absent} \cup Universal
    ELSE about.state \in {Absent, state}

Points(condition, n) == IF condition THEN n ELSE 0

\* In hundredths.
StructuredScore(d, request, signals) ==
    LET about == About[d]
        category == FilterCategory(request, signals)
    IN  AtMost(80, 50
            + Points(StateMatch(about, FilterState(request, signals)), 10)
            + Points(category # Absent /\ about.category \in {Absent, category}, 10)
            + Points(request.department # Absent /\ about.department = request.department, 5)
            + Points(request.ministry # Absent /\ about.ministry = request.ministry, 5)
            + AtMost(10, 5 * Cardinality(RelevantCodes(signals) \cap about.references)))

BestVector(matches, id) ==
    LET scores == {m.score : m \in {n \in matches : n.of = id}}
    IN  CHOOSE s \in scores : \A t \in scores : t <= s

Ranked(id, inRows, matches, request, signals) ==
    LET structured == StructuredScore(id[1], request, signals)
        inVectors == \E m \in matches : m.of = id
    IN  IF inRows /\ inVectors
        THEN [of |-> id, method |-> "HYBRID",
              score |-> 60 * structured + 40 * BestVector(matches, id)]
        ELSE IF inRows THEN [of |-> id, method |-> "STRUCTURED", score |-> 100 * structured]
        ELSE [of |-> id, method |-> "VECTOR", score |-> 100 * BestVector(matches, id)]

\* By score, then by document number, then by version.
Before(a, b) ==
    \/ a.score > b.score
    \/ a.score = b.score /\ a.of[1] < b.of[1]
    \/ a.score = b.score /\ a.of[1] = b.of[1] /\ a.of[2] < b.of[2]

\* The union of what was found, with vectors only for known versions of their document.
Candidates(local, discovered) ==
    LET matches == {m \in local.matches :
                      m.of \in local.rows \cup discovered /\ m.of[1] = m.document}
    IN  {Ranked(id, id \in local.rows, matches, local.request, local.signals) :
            id \in local.rows \cup {m.of : m \in matches}}

\* Where a candidate comes among all.
Place(c, candidates) == Cardinality({b \in candidates : Before(b, c)}) + 1

Status(local, candidates) ==
    IF candidates = {} THEN "NO_RESULTS"
    ELSE IF local.request.mode = "HYBRID" /\ ~local.available THEN "PARTIAL_RESULTS"
    ELSE "SUCCESS"

Response(local, discovered) ==
    LET candidates == Candidates(local, discovered)
    IN  [status |-> Status(local, candidates),
         candidates |->
            [i \in 1..AtMost(Cardinality(candidates), Wanted(local.request)) |->
                CHOOSE c \in candidates : Place(c, candidates) = i],
         total |-> Cardinality(candidates)]

-------------------------------------------------------------------------------
(* Steps of a request *)

RetrievalGo(from, to) == retrievalPc = from /\ retrievalPc' = to

\* The facts are loaded, or taken to be none when that fails, and aligned.
BeginRetrieval == \E request \in RetrievalRequests, facts \in ServerFacts \cup {<<>>} :
    /\ RetrievalGo("idle", "structured")
    /\ retrieval' = [retrieval EXCEPT !.request = request,
                                      !.signals = Aligned(facts, request.hints)]
    /\ began' = corpus
    /\ UNCHANGED <<corpus, vectors, answer>>

FindStructured ==
    /\ RetrievalGo("structured",
                   IF retrieval.request.mode = "HYBRID" THEN "vectors" ELSE "resolve")
    /\ retrieval' = [retrieval EXCEPT !.rows =
                        StructuredRows(retrieval.request, retrieval.signals)]
    /\ UNCHANGED <<corpus, vectors, began, answer>>

\* The query is rejected: the request ends with nothing.
FailStructured ==
    /\ RetrievalGo("structured", "done")
    /\ answer' = [NoAnswer EXCEPT !.status = "RETRIEVAL_FAILURE"]
    /\ UNCHANGED <<corpus, vectors, retrieval, began>>

\* searchSimilarChunks: the best matches, whatever version they belong to.
SearchVectors ==
    LET eligible == {m \in vectors : m.score >= retrieval.request.minScore}
        size == AtMost(Cardinality(eligible), 3 * Wanted(retrieval.request))
    IN  /\ RetrievalGo("vectors", "resolve")
        /\ \E best \in SUBSET eligible :
            /\ Cardinality(best) = size
            /\ \A m \in best, n \in eligible \ best : m.score >= n.score
            /\ retrieval' = [retrieval EXCEPT !.available = TRUE, !.matches = best]
        /\ UNCHANGED <<corpus, vectors, began, answer>>

\* The provider is not available, or it or the embedding fails.
VectorsUnavailable ==
    /\ RetrievalGo("vectors", "resolve")
    /\ UNCHANGED <<corpus, vectors, retrieval, began, answer>>

\* Versions only the vectors name are looked up; the rest is computed at once.
Answer == \E reached \in BOOLEAN :
    LET missing == {m.of : m \in retrieval.matches} \ retrieval.rows
    IN  /\ RetrievalGo("resolve", "done")
        /\ answer' = Response(retrieval, IF reached THEN Discovered(missing) ELSE {})
        /\ UNCHANGED <<corpus, vectors, retrieval, began>>

\* Ingestion publishes a document, or replaces its version in the two calls of createVersion.
PublishDocument(d) ==
    /\ ~corpus[d].active
    /\ corpus' = [corpus EXCEPT ![d].active = TRUE]
    /\ UNCHANGED <<vectors, retrievalPc, retrieval, began, answer>>

RetireVersion(d) ==
    /\ corpus[d].current /\ corpus[d].version < MaxVersion
    /\ corpus' = [corpus EXCEPT ![d].current = FALSE]
    /\ UNCHANGED <<vectors, retrievalPc, retrieval, began, answer>>

StoreVersion(d) ==
    /\ ~corpus[d].current
    /\ corpus' = [corpus EXCEPT ![d].current = TRUE, ![d].version = @ + 1]
    /\ UNCHANGED <<vectors, retrievalPc, retrieval, began, answer>>

CorpusNext == \E d \in Documents : PublishDocument(d) \/ RetireVersion(d) \/ StoreVersion(d)

\* What happens before and after the request is all in where it begins.
RetrievalNext ==
    \/ BeginRetrieval \/ FindStructured \/ FailStructured
    \/ SearchVectors \/ VectorsUnavailable \/ Answer
    \/ retrievalPc \notin {"idle", "done"} /\ CorpusNext

RetrievalSpec == RetrievalInit /\ [][RetrievalNext]_retrievalVars

-------------------------------------------------------------------------------
(* Properties *)

RetrievalTypeOK ==
    /\ corpus \in [Documents -> CorpusRow]
    /\ vectors \subseteq VectorMatch
    /\ retrievalPc \in {"idle", "structured", "vectors", "resolve", "done"}
    /\ retrieval.rows \subseteq VersionIds
    /\ retrieval.available \in BOOLEAN
    /\ retrieval.matches \subseteq VectorMatch
    /\ answer.status \in RetrievalStatus
    /\ answer.candidates \in Seq(Candidate)
    /\ answer.total \in Nat

\* The version was current in a published document at some time of the request.
OfferedMeanwhile(id) ==
    /\ corpus[id[1]].active
    /\ \/ id[2] = began[id[1]].version /\ began[id[1]].current
       \/ id[2] \in (began[id[1]].version + 1)..corpus[id[1]].version

\* Nothing about the document changed, and enough documents were read to come to it.
SteadyAndNear(d, request) ==
    /\ Offered(d) /\ began[d] = corpus[d]
    /\ Cardinality({e \in 1..d : corpus[e].active}) <= Headroom * Overfetch * Wanted(request)

\* However the ingestion replaces versions while the request is under way, the answer
\* holds: only versions that were on offer at some time of the request, none twice, and
\* two of one document only if the document changed meanwhile; in the promised order and
\* no more than asked for; every document that stayed as it was and matches all the
\* filters, unless as many better or earlier ones were found or the bounded read did not
\* come to it; and a status that tells an empty answer from a partial or failed one.
AnswerIsGrounded == retrievalPc = "done" =>
    LET request == retrieval.request
        found == answer.candidates
        among(d) == \E i \in DOMAIN found : found[i].of[1] = d
    IN  /\ Len(found) <= Wanted(request) /\ Len(found) <= answer.total
        /\ \A i \in DOMAIN found : OfferedMeanwhile(found[i].of)
        /\ \A i, j \in DOMAIN found : i < j =>
            /\ found[i].of # found[j].of
            /\ found[i].score >= found[j].score
            /\ found[i].of[1] = found[j].of[1] => began[found[i].of[1]] # corpus[found[i].of[1]]
        /\ answer.status # "RETRIEVAL_FAILURE" =>
            \A d \in Documents :
                /\ SteadyAndNear(d, request) /\ Matches(d, request, retrieval.signals)
                /\ request.classification \in {Absent, About[d].classification}
                => among(d) \/ Len(found) = Wanted(request)
        /\ answer.status = "NO_RESULTS" => answer.total = 0
        /\ answer.status \in {"SUCCESS", "PARTIAL_RESULTS"} => found # <<>>
        /\ answer.status = "PARTIAL_RESULTS" => \A i \in DOMAIN found : found[i].method = "STRUCTURED"
===============================================================================

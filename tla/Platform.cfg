SPECIFICATION Spec
CONSTANTS
    r1 = r1
    r2 = r2
    r3 = r3
    g1 = g1
    g2 = g2
    none = none
    Refreshes <- Pair
    DocumentRequests <- Triple
    Contents = {"land record", "income certificate"}
    FactKeys <- MCFactKeys
    Values = {0, 1000}
    Answers <- MCAnswers
    Unanswered = none
    AmbiguousPhrases = {"shop staff"}
    Numerals = {"1.5"}
    TruthWords = {"yes", "no"}
    About <- MCAbout
    VectorStores <- MCVectorStores
    ServerFacts <- MCServerFacts
    RetrievalRequests <- MCRequests
    Absent = none
    Universal = {"all", "national"}
    EveryCategory = "all"
    StateKeys = {"state", "residenceState"}
    CategoryKeys = {"beneficiaryCategory"}
    Bridge <- MCBridge
    SensitiveKeys = {"aadhaarNumber"}
    DefaultCandidates = 2
    MostCandidates = 2
    Overfetch = 1
    Headroom = 2
    MaxVersion = 2
    RuleSets <- MCRuleSets
    Evaluations <- Pair
    Generations <- GenerationPair
    Runs <- Pair
    AccountKeys = {"bankAccountNumber", "aadhaarNumber"}
    LandKey = "landHolding"
    Officers <- Pair
    Nobody = none
    Blueprints <- MCBlueprints
    NoBlueprint = none
    Parent <- MCParent
    DefaultSteps <- MCDefaultSteps
    StepGraphs <- MCStepGraphs
    JourneyRequests <- Pair
SYMMETRY Symmetry
INVARIANTS
    TypeOK
    JobTellsOutcome
    AnswerIsGrounded
    DecisionLineage
    ChangesReported
    PlanFollowsPrerequisites
PROPERTIES
    ArchivedIsFinal
    AnsweringNeverHurts
\* every request has been made
CHECK_DEADLOCK FALSE

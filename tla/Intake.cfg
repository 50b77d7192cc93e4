SPECIFICATION Spec
CONSTANTS
    AuthRequests <- MCRequests
    MaxLoginAttempts = 2
    OnboardingRequests <- MCRequests
    StepOrdering <- MCStepOrdering
    StepKeys <- MCStepKeys
    NoStepKey = none
    Questions <- MCQuestions
    Catalogue <- MCCatalogue
    Dependency <- MCDependency
    Values = {0, 1}
    Evidences <- MCEvidences
    none = none
    ProfileRequests = {1, 2, 3}
    Attributes <- MCAttributes
    Registry <- MCRegistry
    RawValues = {"no", "1", "null"}
    Falsy = {"no"}
    Null = "null"
    Unset = none
    Unchecked = unchecked
    FactVerifications = {1, 2}
    ReviewCalls = {1, 2}
    Officers = {"officer"}
    FactSource = "SELF_DECLARED"
    EvidenceStates <- MCEvidenceStates
    DefaultTrust = 80
    MinimumTrust = 70
    ExpiryDays = 2
    WarningDays = 1
    MaxAge = 2
    Nothing = none
    Notices = {"first", "second"}
    Concern <- MCConcern
    DayMinutes = 3
    Morning = 2
    PolicyVersions = {1}
    Policies <- MCPolicies
    TemplateVersions = {1}
    Texts <- MCTexts
    Parameters = {"policyTitle", "newStatus", "reEvaluationId"}
    NoRow = none
INVARIANTS
    TypeOK
    LockoutConsistent
    SuccessorReplaces
    CycleCheckExact
    DiscoveryProceeds
    ProfileHonest
    VerificationAccountable
    RoutedAsChosen
PROPERTY
    StepsLostOnlyByOverlap
\* every request has been made, or every question asked
CHECK_DEADLOCK FALSE

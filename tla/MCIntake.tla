------------------------------ MODULE MCIntake ------------------------------
(* Small instances of the components a citizen meets: the account, the         *)
(* onboarding session, the choice of the next question, the profile, the       *)
(* review of a fact and the routing of a notice.  They share no state here, so *)
(* that interleaving their steps would show nothing; each behaviour exercises  *)
(* one of them, and the others stay as they began.                             *)
EXTENDS Authentication, OnboardingSession, QuestionSelection, CitizenProfile, FactReview,
        NotificationRouting

CONSTANT none

VARIABLE part       \* the component this behaviour exercises

MCRequests == 1..4
MCStepOrdering == <<"personal_info", "financial_info">>
\* The blueprint's keys and one it does not have.
MCStepKeys == {"personal_info", "financial_info", "elsewhere"}
MCQuestions == 1..3
MCCatalogue == [q \in MCQuestions |->
    [relevant |-> q = 1, unlocks |-> FALSE, critical |-> FALSE,
     priority |-> IF q = 1 THEN 1 ELSE 3, document |-> q = 3]]
MCDependency == [q \in MCQuestions |->
    IF q = 2 THEN [operator |-> "GREATER_THAN", expected |-> 0]
             ELSE [operator |-> "NOT_IN", expected |-> {1}]]
MCEvidences == {[found |-> TRUE, status |-> "ACTIVE", verified |-> TRUE,
                 trust |-> trust, conflict |-> FALSE] : trust \in {69, 70}}

\* A name, whether the citizen farms, and the land that only farmers state.
MCAttributes == {"fullName", "isFarmer", "landAreaHectares"}
MCRegistry ==
    [a \in MCAttributes |->
        [mandatory |-> a = "fullName", boolean |-> a = "isFarmer",
         accepts   |-> {"1"},
         parent    |-> IF a = "landAreaHectares" THEN "isFarmer" ELSE none,
         condition |-> IF a = "landAreaHectares" THEN "true" ELSE none]]

\* A citizen without documents, with evidence that does not count yet, and with one that does.
MCEvidenceStates ==
    {[documents |-> FALSE, evidence |-> FALSE, status |-> "UPLOADED", verification |-> "UNVERIFIED", trust |-> 0],
     [documents |-> TRUE, evidence |-> TRUE, status |-> "UPLOADED", verification |-> "VERIFIED", trust |-> 0],
     [documents |-> TRUE, evidence |-> TRUE, status |-> "ACTIVE", verification |-> "VERIFIED", trust |-> 0]}

\* A notice of a material change and one of another.
MCConcern == [n \in {"first", "second"} |-> [material |-> n = "first", policyVersion |-> 1]]
MCPolicies == {[allowed |-> {}, fallback |-> {"EMAIL"}]}
MCTexts == {[placeholders |-> {"policyTitle", "newStatus"}, long |-> FALSE],
            [placeholders |-> {"citizenName"}, long |-> FALSE]}

allVars == <<authVars, onboardingVars, questionVars, profileVars, reviewVars, routingVars, part>>

\* The components this behaviour leaves alone begin in one state.
Init ==
    /\ part \in {"account", "session", "questions", "profile", "reviews", "notices"}
    /\ AuthInit
    /\ OnboardingInit
    /\ QuestionInit
    /\ ProfileInit
    /\ FactReviewInit
    /\ RoutingInit
    /\ part # "questions" =>
            active = {} /\ dependsOn = {} /\ \A q \in Questions : ~Satisfies(evidence[q])
    /\ part # "reviews" => ~documentEvidence.documents

\* In a behaviour about notices IN_APP is turned off, which is to no avail, and given
\* quiet hours, and EMAIL is turned off and on.
NoticesNext ==
    /\ RoutingNext
    /\ \A c \in {"SMS", "PUSH"} : preferences'[c] = NoPreference
    /\ preferences'["IN_APP"].status # "ENABLED"
    /\ preferences'["EMAIL"].quietStart = none /\ preferences'["EMAIL"].quietEnd = none
    /\ <<preferences'["IN_APP"].quietStart, preferences'["IN_APP"].quietEnd>>
            \in {<<none, none>>, <<1, 0>>, <<1, 2>>}

\* The calls of one kind are alike: number them in the order in which they begin.
InOrder(begun) == \A r \in begun : 1..r \subseteq begun
NumberedInOrder ==
    /\ InOrder({r \in AuthRequests : authPc'[r] # "idle"})
    /\ InOrder({r \in OnboardingRequests : onboardingPc'[r] # "idle"})
    /\ InOrder({r \in ProfileRequests : request'[r].step # "idle"})
    /\ InOrder({v \in FactVerifications : verification'[v] # "idle"})
    /\ InOrder({c \in ReviewCalls : call'[c].step # "idle"})

NextStep ==
    \/ /\ part = "account"
       /\ AuthNext
       /\ UNCHANGED <<onboardingVars, questionVars, profileVars, reviewVars, routingVars, part>>
    \/ /\ part = "session"
       /\ OnboardingNext
       /\ UNCHANGED <<authVars, questionVars, profileVars, reviewVars, routingVars, part>>
    \/ /\ part = "questions"
       /\ QuestionNext
       /\ UNCHANGED <<authVars, onboardingVars, profileVars, reviewVars, routingVars, part>>
    \/ /\ part = "profile"
       /\ ProfileNext
       /\ UNCHANGED <<authVars, onboardingVars, questionVars, reviewVars, routingVars, part>>
    \/ /\ part = "reviews"
       /\ FactReviewNext
       /\ UNCHANGED <<authVars, onboardingVars, questionVars, profileVars, routingVars, part>>
    \/ /\ part = "notices"
       /\ NoticesNext
       /\ UNCHANGED <<authVars, onboardingVars, questionVars, profileVars, reviewVars, part>>

Next == NextStep /\ NumberedInOrder

Spec == Init /\ [][Next]_allVars

\* Every component keeps its types.
TypeOK ==
    /\ AuthTypeOK
    /\ OnboardingTypeOK
    /\ ProfileTypeOK
    /\ FactReviewTypeOK
    /\ RoutingTypeOK
===============================================================================

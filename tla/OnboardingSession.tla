-------------------------- MODULE OnboardingSession --------------------------
(* The onboarding session of one citizen:                                      *)
(*   onboarding-session.service.ts         getOrCreateSession, submitAnswer,    *)
(*                                         updateSessionStep, completeOnboarding*)
(*   onboarding-session-engine.service.ts  startOrResumeSession                *)
(*   prisma-onboarding-session.repository.ts                                   *)
(*                                                                             *)
(* A request reads the session and writes it some calls later; an update names *)
(* the row by its id alone.  In between submitAnswer stores the fact, which is *)
(* CitizenFact's matter.                                                        *)
(*                                                                             *)
(* Left out: timeline, analytics and events, which no step reads; draft answers *)
(* and skipped steps, which no service writes; soft deletion, which no service  *)
(* asks for.                                                                   *)
EXTENDS Naturals, Sequences, FiniteSets

CONSTANTS
    OnboardingRequests,     \* calls of the two services
    StepOrdering,           \* DiscoveryBlueprint.stepOrdering: the keys of its steps
    StepKeys,               \* keys a request may name, of the blueprint or not
    NoStepKey               \* a request that names none

ASSUME OnboardingAssumption ==
    /\ StepOrdering \in Seq(StepKeys) /\ StepOrdering # <<>>
    /\ NoStepKey \notin StepKeys

VARIABLES
    session,            \* the OnboardingSession row
    onboardingPc,       \* where each request is
    onboardingLocal     \* the session it read, and what it is asked to do

onboardingVars == <<session, onboardingPc, onboardingLocal>>

-------------------------------------------------------------------------------
(* Types *)

TotalSteps == Len(StepOrdering)

OnboardingSessionStatus == {"STARTED", "IN_PROGRESS", "PAUSED", "COMPLETED"}
\* OTHER: any other action, or none.
StepActions == {"NAVIGATE", "PAUSE", "OTHER"}

\* Version 0: there is no row.  completed: the keys in completedSteps, which never
\* names one twice; progress: completionPercentage in steps out of TotalSteps, which it
\* may exceed; finished: completedAt is set.
SessionState == [version : Nat, step : StepKeys, completed : SUBSET StepKeys,
                 progress : Nat, status : OnboardingSessionStatus, finished : BOOLEAN]

OnboardingPC == {"idle", "create", "resume", "storeAnswer", "storeStep",
                 "storeCompletion", "done"}

OnboardingLocal == [session : SessionState, step : StepKeys \cup {NoStepKey},
                    action : StepActions]

NoSession ==
    [version |-> 0, step |-> StepOrdering[1], completed |-> {}, progress |-> 0,
     status |-> "STARTED", finished |-> FALSE]

OnboardingInit ==
    /\ session = NoSession
    /\ onboardingPc = [r \in OnboardingRequests |-> "idle"]
    /\ onboardingLocal = [r \in OnboardingRequests |->
            [session |-> NoSession, step |-> NoStepKey, action |-> "OTHER"]]

-------------------------------------------------------------------------------
(* Helpers *)

HasSession == session.version > 0

\* What createSession stores.
CreatedSession == [NoSession EXCEPT !.version = 1]

\* calculateProgress counts the completed steps of the session it is given.
Progress(read) == Cardinality(read.completed)

\* The list is replaced instead of extended.
OnlyCurrentStep(read, action) ==
    IF action = "NAVIGATE" THEN {read.step} ELSE read.completed

\* updateSessionStep: the steps completed after the citizen leaves the current one.
CompletedAfter(read, action) ==
    IF action = "NAVIGATE" THEN read.completed \cup {read.step} ELSE read.completed

\* The name of the action is stored as the status.
ActionAsStatus(action) == action

StatusAfter(action) == IF action = "PAUSE" THEN "PAUSED" ELSE "IN_PROGRESS"

-------------------------------------------------------------------------------
(* Steps of a request *)

OnboardingGo(r, from, to) ==
    /\ onboardingPc[r] = from
    /\ onboardingPc' = [onboardingPc EXCEPT ![r] = to]

\* findByUserId, the first call of every request; without a session it is the last
\* one of those that need it.
ReadSession(r, next) ==
    /\ OnboardingGo(r, "idle", IF HasSession THEN next ELSE "done")
    /\ onboardingLocal' = [onboardingLocal EXCEPT ![r].session = session]
    /\ UNCHANGED session

\* updateSession, which leaves alone the columns it is not given.
UpdateSession(r, row) ==
    /\ session' = [row EXCEPT !.version = session.version + 1]
    /\ UNCHANGED onboardingLocal

\* getOrCreateSession
OpenSession(r) ==
    /\ OnboardingGo(r, "idle", IF HasSession THEN "done" ELSE "create")
    /\ UNCHANGED <<session, onboardingLocal>>

\* createSession; userId is unique, so a second row is refused.
CreateOnboarding(r) ==
    /\ OnboardingGo(r, "create", "done")
    /\ session' = IF HasSession THEN session ELSE CreatedSession
    /\ UNCHANGED onboardingLocal

\* startOrResumeSession.  Without a session it asks for one of the blueprint
\* "default-discovery-blueprint-v1", which is not a row: the foreign key refuses it.
StartOrResume(r) ==
    /\ ReadSession(r, IF session.status = "PAUSED" THEN "resume" ELSE "done")

Resume(r) ==
    /\ OnboardingGo(r, "resume", "done")
    /\ UpdateSession(r, [session EXCEPT !.status = "IN_PROGRESS"])

SubmitAnswer(r) == ReadSession(r, "storeAnswer")

StoreAnswer(r) ==
    /\ OnboardingGo(r, "storeAnswer", "done")
    /\ UpdateSession(r, [session EXCEPT !.status = "IN_PROGRESS",
                                        !.progress = Progress(onboardingLocal[r].session)])

\* updateSessionStep: nobody looks whether the blueprint has the step.
UpdateStep(r) == \E step \in StepKeys \cup {NoStepKey}, action \in StepActions :
    /\ OnboardingGo(r, "idle", IF HasSession THEN "storeStep" ELSE "done")
    /\ onboardingLocal' = [onboardingLocal EXCEPT ![r] =
            [session |-> session, step |-> step, action |-> action]]
    /\ UNCHANGED session

StoreStep(r) ==
    LET local == onboardingLocal[r] IN
    /\ OnboardingGo(r, "storeStep", "done")
    /\ UpdateSession(r, [session EXCEPT
            !.step = IF local.step = NoStepKey THEN @ ELSE local.step,
            !.completed = CompletedAfter(local.session, local.action),
            !.status = StatusAfter(local.action)])

CompleteOnboarding(r) == ReadSession(r, "storeCompletion")

CompletedSession ==
    [session EXCEPT !.status = "COMPLETED", !.progress = TotalSteps, !.finished = TRUE]

StoreCompletion(r) ==
    /\ OnboardingGo(r, "storeCompletion", "done")
    /\ UpdateSession(r, CompletedSession)

\* A call is rejected, or the process dies, between two calls.
FailOnboarding(r) ==
    /\ onboardingPc[r] \notin {"idle", "done"}
    /\ onboardingPc' = [onboardingPc EXCEPT ![r] = "done"]
    /\ UNCHANGED <<session, onboardingLocal>>

OnboardingStep(r) ==
    \/ OpenSession(r) \/ CreateOnboarding(r)
    \/ StartOrResume(r) \/ Resume(r)
    \/ SubmitAnswer(r) \/ StoreAnswer(r)
    \/ UpdateStep(r) \/ StoreStep(r)
    \/ CompleteOnboarding(r) \/ StoreCompletion(r)
    \/ FailOnboarding(r)

OnboardingNext == \E r \in OnboardingRequests : OnboardingStep(r)

OnboardingSpec == OnboardingInit /\ [][OnboardingNext]_onboardingVars

-------------------------------------------------------------------------------
(* Properties *)

OnboardingTypeOK ==
    /\ session \in SessionState
    /\ onboardingPc \in [OnboardingRequests -> OnboardingPC]
    /\ onboardingLocal \in [OnboardingRequests -> OnboardingLocal]

\* A completed step disappears from the session only when two requests overlap: one
\* navigates with the list it read before another one added to it.
StepsLostOnlyByOverlap ==
    [][~(session.completed \subseteq session'.completed)
        => \E r \in OnboardingRequests :
              /\ onboardingPc[r] = "storeStep" /\ onboardingPc'[r] = "done"
              /\ onboardingLocal[r].session.version < session.version]_onboardingVars
===============================================================================

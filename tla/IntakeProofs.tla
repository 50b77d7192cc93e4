----------------------------- MODULE IntakeProofs -----------------------------
(* The components a citizen meets, each on its own: what every request remembers  *)
(* from its earlier calls is still worth something when it uses it, and the         *)
(* properties follow.  The small instance of MCIntake keeps the types of all.       *)
EXTENDS MCIntake, FiniteSetTheorems, FunctionTheorems, NaturalsInduction, WellFoundedInduction,
        TLAPS

-------------------------------------------------------------------------------
(* The account: however many requests of a user overlap, the lockout and the line
   of the sessions stay consistent.  The user row a failure is counted from was
   consistent when it was read, and the session a request has rotated stays rotated. *)

(* The invariant *)

\* LockoutConsistent, of any user row.
Consistent(row) ==
    /\ row.status = "LOCKED" <=> row.lockout # "none"
    /\ row.status = "LOCKED" => row.failed >= MaxLoginAttempts

UserInv == Consistent(user) /\ \A r \in AuthRequests : Consistent(authLocal[r].user)

\* The session with this number exists and was rotated.
IsRotated(s) == s \in DOMAIN sessions /\ sessions[s].revoked /\ sessions[s].replaced

\* A login has no session in hand, and a refresh that is about to create one has rotated its own.
HandInv == \A r \in AuthRequests :
    /\ authPc[r] \in {"idle", "countFailure", "storeFailure", "resetFailures"} =>
         authLocal[r].session = 0
    /\ authPc[r] \in {"rotate", "checkUser", "endSession"} => authLocal[r].session \in DOMAIN sessions
    /\ authPc[r] = "createSession" => authLocal[r].session = 0 \/ IsRotated(authLocal[r].session)

OriginInv == \A s \in DOMAIN sessions :
    sessions[s].origin > 0 => sessions[s].origin < s /\ IsRotated(sessions[s].origin)

AuthInv == AuthTypeOK /\ UserInv /\ HandInv /\ OriginInv

-------------------------------------------------------------------------------
(* What the repository calls do to a row *)

LEMMA RowTypes ==
    ASSUME AuthTypeOK
    PROVE  /\ Len(sessions) \in Nat /\ DOMAIN sessions = 1..Len(sessions)
           /\ \A s \in DOMAIN sessions : sessions[s] \in SessionRow /\ sessions[s].origin \in Nat
           /\ \A r \in AuthRequests : /\ authLocal[r] \in AuthLocal
                                     /\ authLocal[r].user \in UserRow
                                     /\ authLocal[r].session \in Nat
<1>1. Len(sessions) \in Nat /\ DOMAIN sessions = 1..Len(sessions)
  BY DEF AuthTypeOK
<1>2. \A s \in DOMAIN sessions : sessions[s] \in SessionRow
  BY DEF AuthTypeOK
<1>3. \A r \in AuthRequests : authLocal[r] \in AuthLocal
  BY DEF AuthTypeOK
<1> QED BY <1>1, <1>2, <1>3 DEF SessionRow, AuthLocal

\* Counting a failure from a consistent row gives a consistent row.
LEMMA CountedConsistent ==
    ASSUME NEW row \in UserRow, Consistent(row)
    PROVE  Counted(row) \in UserRow /\ Consistent(Counted(row))
<1>1. row.failed \in Nat /\ row.status \in UserStatus /\ row.lockout \in Lockout
  BY DEF UserRow
<1>2. CASE row.failed + 1 >= MaxLoginAttempts
  BY <1>1, <1>2 DEF Counted, Consistent, UserRow, UserStatus, Lockout
<1>3. CASE ~(row.failed + 1 >= MaxLoginAttempts)
  <2>1. Counted(row) = [row EXCEPT !.failed = row.failed + 1]
    BY <1>3 DEF Counted
  <2>2. row.status # "LOCKED"
    BY <1>1, <1>3, AuthAssumption DEF Consistent
  <2> QED BY <1>1, <2>1, <2>2 DEF Consistent, UserRow
<1> QED BY <1>2, <1>3

\* No call takes back that a session is revoked or replaced, or changes where it came from.
Kept(old, new) ==
    /\ new \in SessionRow /\ new.origin = old.origin
    /\ old.revoked => new.revoked
    /\ old.replaced => new.replaced

LEMMA CallsKeep ==
    ASSUME NEW row \in SessionRow
    PROVE  /\ Kept(row, row) /\ Kept(row, Revoked(row)) /\ Kept(row, Rotated(row))
           /\ Kept(row, Deleted(row))
           /\ Rotated(row).revoked /\ Rotated(row).replaced
BY DEF Kept, Revoked, Rotated, Deleted, SessionRow

\* Sessions are not removed, and what is true of one stays true.
SessionsKept ==
    /\ DOMAIN sessions \subseteq DOMAIN sessions'
    /\ \A s \in DOMAIN sessions : Kept(sessions[s], sessions'[s])

\* The updates of sessions that are there.
LEMMA UpdateKeeps ==
    ASSUME AuthTypeOK,
           \/ UNCHANGED sessions
           \/ sessions' = AllRevoked
           \/ \E s \in DOMAIN sessions :
                \/ sessions' = [sessions EXCEPT ![s] = Revoked(sessions[s])]
                \/ sessions' = [sessions EXCEPT ![s] = Rotated(sessions[s])]
                \/ sessions' = [sessions EXCEPT ![s] = Deleted(sessions[s])]
    PROVE  /\ sessions' \in Seq(SessionRow)
           /\ DOMAIN sessions' = DOMAIN sessions
           /\ SessionsKept
<1>1. Len(sessions) \in Nat /\ DOMAIN sessions = 1..Len(sessions)
  BY RowTypes
<1>2. \A s \in DOMAIN sessions :
        /\ Kept(sessions[s], sessions[s]) /\ Kept(sessions[s], Revoked(sessions[s]))
        /\ Kept(sessions[s], Rotated(sessions[s])) /\ Kept(sessions[s], Deleted(sessions[s]))
  BY RowTypes, CallsKeep
<1>3. sessions = [s \in 1..Len(sessions) |-> sessions[s]]
  BY DEF AuthTypeOK
<1>4. DOMAIN sessions' = DOMAIN sessions /\ sessions' = [s \in 1..Len(sessions) |-> sessions'[s]]
  BY <1>1, <1>3 DEF AllRevoked
<1>5. \A s \in DOMAIN sessions : Kept(sessions[s], sessions'[s])
  BY <1>1, <1>2 DEF AllRevoked
<1>6. \A s \in 1..Len(sessions) : sessions'[s] \in SessionRow
  BY <1>1, <1>5 DEF Kept
<1> QED BY <1>1, <1>4, <1>5, <1>6 DEF SessionsKept

LEMMA RotatedStays ==
    ASSUME SessionsKept, NEW s, IsRotated(s)
    PROVE  IsRotated(s)'
BY DEF SessionsKept, IsRotated, Kept

-------------------------------------------------------------------------------
(* The steps *)

LEMMA AuthInvInit == AuthInit => AuthInv
<1> SUFFICES ASSUME AuthInit PROVE AuthInv
  OBVIOUS
<1>1. NewUser \in UserRow /\ Consistent(NewUser)
  BY AuthAssumption DEF NewUser, UserRow, UserStatus, Lockout, Consistent
<1> HIDE DEF NewUser
<1>2. AuthTypeOK
  BY <1>1 DEF AuthInit, AuthTypeOK, AuthPC, AuthLocal
<1>3. UserInv
  BY <1>1 DEF AuthInit, UserInv
<1>4. HandInv /\ OriginInv
  BY DEF AuthInit, HandInv, OriginInv
<1> QED BY <1>2, <1>3, <1>4 DEF AuthInv

\* What a request does to the user row and to its own memory.
LEMMA AuthMemoryStep ==
    ASSUME AuthInv, NEW r \in AuthRequests, AuthStep(r)
    PROVE  /\ user' \in UserRow /\ authPc' \in [AuthRequests -> AuthPC]
           /\ authLocal' \in [AuthRequests -> AuthLocal]
           /\ UserInv'
           /\ \A m \in AuthRequests : m # r => authPc'[m] = authPc[m] /\ authLocal'[m] = authLocal[m]
<1> USE DEF AuthInv
<1>1. authPc' \in [AuthRequests -> AuthPC] /\ \A m \in AuthRequests : m # r => authPc'[m] = authPc[m]
  BY DEF AuthTypeOK, AuthPC, AuthStep, AuthGo, Login, CountFailure, StoreFailure, ResetFailures,
         Refresh, CheckUser, Rotate, CreateSession, EndReusedFamily, LogoutSession, EndSession,
         LogoutEverywhere, RevokeSession, FailAuth
<1>2. NewUser \in UserRow /\ Consistent(NewUser)
  BY AuthAssumption DEF NewUser, UserRow, UserStatus, Lockout, Consistent
<1>3. user' \in UserRow /\ Consistent(user')
  <2>1. \/ user' = user \/ user' = NewUser \/ user' = Counted(authLocal[r].user)
    BY DEF AuthStep, AuthGo, Login, CountFailure, StoreFailure, ResetFailures,
           Refresh, CheckUser, Rotate, CreateSession, EndReusedFamily, LogoutSession, EndSession,
           LogoutEverywhere, RevokeSession, FailAuth
  <2>2. Counted(authLocal[r].user) \in UserRow /\ Consistent(Counted(authLocal[r].user))
    BY RowTypes, CountedConsistent DEF UserInv
  <2> QED BY <1>2, <2>1, <2>2 DEF AuthTypeOK, UserInv
<1>4. /\ authLocal' \in [AuthRequests -> AuthLocal]
      /\ \A m \in AuthRequests : m # r => authLocal'[m] = authLocal[m]
      /\ authLocal'[r].user \in {authLocal[r].user, user}
  <2>1. authLocal[r] \in AuthLocal /\ Len(sessions) \in Nat /\ DOMAIN sessions = 1..Len(sessions)
    BY RowTypes
  <2>2. CASE authLocal' = authLocal
    BY <2>2 DEF AuthTypeOK
  <2>3. CASE authLocal' = [authLocal EXCEPT ![r].user = user]
    BY <2>1, <2>3 DEF AuthTypeOK, AuthLocal
  <2>4. ASSUME NEW s \in DOMAIN sessions, Remember(r, s)
        PROVE  <1>4!1 /\ <1>4!2 /\ <1>4!3
    BY <2>1, <2>4 DEF AuthTypeOK, AuthLocal, Remember
  <2>5. \/ authLocal' = authLocal
        \/ authLocal' = [authLocal EXCEPT ![r].user = user]
        \/ \E s \in DOMAIN sessions : Remember(r, s)
    BY DEF AuthStep, Login, CountFailure, StoreFailure, ResetFailures,
           Refresh, CheckUser, Rotate, CreateSession, EndReusedFamily, LogoutSession, EndSession,
           LogoutEverywhere, RevokeSession, FailAuth
  <2> QED BY <2>2, <2>3, <2>4, <2>5
<1>5. UserInv'
  BY <1>3, <1>4 DEF UserInv
<1> QED BY <1>1, <1>3, <1>4, <1>5

\* The sessions of other requests and the line of the sessions survive an update.
LEMMA RowUpdated ==
    ASSUME AuthInv, NEW r \in AuthRequests, AuthStep(r), SessionsKept,
           sessions' \in Seq(SessionRow),
           \A s \in DOMAIN sessions' \ DOMAIN sessions :
             sessions'[s].origin > 0 => sessions'[s].origin < s /\ IsRotated(sessions'[s].origin),
           /\ authPc'[r] \in {"idle", "countFailure", "storeFailure", "resetFailures"} =>
                authLocal'[r].session = 0
           /\ authPc'[r] \in {"rotate", "checkUser", "endSession"} =>
                authLocal'[r].session \in DOMAIN sessions'
           /\ authPc'[r] = "createSession" =>
                \/ authLocal'[r].session = 0
                \/ /\ authLocal'[r].session \in DOMAIN sessions'
                   /\ sessions'[authLocal'[r].session].revoked
                   /\ sessions'[authLocal'[r].session].replaced
    PROVE  AuthInv'
<1> USE DEF AuthInv
<1>1. AuthTypeOK' /\ UserInv'
  BY AuthMemoryStep DEF AuthTypeOK
<1>2. \A s : IsRotated(s) => /\ s \in DOMAIN sessions' /\ sessions'[s].revoked
                             /\ sessions'[s].replaced
  BY DEF SessionsKept, IsRotated, Kept
<1>3. HandInv'
  <2> SUFFICES ASSUME NEW m \in AuthRequests
               PROVE  HandInv!(m)'
    BY DEF HandInv
  <2>1. CASE m = r
    BY <2>1 DEF IsRotated
  <2>2. CASE m # r
    <3>1. authPc'[m] = authPc[m] /\ authLocal'[m] = authLocal[m]
      BY <2>2, AuthMemoryStep
    <3> QED BY <1>2, <3>1 DEF HandInv, IsRotated, SessionsKept
  <2> QED BY <2>1, <2>2
<1>4. OriginInv'
  <2> SUFFICES ASSUME NEW s \in DOMAIN sessions', sessions'[s].origin > 0
               PROVE  /\ sessions'[s].origin < s
                      /\ sessions'[s].origin \in DOMAIN sessions'
                      /\ sessions'[sessions'[s].origin].revoked
                      /\ sessions'[sessions'[s].origin].replaced
    BY DEF OriginInv, IsRotated
  <2>1. CASE s \in DOMAIN sessions
    BY <1>2, <2>1 DEF OriginInv, SessionsKept, Kept
  <2>2. CASE s \notin DOMAIN sessions
    BY <1>2, <2>2
  <2> QED BY <2>1, <2>2
<1> QED BY <1>1, <1>3, <1>4

LEMMA AuthRequestStep ==
    ASSUME AuthInv, NEW r \in AuthRequests, AuthStep(r)
    PROVE  AuthInv'
<1> USE DEF AuthInv
<1>1. CASE CreateSession(r)
  <2> DEFINE row == NewSession(authLocal[r].session)
  <2>1. /\ authPc[r] = "createSession" /\ authPc' = [authPc EXCEPT ![r] = "done"]
        /\ sessions' = Append(sessions, row) /\ UNCHANGED authLocal
    BY <1>1 DEF CreateSession, AuthGo
  <2>2. authPc'[r] = "done"
    BY <2>1 DEF AuthTypeOK
  <2>3. authLocal[r].session = 0 \/ IsRotated(authLocal[r].session)
    BY <2>1 DEF HandInv
  <2>4. row \in SessionRow /\ row.origin = authLocal[r].session /\ sessions \in Seq(SessionRow)
    BY RowTypes DEF NewSession, SessionRow, AuthTypeOK
  <2> HIDE DEF row
  <2>5. /\ sessions' \in Seq(SessionRow) /\ Len(sessions) \in Nat
        /\ DOMAIN sessions = 1..Len(sessions) /\ DOMAIN sessions' = 1..(Len(sessions) + 1)
        /\ \A s \in 1..Len(sessions) : sessions'[s] = sessions[s]
        /\ sessions'[Len(sessions) + 1] = row
    BY <2>1, <2>4
  <2>6. SessionsKept
    BY <2>5, RowTypes, CallsKeep DEF SessionsKept
  <2>7. \A s \in DOMAIN sessions' \ DOMAIN sessions :
          sessions'[s].origin > 0 => sessions'[s].origin < s /\ IsRotated(sessions'[s].origin)
    BY <2>3, <2>4, <2>5 DEF IsRotated
  <2> QED BY <2>2, <2>5, <2>6, <2>7, RowUpdated
<1>2. CASE ~CreateSession(r)
  <2>1. \/ UNCHANGED sessions
        \/ sessions' = AllRevoked
        \/ \E s \in DOMAIN sessions :
             \/ sessions' = [sessions EXCEPT ![s] = Revoked(sessions[s])]
             \/ sessions' = [sessions EXCEPT ![s] = Rotated(sessions[s])]
             \/ sessions' = [sessions EXCEPT ![s] = Deleted(sessions[s])]
    BY <1>2 DEF AuthStep, Login, CountFailure, StoreFailure, ResetFailures, HandInv, AuthGo,
           Refresh, CheckUser, Rotate, EndReusedFamily, LogoutSession, EndSession,
           LogoutEverywhere, RevokeSession, FailAuth
  <2>2. /\ sessions' \in Seq(SessionRow) /\ DOMAIN sessions' = DOMAIN sessions /\ SessionsKept
    BY <2>1, UpdateKeeps
  <2>3. CASE Rotate(r)
    <3>1. /\ authPc[r] = "rotate" /\ authPc' = [authPc EXCEPT ![r] = "createSession"]
          /\ sessions' = [sessions EXCEPT ![authLocal[r].session] = Rotated(@)]
          /\ UNCHANGED authLocal
      BY <2>3 DEF Rotate, AuthGo
    <3>2. authLocal[r].session \in DOMAIN sessions
      BY <3>1 DEF HandInv
    <3>3. sessions'[authLocal[r].session].revoked /\ sessions'[authLocal[r].session].replaced
      BY <3>1, <3>2, RowTypes, CallsKeep
    <3>4. authPc'[r] = "createSession"
      BY <3>1 DEF AuthTypeOK
    <3> QED BY <2>2, <3>1, <3>2, <3>3, <3>4, RowUpdated
  <2>4. CASE Refresh(r) \/ LogoutSession(r)
    <3>1. PICK s \in DOMAIN sessions : Remember(r, s)
      BY <2>4 DEF Refresh, LogoutSession
    <3>2. authLocal'[r].session = s
      BY <3>1, RowTypes DEF Remember, AuthTypeOK, AuthLocal
    <3>3. authPc'[r] \in {"checkUser", "reuse", "endSession", "done"}
      BY <2>4 DEF Refresh, LogoutSession, AuthGo, AuthTypeOK
    <3> QED BY <2>2, <3>2, <3>3, RowUpdated
  <2>5. CASE Login(r) \/ CountFailure(r) \/ ResetFailures(r) \/ CheckUser(r)
    <3>1. authLocal'[r].session = authLocal[r].session
      BY <2>5, RowTypes DEF Login, CountFailure, ResetFailures, CheckUser, AuthTypeOK, AuthLocal
    <3>2. \/ /\ authPc[r] \in {"idle", "countFailure", "resetFailures"}
             /\ authPc'[r] \in {"countFailure", "storeFailure", "resetFailures", "createSession", "done"}
          \/ authPc[r] = "checkUser" /\ authPc'[r] \in {"rotate", "done"}
      BY <2>5 DEF Login, CountFailure, ResetFailures, CheckUser, AuthGo, AuthTypeOK
    <3>3. \/ authLocal[r].session = 0 /\ authPc'[r] \notin {"rotate", "checkUser", "endSession"}
          \/ authLocal[r].session \in DOMAIN sessions /\ authPc'[r] \in {"rotate", "done"}
      BY <3>2 DEF HandInv
    <3> QED BY <2>2, <3>1, <3>3, RowUpdated
  <2>6. CASE \/ StoreFailure(r) \/ EndReusedFamily(r) \/ EndSession(r) \/ LogoutEverywhere(r)
             \/ RevokeSession(r) \/ FailAuth(r)
    <3>1. authPc'[r] = "done"
      BY <2>6 DEF StoreFailure, EndReusedFamily, EndSession, LogoutEverywhere, RevokeSession,
                  FailAuth, AuthGo, AuthTypeOK
    <3> QED BY <2>2, <3>1, RowUpdated
  <2> QED BY <1>2, <2>3, <2>4, <2>5, <2>6 DEF AuthStep
<1> QED BY <1>1, <1>2

LEMMA AuthInvStep ==
    ASSUME AuthInv, [AuthNext]_authVars
    PROVE  AuthInv'
<1> USE DEF AuthInv
<1>1. CASE LockoutEnds
  <2>1. UNCHANGED <<sessions, authPc, authLocal>> /\ user' = [user EXCEPT !.lockout = "over"]
        /\ user.lockout = "running"
    BY <1>1 DEF LockoutEnds
  <2>2. user' \in UserRow /\ Consistent(user')
    BY <2>1 DEF AuthTypeOK, UserRow, Lockout, UserInv, Consistent
  <2> QED BY <2>1, <2>2 DEF AuthTypeOK, UserInv, HandInv, OriginInv, IsRotated
<1>2. ASSUME NEW r \in AuthRequests, AuthStep(r)
      PROVE  AuthInv'
  BY <1>2, AuthRequestStep
<1>3. CASE UNCHANGED authVars
  BY <1>3 DEF authVars, AuthTypeOK, UserInv, HandInv, OriginInv, IsRotated
<1> QED BY <1>1, <1>2, <1>3 DEF AuthNext

-------------------------------------------------------------------------------
(* Theorems *)

\* The invariant above holds in every reachable state, for any requests and any limit.
THEOREM AuthInvariance == AuthSpec => []AuthInv
BY AuthInvInit, AuthInvStep, PTL DEF AuthSpec

\* The types of the user row, the session rows and what the requests remember.
THEOREM AuthTypeCorrectness == AuthSpec => []AuthTypeOK
<1>1. AuthInv => AuthTypeOK
  BY DEF AuthInv
<1> QED BY <1>1, AuthInvariance, PTL

\* A user is locked exactly while there is an end of the lockout, and only after as many
\* failures as the limit says, although failures are counted from rows that are old.
THEOREM LockoutIsConsistent == AuthSpec => []LockoutConsistent
<1>1. AuthInv => LockoutConsistent
  BY DEF AuthInv, UserInv, Consistent, LockoutConsistent
<1> QED BY <1>1, AuthInvariance, PTL

\* A session issued by a refresh comes after the one it replaces, which is revoked and
\* marked as replaced and stays so.
THEOREM SuccessorsReplace == AuthSpec => []SuccessorReplaces
<1>1. AuthInv => SuccessorReplaces
  BY DEF AuthInv, OriginInv, IsRotated, SuccessorReplaces
<1> QED BY <1>1, AuthInvariance, PTL

-------------------------------------------------------------------------------
(* The onboarding session: only an overlapping request loses a step *)

\* A session a request read is no newer than the stored one, and is the stored one if it
\* has its version: every update counts the version up.
ReadInv == \A r \in OnboardingRequests :
    LET read == onboardingLocal[r].session
    IN  /\ read.version <= session.version
        /\ read.version = session.version => read.completed = session.completed

\* Before there is a row there is nothing to lose.
NothingBefore == session.version = 0 => session.completed = {}

\* The lists can be counted, although the keys a request may name need not be.
CountedInv ==
    /\ IsFiniteSet(session.completed)
    /\ \A r \in OnboardingRequests : IsFiniteSet(onboardingLocal[r].session.completed)

OnboardingInv == OnboardingTypeOK /\ ReadInv /\ NothingBefore /\ CountedInv

-------------------------------------------------------------------------------
\* A blueprint has a first step.
LEMMA FirstStep == StepOrdering[1] \in StepKeys /\ TotalSteps \in Nat
<1>1. Len(StepOrdering) \in Nat /\ Len(StepOrdering) > 0
  BY OnboardingAssumption
<1>2. StepOrdering \in [1..Len(StepOrdering) -> StepKeys]
  BY OnboardingAssumption
<1> QED BY <1>1, <1>2 DEF TotalSteps

\* An update that leaves the columns it is not given.
LEMMA UpdateCountsUp ==
    ASSUME session \in SessionState, NEW row \in SessionState, NEW r, UpdateSession(r, row)
    PROVE  /\ session' \in SessionState /\ session'.version = session.version + 1
           /\ session'.completed = row.completed
<1>1. /\ session.version + 1 \in Nat
      /\ session' = [row EXCEPT !.version = session.version + 1]
  BY DEF UpdateSession, SessionState
<1> QED BY <1>1 DEF SessionState

\* What a request does to the session: nothing, the first row, or one version more.
LEMMA SessionStep ==
    ASSUME OnboardingInv, NEW r \in OnboardingRequests, OnboardingStep(r)
    PROVE  /\ session' \in SessionState
           /\ IsFiniteSet(session'.completed)
           /\ \/ session' = session
              \/ session.version = 0 /\ session'.version = 1
              \/ session'.version = session.version + 1 /\ session'.completed = session.completed
              \/ /\ StoreStep(r) /\ session'.version = session.version + 1
                 /\ onboardingLocal[r].session.completed \subseteq session'.completed
<1> DEFINE local == onboardingLocal[r]
<1>1. /\ session \in SessionState /\ local \in OnboardingLocal
      /\ local.session \in SessionState /\ local.step \in StepKeys \cup {NoStepKey}
      /\ session.version \in Nat /\ session.completed \subseteq StepKeys
      /\ session.step \in StepKeys /\ local.session.step \in StepKeys
      /\ local.session.completed \subseteq StepKeys
      /\ IsFiniteSet(session.completed) /\ IsFiniteSet(local.session.completed)
  BY DEF OnboardingInv, OnboardingTypeOK, OnboardingLocal, SessionState, CountedInv
<1>2. Progress(local.session) \in Nat /\ TotalSteps \in Nat
  BY <1>1, FirstStep, FS_CardinalityType DEF Progress
<1>3. CASE CreateOnboarding(r)
  <2>1. /\ CreatedSession \in SessionState /\ CreatedSession.version = 1
        /\ CreatedSession.completed = {}
    <3>1. NoSession \in SessionState /\ NoSession.completed = {}
      BY FirstStep DEF NoSession, SessionState, OnboardingSessionStatus
    <3> QED BY <3>1 DEF CreatedSession, SessionState
  <2>2. \/ session' = session
        \/ session' = CreatedSession /\ session.version = 0
    <3>1. session' = IF session.version > 0 THEN session ELSE CreatedSession
      BY <1>3 DEF CreateOnboarding, HasSession
    <3>2. session.version \in Nat
      BY <1>1
    <3> QED BY <3>1, <3>2
  <2> QED BY <1>1, <2>1, <2>2, FS_EmptySet
<1>4. CASE Resume(r)
  <2> DEFINE row == [session EXCEPT !.status = "IN_PROGRESS"]
  <2>1. row \in SessionState /\ row.completed = session.completed
    BY <1>1 DEF SessionState, OnboardingSessionStatus
  <2>2. UpdateSession(r, row)
    BY <1>4 DEF Resume
  <2> HIDE DEF row
  <2> QED BY <1>1, <2>1, <2>2, UpdateCountsUp
<1>5. CASE StoreAnswer(r)
  <2> DEFINE row == [session EXCEPT !.status = "IN_PROGRESS", !.progress = Progress(local.session)]
  <2>1. row \in SessionState /\ row.completed = session.completed
    BY <1>1, <1>2 DEF SessionState, OnboardingSessionStatus
  <2>2. UpdateSession(r, row)
    BY <1>5 DEF StoreAnswer
  <2> HIDE DEF row
  <2> QED BY <1>1, <2>1, <2>2, UpdateCountsUp
<1>6. CASE StoreStep(r)
  <2> DEFINE after == CompletedAfter(local.session, local.action)
             row == [session EXCEPT
                        !.step = IF local.step = NoStepKey THEN @ ELSE local.step,
                        !.completed = after, !.status = StatusAfter(local.action)]
  <2>1. /\ after \in SUBSET StepKeys /\ local.session.completed \subseteq after
        /\ IsFiniteSet(after)
    BY <1>1, FS_AddElement DEF CompletedAfter
  <2>2. StatusAfter(local.action) \in OnboardingSessionStatus
    BY DEF StatusAfter, OnboardingSessionStatus
  <2>3. UpdateSession(r, row)
    BY <1>6 DEF StoreStep
  <2>4. row \in SessionState /\ row.completed = after
    <3> HIDE DEF after
    <3> QED BY <1>1, <2>1, <2>2 DEF SessionState
  <2> HIDE DEF row, after
  <2>5. /\ session' \in SessionState /\ session'.version = session.version + 1
        /\ session'.completed = after
    BY <1>1, <2>3, <2>4, UpdateCountsUp
  <2> QED BY <1>6, <2>1, <2>5
<1>7. CASE StoreCompletion(r)
  <2>1. CompletedSession \in SessionState /\ CompletedSession.completed = session.completed
    BY <1>1, <1>2 DEF CompletedSession, SessionState, OnboardingSessionStatus
  <2>2. UpdateSession(r, CompletedSession)
    BY <1>7 DEF StoreCompletion
  <2> QED BY <1>1, <2>1, <2>2, UpdateCountsUp
<1>8. CASE \/ OpenSession(r) \/ StartOrResume(r) \/ SubmitAnswer(r) \/ UpdateStep(r)
           \/ CompleteOnboarding(r) \/ FailOnboarding(r)
  BY <1>1, <1>8 DEF OpenSession, StartOrResume, SubmitAnswer, UpdateStep, CompleteOnboarding,
                    FailOnboarding, ReadSession
<1> QED BY <1>3, <1>4, <1>5, <1>6, <1>7, <1>8 DEF OnboardingStep

\* What it remembers: what it did before, or the session there is.
LEMMA ReadStep ==
    ASSUME OnboardingInv, NEW r \in OnboardingRequests, OnboardingStep(r)
    PROVE  /\ onboardingPc' \in [OnboardingRequests -> OnboardingPC]
           /\ onboardingLocal' \in [OnboardingRequests -> OnboardingLocal]
           /\ \A m \in OnboardingRequests :
                \/ onboardingLocal'[m].session = onboardingLocal[m].session
                \/ onboardingLocal'[m].session = session /\ session' = session
<1> USE DEF OnboardingInv, OnboardingTypeOK
<1>1. onboardingPc' \in [OnboardingRequests -> OnboardingPC]
  BY DEF OnboardingStep, OnboardingPC, OnboardingGo, OpenSession, CreateOnboarding, StartOrResume,
         Resume, SubmitAnswer, StoreAnswer, UpdateStep, StoreStep, CompleteOnboarding,
         StoreCompletion, FailOnboarding, ReadSession
<1>2. \/ UNCHANGED onboardingLocal
      \/ onboardingLocal' = [onboardingLocal EXCEPT ![r].session = session] /\ UNCHANGED session
      \/ \E stepName \in StepKeys \cup {NoStepKey}, action \in StepActions :
           /\ onboardingLocal' = [onboardingLocal EXCEPT ![r] =
                                   [session |-> session, step |-> stepName, action |-> action]]
           /\ UNCHANGED session
  BY DEF OnboardingStep, OpenSession, CreateOnboarding, StartOrResume,
         Resume, SubmitAnswer, StoreAnswer, UpdateStep, StoreStep, CompleteOnboarding,
         StoreCompletion, FailOnboarding, ReadSession, UpdateSession
<1>3. \A m \in OnboardingRequests : onboardingLocal[m] \in OnboardingLocal
  OBVIOUS
<1> QED BY <1>1, <1>2, <1>3 DEF OnboardingLocal

LEMMA OnboardingInvInit == OnboardingInit => OnboardingInv
<1> SUFFICES ASSUME OnboardingInit PROVE OnboardingInv
  OBVIOUS
<1>1. /\ NoSession \in SessionState /\ NoSession.version = 0
      /\ NoSession.completed = {} /\ IsFiniteSet(NoSession.completed)
  BY FirstStep, FS_EmptySet DEF NoSession, SessionState, OnboardingSessionStatus
<1>2. OnboardingTypeOK
  BY <1>1 DEF OnboardingInit, OnboardingTypeOK, OnboardingPC, OnboardingLocal, StepActions
<1>3. ReadInv /\ NothingBefore /\ CountedInv
  BY <1>1 DEF OnboardingInit, ReadInv, NothingBefore, CountedInv
<1> QED BY <1>2, <1>3 DEF OnboardingInv

LEMMA OnboardingInvStep == OnboardingInv /\ [OnboardingNext]_onboardingVars => OnboardingInv'
<1> SUFFICES ASSUME OnboardingInv, [OnboardingNext]_onboardingVars PROVE OnboardingInv'
  OBVIOUS
<1>1. ASSUME NEW r \in OnboardingRequests, OnboardingStep(r) PROVE OnboardingInv'
  <2>1. OnboardingTypeOK'
    BY <1>1, SessionStep, ReadStep DEF OnboardingTypeOK
  <2>2. /\ session.version \in Nat
        /\ session' = session \/ session'.version = session.version + 1
    BY <1>1, SessionStep DEF OnboardingInv, OnboardingTypeOK, SessionState
  <2>3. NothingBefore'
    BY <2>2 DEF OnboardingInv, NothingBefore
  <2>4. ReadInv'
    <3> SUFFICES ASSUME NEW m \in OnboardingRequests
                 PROVE  ReadInv!(m)'
      BY DEF ReadInv
    <3>1. /\ onboardingLocal[m].session.version \in Nat
          /\ onboardingLocal[m].session.version <= session.version
          /\ onboardingLocal[m].session.version = session.version
               => onboardingLocal[m].session.completed = session.completed
      BY DEF OnboardingInv, OnboardingTypeOK, OnboardingLocal, SessionState, ReadInv
    <3>2. \/ onboardingLocal'[m].session = onboardingLocal[m].session
          \/ onboardingLocal'[m].session = session /\ session' = session
      BY <1>1, ReadStep
    <3> QED BY <2>2, <3>1, <3>2
  <2>5. CountedInv'
    BY <1>1, SessionStep, ReadStep DEF OnboardingInv, CountedInv
  <2> QED BY <2>1, <2>3, <2>4, <2>5 DEF OnboardingInv
<1>2. CASE UNCHANGED onboardingVars
  BY <1>2 DEF onboardingVars, OnboardingInv, OnboardingTypeOK, ReadInv, NothingBefore,
              CountedInv
<1> QED BY <1>1, <1>2 DEF OnboardingNext

\* The inductive invariant holds however many requests there are, for any blueprint and
\* whatever keys and actions the requests name.
THEOREM OnboardingInvariance == OnboardingSpec => []OnboardingInv
BY OnboardingInvInit, OnboardingInvStep, PTL DEF OnboardingSpec

\* The types of the session, whose current and completed steps are keys a request named,
\* of the blueprint or not, and of what the requests remember.
THEOREM OnboardingTypeCorrectness == OnboardingSpec => []OnboardingTypeOK
<1>1. OnboardingInv => OnboardingTypeOK
  BY DEF OnboardingInv
<1> QED BY <1>1, OnboardingInvariance, PTL

\* A completed step disappears from the session only when a request navigates with a list
\* that another one has added to since it was read.
THEOREM StepsAreLostOnlyByOverlap == OnboardingSpec => StepsLostOnlyByOverlap
<1> DEFINE Lost == ~(session.completed \subseteq session'.completed)
                     => \E r \in OnboardingRequests :
                          /\ onboardingPc[r] = "storeStep" /\ onboardingPc'[r] = "done"
                          /\ onboardingLocal[r].session.version < session.version
<1>1. OnboardingInv /\ [OnboardingNext]_onboardingVars => [Lost]_onboardingVars
  <2> SUFFICES ASSUME OnboardingInv, OnboardingNext,
                      ~(session.completed \subseteq session'.completed)
               PROVE  \E r \in OnboardingRequests :
                          /\ onboardingPc[r] = "storeStep" /\ onboardingPc'[r] = "done"
                          /\ onboardingLocal[r].session.version < session.version
    OBVIOUS
  <2>1. PICK r \in OnboardingRequests : OnboardingStep(r)
    BY DEF OnboardingNext
  <2>2. /\ StoreStep(r)
        /\ onboardingLocal[r].session.completed \subseteq session'.completed
    BY <2>1, SessionStep DEF OnboardingInv, NothingBefore
  <2>3. onboardingPc[r] = "storeStep" /\ onboardingPc'[r] = "done"
    BY <2>2 DEF StoreStep, OnboardingGo, OnboardingInv, OnboardingTypeOK
  <2>4. /\ onboardingLocal[r].session.version \in Nat /\ session.version \in Nat
        /\ onboardingLocal[r].session.version <= session.version
        /\ onboardingLocal[r].session.version # session.version
    BY <2>2 DEF OnboardingInv, ReadInv, OnboardingTypeOK, OnboardingLocal, SessionState
  <2> QED BY <2>3, <2>4
<1> QED BY <1>1, OnboardingInvariance, PTL DEF OnboardingSpec, StepsLostOnlyByOverlap

-------------------------------------------------------------------------------
(* The choice of the next question *)

(* The cycle check *)

\* Active questions and dependencies are among the questions there are.
GraphInv == active \subseteq Questions /\ dependsOn \subseteq Questions \X Questions

\* The numbers of questions have a lowest.
LEMMA LowestOfThem ==
    ASSUME NEW qs, qs \subseteq Questions, qs # {}
    PROVE  Lowest(qs) \in qs
<1>1. IsWellFoundedOn(OpToRel(<, Nat), Nat)
  BY NatLessThanWellFounded
<1>2. qs \subseteq Nat
  BY QuestionAssumption
<1>3. PICK n \in qs : \A m \in qs : <<m, n>> \notin OpToRel(<, Nat)
  BY <1>1, <1>2, WFMin, Zenon
<1>4. ASSUME NEW m \in qs PROVE n <= m
  <2>1. m \in Nat /\ n \in Nat
    BY <1>2
  <2>2. ~(m < n)
    BY <1>3, <2>1 DEF OpToRel
  <2> QED BY <2>1, <2>2
<1> QED BY <1>4 DEF Lowest

\* What is next to a node is reached from it, ...
LEMMA ReachesNext ==
    ASSUME NEW edges, NEW p, NEW q, <<p, q>> \in edges
    PROVE  Reaches(edges, p, q)
BY DEF Reaches

\* ... and so is what is next to something reached, ...
LEMMA ReachesOn ==
    ASSUME NEW edges, NEW p, NEW q, NEW r, Reaches(edges, p, q), <<q, r>> \in edges
    PROVE  Reaches(edges, p, r)
BY DEF Reaches

\* ... and what is reached from something next to it.
LEMMA ReachesAfter ==
    ASSUME NEW edges, NEW p, NEW q, NEW r, <<p, q>> \in edges, Reaches(edges, q, r)
    PROVE  Reaches(edges, p, r)
BY DEF Reaches

(* The invariant of the search *)

\* The nodes dfs has returned from.
Done(s) == {n \in s.visited : ~OnStack(n, s)}

SearchType(s) ==
    s \in [path : Seq(Questions), visited : SUBSET Questions, left : SUBSET Edges, cyclic : BOOLEAN]

\* The path never returns to a node, and each reaches those after it.
PathInv(s) ==
    /\ \A i \in 1..Len(s.path) : s.path[i] \in s.visited
    /\ \A i, j \in 1..Len(s.path) : i < j =>
            s.path[i] # s.path[j] /\ Reaches(Edges, s.path[i], s.path[j])

\* The edges looked at are those of nodes visited; from a node that is done they lead to such,
\* and from one on the path to such or to the next on the path.
LeftInv(s) ==
    \A e \in Edges :
        /\ e[1] \notin s.visited => e \in s.left
        /\ e[1] \in Done(s) => e[2] \in Done(s)
        /\ \A i \in 1..Len(s.path) : e[1] = s.path[i] /\ e \notin s.left =>
                e[2] \in Done(s) \/ (i < Len(s.path) /\ e[2] = s.path[i + 1])

\* No node that is done is on a cycle.
DoneInv(s) == \A q \in Done(s) : ~Reaches(Edges, q, q)

\* What was found is a cycle.
SearchInv(s) ==
    /\ SearchType(s)
    /\ IF s.cyclic THEN \E q \in Questions : Reaches(Edges, q, q)
                   ELSE PathInv(s) /\ LeftInv(s) /\ DoneInv(s)

\* The search starts with nothing visited and every edge left.
LEMMA SearchStarts == GraphInv => SearchInv(SearchStart)
<1>1. SearchStart.path = <<>> /\ Len(SearchStart.path) = 0
  BY DEF SearchStart
<1>2. SearchType(SearchStart)
  BY DEF SearchStart, SearchType
<1> QED BY <1>1, <1>2 DEF SearchStart, SearchInv, PathInv, LeftInv, DoneInv, Done

\* The search after it has looked at these edges and entered n.
Entered(s, n, looked) == Enter(n, [s EXCEPT !.left = @ \ looked])

LEMMA EnterIs ==
    ASSUME NEW s, SearchType(s), NEW n \in Questions, NEW looked
    PROVE  /\ Entered(s, n, looked).path = Append(s.path, n)
           /\ Entered(s, n, looked).visited = s.visited \cup {n}
           /\ Entered(s, n, looked).left = s.left \ looked
           /\ Entered(s, n, looked).cyclic = s.cyclic
           /\ SearchType(Entered(s, n, looked))
<1>1. PICK r : r = [s EXCEPT !.left = @ \ looked]
  OBVIOUS
<1>2. /\ r.path = s.path /\ r.visited = s.visited /\ r.left = s.left \ looked
      /\ r.cyclic = s.cyclic
      /\ SearchType(r)
  BY <1>1 DEF SearchType
<1>3. /\ Enter(n, r).path = Append(r.path, n) /\ Enter(n, r).visited = r.visited \cup {n}
      /\ Enter(n, r).left = r.left /\ Enter(n, r).cyclic = r.cyclic
  BY <1>2 DEF Enter, SearchType
<1>4. SearchType(Enter(n, r))
  <2>1. r.path \in Seq(Questions) /\ r.visited \cup {n} \in SUBSET Questions
    BY <1>2 DEF SearchType
  <2>2. PICK p, v : p = Append(r.path, n) /\ v = r.visited \cup {n}
    OBVIOUS
  <2>3. p \in Seq(Questions) /\ v \in SUBSET Questions
    BY <2>1, <2>2
  <2>4. Enter(n, r) = [r EXCEPT !.path = p, !.visited = v]
    BY <2>2 DEF Enter
  <2> QED BY <1>2, <2>3, <2>4 DEF SearchType
<1> QED BY <1>1, <1>2, <1>3, <1>4 DEF Entered

\* Entering a node the search has not visited, from the end of the path or with none.
LEMMA EnterKeeps ==
    ASSUME GraphInv, NEW s, SearchInv(s), ~s.cyclic, NEW n \in Questions, n \notin s.visited,
           NEW looked, looked \subseteq Edges,
           IF s.path = <<>> THEN looked = {}
                            ELSE looked = {<<s.path[Len(s.path)], n>>}
    PROVE  SearchInv(Entered(s, n, looked))
<1> DEFINE t == Entered(s, n, looked)
           k == Len(s.path)
<1>1. SearchType(s) /\ PathInv(s) /\ LeftInv(s) /\ DoneInv(s)
  BY DEF SearchInv
<1>2. /\ s.path \in Seq(Questions) /\ k \in Nat /\ s.visited \subseteq Questions
      /\ s.left \subseteq Edges
  BY <1>1 DEF SearchType
<1>3. /\ t.path = Append(s.path, n) /\ t.visited = s.visited \cup {n}
      /\ t.left = s.left \ looked /\ t.cyclic = s.cyclic
      /\ SearchType(t)
  BY <1>1, EnterIs
<1> HIDE DEF t
<1>4. /\ Len(t.path) = k + 1 /\ t.path[k + 1] = n
      /\ \A i \in 1..k : t.path[i] = s.path[i] /\ t.path[i] # n
  <2>1. \A i \in 1..k : s.path[i] \in s.visited
    BY <1>1 DEF PathInv
  <2> QED BY <1>2, <1>3, <2>1
<1>5. Done(t) = Done(s)
  <2>1. ASSUME NEW x PROVE x # n => (OnStack(x, t) <=> OnStack(x, s))
    BY <1>2, <1>3, <1>4 DEF OnStack
  <2>2. OnStack(n, t)
    BY <1>2, <1>3, <1>4 DEF OnStack
  <2> QED BY <1>3, <2>1, <2>2 DEF Done
<1>6. k # 0 => <<s.path[k], n>> \in Edges
  BY <1>2
<1>7. PathInv(t)
  <2>1. \A i \in 1..Len(t.path) : t.path[i] \in t.visited
    BY <1>1, <1>2, <1>3, <1>4 DEF PathInv
  <2>2. ASSUME NEW i \in 1..Len(t.path), NEW j \in 1..Len(t.path), i < j
        PROVE  t.path[i] # t.path[j] /\ Reaches(Edges, t.path[i], t.path[j])
    <3>1. CASE j <= k
      BY <1>1, <1>2, <1>4, <2>2, <3>1 DEF PathInv
    <3>2. CASE j = k + 1 /\ i < k
      <4>1. /\ i \in 1..k /\ k \in 1..k
            /\ t.path[i] = s.path[i] /\ t.path[i] # n /\ t.path[j] = n
        BY <1>2, <1>4, <2>2, <3>2
      <4>2. Reaches(Edges, s.path[i], s.path[k])
        BY <1>1, <3>2, <4>1 DEF PathInv
      <4> QED BY <1>2, <1>6, <3>2, <4>1, <4>2, ReachesOn
    <3>3. CASE j = k + 1 /\ i = k
      <4>1. /\ i \in 1..k /\ k # 0
            /\ t.path[i] = s.path[k] /\ t.path[i] # n /\ t.path[j] = n
        BY <1>2, <1>4, <2>2, <3>3
      <4> QED BY <1>6, <4>1, ReachesNext
    <3> QED BY <1>2, <1>4, <2>2, <3>1, <3>2, <3>3
  <2> QED BY <2>1, <2>2 DEF PathInv
<1>8. LeftInv(t)
  <2> SUFFICES ASSUME NEW e \in Edges
               PROVE  /\ e[1] \notin t.visited => e \in t.left
                      /\ e[1] \in Done(t) => e[2] \in Done(t)
                      /\ \A i \in 1..Len(t.path) : e[1] = t.path[i] /\ e \notin t.left =>
                            e[2] \in Done(t) \/ (i < Len(t.path) /\ e[2] = t.path[i + 1])
    BY DEF LeftInv
  <2>0. e \in looked => k # 0 /\ e[1] = s.path[k] /\ e[2] = n
    BY <1>2
  <2>1. e[1] \notin t.visited => e \in t.left
    <3>1. ASSUME e \in looked PROVE e[1] \in s.visited
      <4>1. k \in 1..k /\ e[1] = s.path[k]
        BY <1>2, <2>0, <3>1
      <4> QED BY <1>1, <4>1 DEF PathInv
    <3> QED BY <1>1, <1>3, <3>1 DEF LeftInv
  <2>2. e[1] \in Done(t) => e[2] \in Done(t)
    BY <1>1, <1>5 DEF LeftInv
  <2>3. ASSUME NEW i \in 1..Len(t.path), e[1] = t.path[i], e \notin t.left
        PROVE  e[2] \in Done(t) \/ (i < Len(t.path) /\ e[2] = t.path[i + 1])
    <3>1. CASE i = k + 1
      <4>1. e[1] = n
        BY <1>4, <2>3, <3>1
      <4>2. e \in s.left
        BY <1>1, <4>1 DEF LeftInv
      <4>3. e \in looked
        BY <1>3, <2>3, <4>2
      <4>4. k \in 1..k /\ e[1] = s.path[k]
        BY <1>2, <2>0, <4>3
      <4>5. s.path[k] \in s.visited
        BY <1>1, <4>4 DEF PathInv
      <4> QED BY <4>1, <4>4, <4>5
    <3>2. CASE i \in 1..k /\ e \in looked
      <4>1. e[1] = s.path[k] /\ e[2] = n /\ e[1] = s.path[i] /\ k \in 1..k
        BY <1>2, <1>4, <2>0, <2>3, <3>2
      <4>2. i = k
        <5>1. ASSUME i < k PROVE FALSE
          BY <1>1, <3>2, <4>1, <5>1 DEF PathInv
        <5> QED BY <1>2, <3>2, <5>1
      <4>3. t.path[i + 1] = n /\ i < Len(t.path)
        BY <1>2, <1>4, <4>2
      <4> QED BY <4>1, <4>3
    <3>3. CASE i \in 1..k /\ e \notin looked
      <4>1. e \notin s.left /\ e[1] = s.path[i]
        BY <1>3, <1>4, <2>3, <3>3
      <4>2. e[2] \in Done(s) \/ (i < k /\ e[2] = s.path[i + 1])
        BY <1>1, <3>3, <4>1 DEF LeftInv
      <4>3. ASSUME i < k PROVE t.path[i + 1] = s.path[i + 1] /\ i < Len(t.path)
        <5>1. i + 1 \in 1..k
          BY <1>2, <3>3, <4>3
        <5> QED BY <1>2, <1>4, <4>3, <5>1
      <4>4. CASE e[2] \in Done(s)
        BY <1>5, <4>4
      <4>5. CASE i < k /\ e[2] = s.path[i + 1]
        BY <4>3, <4>5
      <4> QED BY <4>2, <4>4, <4>5
    <3> QED BY <1>2, <1>4, <3>1, <3>2, <3>3
  <2> QED BY <2>1, <2>2, <2>3
<1>9. DoneInv(t)
  BY <1>1, <1>5 DEF DoneInv
<1> QED BY <1>3, <1>7, <1>8, <1>9 DEF SearchInv, t

\* Leaving the node at the end of the path, all of its edges looked at.
LEMMA LeaveIs ==
    ASSUME NEW s, SearchType(s), s.path # <<>>
    PROVE  /\ Leave(s).visited = s.visited /\ Leave(s).left = s.left
           /\ Leave(s).cyclic = s.cyclic
           /\ Len(s.path) \in Nat \ {0} /\ Len(Leave(s).path) = Len(s.path) - 1
           /\ \A i \in 1..(Len(s.path) - 1) : Leave(s).path[i] = s.path[i]
           /\ SearchType(Leave(s))
<1>1. s.path \in Seq(Questions) /\ Len(s.path) \in Nat \ {0}
  BY DEF SearchType
<1>2. PICK p : p = SubSeq(s.path, 1, Len(s.path) - 1)
  OBVIOUS
<1>3. /\ p \in Seq(Questions) /\ Len(p) = Len(s.path) - 1
      /\ \A i \in 1..(Len(s.path) - 1) : p[i] = s.path[i]
  BY <1>1, <1>2
<1>4. Leave(s) = [s EXCEPT !.path = p]
  BY <1>2 DEF Leave
<1> QED BY <1>1, <1>3, <1>4 DEF SearchType

\* A node is done when all its edges lead to nodes that are: those are closed, and without it.
LEMMA LeaveKeeps ==
    ASSUME GraphInv, NEW s, SearchInv(s), ~s.cyclic, s.path # <<>>,
           \A n \in Questions : <<s.path[Len(s.path)], n>> \notin s.left
    PROVE  SearchInv(Leave(s))
<1> DEFINE k == Len(s.path)
           t == Leave(s)
           top == s.path[k]
<1>1. SearchType(s) /\ PathInv(s) /\ LeftInv(s) /\ DoneInv(s)
  BY DEF SearchInv
<1>2. /\ s.path \in Seq(Questions) /\ k \in Nat \ {0} /\ s.visited \subseteq Questions
      /\ s.left \subseteq Edges /\ top \in Questions /\ top \in s.visited
  <2>1. s.path \in Seq(Questions) /\ k \in Nat \ {0} /\ s.visited \subseteq Questions
    BY <1>1 DEF SearchType
  <2>2. k \in 1..k
    BY <2>1
  <2> QED BY <1>1, <2>1, <2>2 DEF SearchType, PathInv
<1>3. /\ t.visited = s.visited /\ t.left = s.left /\ t.cyclic = FALSE
      /\ Len(t.path) = k - 1
      /\ \A i \in 1..(k - 1) : t.path[i] = s.path[i]
      /\ SearchType(t)
  BY <1>1, LeaveIs
<1> HIDE DEF t
<1>4. \A i \in 1..(k - 1) : s.path[i] # top
  <2>1. ASSUME NEW i \in 1..(k - 1) PROVE i \in 1..k /\ k \in 1..k /\ i < k
    BY <1>2
  <2> QED BY <1>1, <2>1 DEF PathInv
<1>5. Done(t) = Done(s) \cup {top} /\ top \notin Done(s)
  <2>1. t.path \in Seq(Questions)
    BY <1>3 DEF SearchType
  <2>2. \A x : OnStack(x, s) <=> \E i \in 1..k : s.path[i] = x
    BY <1>2 DEF OnStack
  <2>3. \A x : OnStack(x, t) <=> \E i \in 1..(k - 1) : s.path[i] = x
    BY <1>3, <2>1 DEF OnStack
  <2>4. \A x : OnStack(x, s) <=> OnStack(x, t) \/ x = top
    BY <1>2, <2>2, <2>3
  <2>5. ~OnStack(top, t)
    BY <1>4, <2>3
  <2> QED BY <1>2, <1>3, <2>4, <2>5 DEF Done
<1>6. \A e \in Edges : e[1] = top => e[2] \in Done(s)
  <2> SUFFICES ASSUME NEW e \in Edges, e[1] = top PROVE e[2] \in Done(s)
    OBVIOUS
  <2>1. e = <<top, e[2]>> /\ e[2] \in Questions
    BY DEF Edges, GraphInv
  <2>2. e \notin s.left
    BY <2>1
  <2>3. k \in 1..k /\ ~(k < k)
    BY <1>2
  <2> QED BY <1>1, <2>2, <2>3 DEF LeftInv
<1>7. PathInv(t)
  <2>1. ASSUME NEW i \in 1..(k - 1) PROVE i \in 1..k
    BY <1>2
  <2> QED BY <1>1, <1>3, <2>1 DEF PathInv
<1>8. LeftInv(t)
  <2> SUFFICES ASSUME NEW e \in Edges
               PROVE  /\ e[1] \notin t.visited => e \in t.left
                      /\ e[1] \in Done(t) => e[2] \in Done(t)
                      /\ \A i \in 1..Len(t.path) : e[1] = t.path[i] /\ e \notin t.left =>
                            e[2] \in Done(t) \/ (i < Len(t.path) /\ e[2] = t.path[i + 1])
    BY DEF LeftInv
  <2>1. e[1] \notin t.visited => e \in t.left
    BY <1>1, <1>3 DEF LeftInv
  <2>2. e[1] \in Done(t) => e[2] \in Done(t)
    BY <1>1, <1>5, <1>6 DEF LeftInv
  <2>3. ASSUME NEW i \in 1..Len(t.path), e[1] = t.path[i], e \notin t.left
        PROVE  e[2] \in Done(t) \/ (i < Len(t.path) /\ e[2] = t.path[i + 1])
    <3>1. i \in 1..(k - 1) /\ i \in 1..k /\ e[1] = s.path[i] /\ e \notin s.left
      BY <1>2, <1>3, <2>3
    <3>2. e[2] \in Done(s) \/ (i < k /\ e[2] = s.path[i + 1])
      BY <1>1, <3>1 DEF LeftInv
    <3>3. CASE e[2] \in Done(s)
      BY <1>5, <3>3
    <3>4. CASE e[2] = s.path[i + 1] /\ i = k - 1
      <4>1. i + 1 = k
        BY <1>2, <3>4
      <4> QED BY <1>5, <3>4, <4>1
    <3>5. CASE e[2] = s.path[i + 1] /\ i # k - 1
      <4>1. i + 1 \in 1..(k - 1) /\ i < k - 1
        BY <1>2, <3>1, <3>5
      <4> QED BY <1>3, <3>5, <4>1
    <3> QED BY <3>2, <3>3, <3>4, <3>5
  <2> QED BY <2>1, <2>2, <2>3
<1>9. DoneInv(t)
  <2>1. Done(s) \in SUBSET Questions
    BY <1>2 DEF Done
  <2>2. \A e \in Edges : e[1] = top \/ e[1] \in Done(s) => e[2] \in Done(s)
    BY <1>1, <1>6 DEF LeftInv
  <2>3. ~Reaches(Edges, top, top)
    BY <1>5, <2>1, <2>2 DEF Reaches
  <2> QED BY <1>1, <1>5, <2>3 DEF DoneInv
<1> QED BY <1>3, <1>7, <1>8, <1>9 DEF SearchInv, t

\* Looking at a neighbour visited before.
LEMMA LookKeeps ==
    ASSUME GraphInv, NEW s, SearchInv(s), ~s.cyclic, s.path # <<>>,
           NEW n \in s.visited, <<s.path[Len(s.path)], n>> \in s.left
    PROVE  SearchInv([s EXCEPT !.left = @ \ {<<s.path[Len(s.path)], n>>},
                               !.cyclic = OnStack(n, s)])
<1> DEFINE k == Len(s.path)
           top == s.path[k]
           t == [s EXCEPT !.left = @ \ {<<top, n>>}, !.cyclic = OnStack(n, s)]
<1>1. SearchType(s) /\ PathInv(s) /\ LeftInv(s) /\ DoneInv(s)
  BY DEF SearchInv
<1>2. /\ s.path \in Seq(Questions) /\ k \in Nat \ {0} /\ s.visited \subseteq Questions
      /\ s.left \subseteq Edges /\ k \in 1..k /\ top \in s.visited /\ <<top, n>> \in Edges
  <2>1. s.path \in Seq(Questions) /\ k \in Nat \ {0} /\ s.visited \subseteq Questions
        /\ s.left \subseteq Edges
    BY <1>1 DEF SearchType
  <2>2. k \in 1..k
    BY <2>1
  <2> QED BY <1>1, <2>1, <2>2 DEF PathInv
<1>3. /\ t.path = s.path /\ t.visited = s.visited /\ t.left = s.left \ {<<top, n>>}
      /\ t.cyclic = OnStack(n, s)
      /\ SearchType(t)
  <2>1. PICK c \in BOOLEAN : c = OnStack(n, s)
    BY DEF OnStack
  <2>2. t = [s EXCEPT !.left = @ \ {<<top, n>>}, !.cyclic = c]
    BY <2>1
  <2> HIDE DEF t
  <2> QED BY <1>1, <2>1, <2>2 DEF SearchType
<1> HIDE DEF t
<1>4. CASE OnStack(n, s)
  <2>1. PICK i \in 1..k : s.path[i] = n
    BY <1>2, <1>4 DEF OnStack
  <2>2. Reaches(Edges, n, n)
    <3>1. CASE i = k
      BY <1>2, <2>1, <3>1, ReachesNext
    <3>2. CASE i # k
      <4>1. i < k
        BY <1>2, <3>2
      <4>2. Reaches(Edges, n, top)
        BY <1>1, <1>2, <2>1, <4>1 DEF PathInv
      <4> QED BY <1>2, <4>2, ReachesOn
    <3> QED BY <3>1, <3>2
  <2> QED BY <1>2, <1>3, <1>4, <2>2 DEF SearchInv, t
<1>5. CASE ~OnStack(n, s)
  <2>1. Done(t) = Done(s) /\ n \in Done(s)
    BY <1>3, <1>5 DEF Done, OnStack
  <2>2. PathInv(t) /\ DoneInv(t)
    BY <1>1, <1>3, <2>1 DEF PathInv, DoneInv
  <2>3. LeftInv(t)
    <3> SUFFICES ASSUME NEW e \in Edges
                 PROVE  /\ e[1] \notin t.visited => e \in t.left
                        /\ e[1] \in Done(t) => e[2] \in Done(t)
                        /\ \A i \in 1..Len(t.path) : e[1] = t.path[i] /\ e \notin t.left =>
                              e[2] \in Done(t) \/ (i < Len(t.path) /\ e[2] = t.path[i + 1])
      BY DEF LeftInv
    <3>1. CASE e = <<top, n>>
      BY <1>1, <1>2, <1>3, <2>1, <3>1
    <3>2. CASE e # <<top, n>>
      <4>1. e \in t.left <=> e \in s.left
        BY <1>3, <3>2
      <4> QED BY <1>1, <1>3, <2>1, <4>1 DEF LeftInv
    <3> QED BY <3>1, <3>2
  <2> QED BY <1>3, <1>5, <2>2, <2>3 DEF SearchInv, t
<1> QED BY <1>4, <1>5

\* The neighbours dfs has not looked at are questions.
LEMMA NeighborsOf ==
    ASSUME GraphInv, NEW s, SearchType(s), s.path # <<>>
    PROVE  LET neighbors == {n \in Questions : <<s.path[Len(s.path)], n>> \in s.left}
           IN  neighbors # {} => Lowest(neighbors) \in neighbors
BY LowestOfThem

\* Whatever a turn does, the invariant stays.
LEMMA TurnKeeps == ASSUME GraphInv, NEW s, SearchInv(s) PROVE SearchInv(SearchTurn(s))
<1> DEFINE node == s.path[Len(s.path)]
           neighbors == {n \in Questions : <<node, n>> \in s.left}
<1>1. CASE s.cyclic
  BY <1>1 DEF SearchTurn
<1>2. CASE ~s.cyclic /\ s.path = <<>>
  <2>1. SearchTurn(s) = NextRoot(s)
    BY <1>2 DEF SearchTurn
  <2>2. CASE active \ s.visited = {}
    BY <2>1, <2>2 DEF NextRoot
  <2>3. CASE active \ s.visited # {}
    <3>1. PICK n : n = Lowest(active \ s.visited)
      OBVIOUS
    <3>2. n \in active \ s.visited
      BY <2>3, <3>1, LowestOfThem DEF GraphInv
    <3>3. [s EXCEPT !.left = @ \ {}] = s
      BY <1>2 DEF SearchInv, SearchType
    <3>4. SearchInv(Entered(s, n, {}))
      BY <1>2, <3>2, EnterKeeps DEF GraphInv
    <3> QED BY <2>1, <2>3, <3>1, <3>3, <3>4 DEF NextRoot, Entered
  <2> QED BY <2>2, <2>3
<1>3. CASE ~s.cyclic /\ s.path # <<>> /\ neighbors = {}
  <2>1. SearchTurn(s) = Leave(s)
    BY <1>3 DEF SearchTurn
  <2> QED BY <1>3, <2>1, LeaveKeeps
<1>4. CASE ~s.cyclic /\ s.path # <<>> /\ neighbors # {}
  <2>1. PICK n : n = Lowest(neighbors)
    OBVIOUS
  <2>2. n \in Questions /\ <<node, n>> \in s.left /\ s.left \subseteq Edges
    BY <1>4, <2>1, NeighborsOf DEF SearchInv, SearchType
  <2>3. SearchTurn(s) = LookAt(node, n, s)
    BY <1>4, <2>1 DEF SearchTurn
  <2>4. CASE n \notin s.visited
    <3>1. SearchTurn(s) = Entered(s, n, {<<node, n>>})
      BY <2>3, <2>4 DEF LookAt, Entered
    <3>2. {<<node, n>>} \subseteq Edges
      BY <2>2
    <3>3. SearchInv(Entered(s, n, {<<node, n>>}))
      BY <1>4, <2>2, <2>4, <3>2, EnterKeeps
    <3> QED BY <3>1, <3>3
  <2>5. CASE n \in s.visited
    <3>1. SearchTurn(s) = [s EXCEPT !.left = @ \ {<<node, n>>}, !.cyclic = OnStack(n, s)]
      BY <2>3, <2>5 DEF LookAt
    <3> QED BY <1>4, <2>2, <2>5, <3>1, LookKeeps
  <2> QED BY <2>4, <2>5
<1> QED BY <1>1, <1>2, <1>3, <1>4

\* Induction up to n.
LEMMA CountingUp ==
    ASSUME NEW n \in Nat, NEW P, 0 \in P, \A m \in 0..(n - 1) : m \in P => m + 1 \in P
    PROVE  0..n \subseteq P
<1>1. SUFFICES ASSUME NEW k \in 0..n, k \notin P PROVE FALSE
  OBVIOUS
<1>2. IsWellFoundedOn(OpToRel(<, Nat), Nat)
  BY NatLessThanWellFounded
<1>3. PICK missing : missing = {m \in Nat : m <= n /\ m \notin P}
  OBVIOUS
<1>4. missing \subseteq Nat /\ missing # {}
  BY <1>1, <1>3
<1>5. PICK m \in missing : \A i \in missing : <<i, m>> \notin OpToRel(<, Nat)
  BY <1>2, <1>4, WFMin, Zenon
<1>6. m \in Nat /\ m <= n /\ m \notin P /\ m # 0
  BY <1>3, <1>5
<1>7. m - 1 \in Nat /\ m - 1 \in 0..(n - 1) /\ m - 1 < m /\ m - 1 <= n /\ (m - 1) + 1 = m
  BY <1>6
<1>8. m - 1 \notin P
  BY <1>6, <1>7
<1>9. m - 1 \in missing
  BY <1>3, <1>7, <1>8
<1> QED BY <1>5, <1>6, <1>7, <1>9 DEF OpToRel

\* f is what becomes of x when F is applied n times.
Iteration(f, X, F, x, n) ==
    f \in [0..n -> X] /\ f[0] = x /\ \A m \in 1..n : f[m] = F[f[m - 1]]

\* A function may be applied again and again.
LEMMA Iterates ==
    ASSUME NEW X, NEW F, F \in [X -> X], NEW x, x \in X, NEW n, n \in Nat
    PROVE  \E f : Iteration(f, X, F, x, n)
<1> USE DEF Iteration
<1>1. PICK P : P = {m \in 0..n : \E f \in [0..m -> X] :
                      f[0] = x /\ \A i \in 1..m : f[i] = F[f[i - 1]]}
  OBVIOUS
<1>2. 0 \in P
  <2>1. PICK f : f = [m \in 0..0 |-> x]
    OBVIOUS
  <2>2. f \in [0..0 -> X] /\ f[0] = x /\ 1..0 = {} /\ 0 \in 0..n
    BY <2>1
  <2> QED BY <1>1, <2>2
<1>3. ASSUME NEW m \in 0..(n - 1), m \in P PROVE m + 1 \in P
  <2>1. PICK f \in [0..m -> X] : f[0] = x /\ \A i \in 1..m : f[i] = F[f[i - 1]]
    BY <1>1, <1>3
  <2>2. PICK g : g = [i \in 0..(m + 1) |-> IF i = m + 1 THEN F[f[m]] ELSE f[i]]
    OBVIOUS
  <2>3. m \in Nat /\ m + 1 \in 0..n /\ f[m] \in X
    OBVIOUS
  <2>4. g \in [0..(m + 1) -> X]
    BY <2>2, <2>3
  <2>5. g[0] = x
    BY <2>1, <2>2, <2>3
  <2>6. \A i \in 1..(m + 1) : g[i] = F[g[i - 1]]
    <3> TAKE i \in 1..(m + 1)
    <3>1. CASE i = m + 1
      BY <2>2, <2>3, <3>1
    <3>2. CASE i # m + 1
      <4>1. i \in 1..m /\ i \in 0..(m + 1) /\ i - 1 \in 0..(m + 1) /\ i - 1 # m + 1
        BY <2>3, <3>2
      <4> QED BY <2>1, <2>2, <3>2, <4>1
    <3> QED BY <3>1, <3>2
  <2> QED BY <1>1, <2>3, <2>4, <2>5, <2>6
<1>4. n \in P
  <2>1. 0..n \subseteq P
    BY <1>2, <1>3, CountingUp
  <2> QED BY <2>1
<1> QED BY <1>1, <1>4


(* The search ends *)

\* The turns that are left at most: edges to look at, nodes to enter and to leave.
TurnsLeft(s) ==
    Cardinality(s.left) + 2 * Cardinality(Questions \ s.visited) + Len(s.path)

Over(s) == s.cyclic \/ (s.path = <<>> /\ active \subseteq s.visited)

\* There are finitely many nodes and edges.
LEMMA FiniteGraph ==
    ASSUME GraphInv
    PROVE  /\ IsFiniteSet(Questions) /\ IsFiniteSet(dependsOn) /\ IsFiniteSet(Edges)
           /\ Cardinality(Questions) \in Nat /\ Cardinality(dependsOn) \in Nat
           /\ Cardinality(Edges) \in Nat /\ Cardinality(Edges) <= Cardinality(dependsOn)
<1>1. IsFiniteSet(Questions)
  BY QuestionAssumption
<1>2. IsFiniteSet(Questions \X Questions)
  BY <1>1, FS_Product
<1>3. IsFiniteSet(dependsOn)
  BY <1>2, FS_Subset DEF GraphInv
<1>4. Edges \subseteq dependsOn
  BY DEF Edges
<1>5. IsFiniteSet(Edges) /\ Cardinality(Edges) <= Cardinality(dependsOn)
  BY <1>3, <1>4, FS_Subset
<1> QED BY <1>1, <1>3, <1>5, FS_CardinalityType

\* The turns left are a number.
LEMMA TurnsLeftType ==
    ASSUME GraphInv, NEW s, SearchType(s)
    PROVE  /\ IsFiniteSet(s.left) /\ IsFiniteSet(Questions \ s.visited)
           /\ Cardinality(s.left) \in Nat /\ Cardinality(Questions \ s.visited) \in Nat
           /\ Len(s.path) \in Nat
           /\ TurnsLeft(s) \in Nat
<1>1. s.left \subseteq Edges /\ s.path \in Seq(Questions)
  BY DEF SearchType
<1>2. IsFiniteSet(s.left) /\ IsFiniteSet(Questions \ s.visited)
  BY <1>1, FiniteGraph, FS_Subset
<1>3. /\ Cardinality(s.left) \in Nat /\ Cardinality(Questions \ s.visited) \in Nat
      /\ Len(s.path) \in Nat
  BY <1>1, <1>2, FS_CardinalityType
<1> QED BY <1>2, <1>3 DEF TurnsLeft

\* Entering a node leaves fewer turns: it is left once.
LEMMA EnterCounts ==
    ASSUME GraphInv, NEW s, SearchType(s), ~s.cyclic, NEW n \in Questions, n \notin s.visited,
           NEW looked
    PROVE  TurnsLeft(Entered(s, n, looked)) < TurnsLeft(s)
<1> DEFINE t == Entered(s, n, looked)
<1>2. /\ t.path = Append(s.path, n) /\ t.visited = s.visited \cup {n}
      /\ t.left = s.left \ looked /\ SearchType(t)
  BY EnterIs
<1> HIDE DEF t
<1>3. Len(t.path) = Len(s.path) + 1
  BY <1>2 DEF SearchType
<1>4. Cardinality(t.left) <= Cardinality(s.left)
  <2>1. s.left \ looked \subseteq s.left
    OBVIOUS
  <2> QED BY <1>2, <2>1, TurnsLeftType, FS_Subset
<1>5. Cardinality(Questions \ t.visited) = Cardinality(Questions \ s.visited) - 1
  <2>1. Questions \ t.visited = (Questions \ s.visited) \ {n} /\ n \in Questions \ s.visited
    BY <1>2
  <2> QED BY <2>1, TurnsLeftType, FS_RemoveElement
<1>6. TurnsLeft(t) < TurnsLeft(s)
  <2>1. /\ Cardinality(t.left) \in Nat /\ Cardinality(Questions \ t.visited) \in Nat
        /\ Len(t.path) \in Nat
    BY <1>2, TurnsLeftType
  <2>2. /\ Cardinality(s.left) \in Nat /\ Cardinality(Questions \ s.visited) \in Nat
        /\ Len(s.path) \in Nat
    BY TurnsLeftType
  <2> QED BY <1>3, <1>4, <1>5, <2>1, <2>2 DEF TurnsLeft
<1> QED BY <1>6 DEF t

\* So does any turn of a search that is not over.
LEMMA TurnCounts ==
    ASSUME GraphInv, NEW s, SearchInv(s), ~Over(s)
    PROVE  TurnsLeft(SearchTurn(s)) < TurnsLeft(s)
<1> DEFINE node == s.path[Len(s.path)]
           neighbors == {n \in Questions : <<node, n>> \in s.left}
<1>0. SearchType(s) /\ ~s.cyclic
  BY DEF SearchInv, Over
<1>1. CASE s.path = <<>>
  <2>1. PICK n : n = Lowest(active \ s.visited)
    OBVIOUS
  <2>2. active \ s.visited # {} /\ n \in Questions /\ n \notin s.visited
    BY <1>1, <2>1, LowestOfThem DEF Over, GraphInv
  <2>3. [s EXCEPT !.left = @ \ {}] = s
    BY <1>0 DEF SearchType
  <2>4. SearchTurn(s) = Entered(s, n, {})
    BY <1>0, <1>1, <2>1, <2>2, <2>3 DEF SearchTurn, NextRoot, Entered
  <2> QED BY <1>0, <2>2, <2>4, EnterCounts
<1>2. CASE s.path # <<>> /\ neighbors = {}
  <2>1. SearchTurn(s) = Leave(s)
    BY <1>0, <1>2 DEF SearchTurn
  <2>2. PICK t : t = Leave(s)
    OBVIOUS
  <2>3. /\ t.visited = s.visited /\ t.left = s.left
        /\ Len(s.path) \in Nat \ {0} /\ Len(t.path) = Len(s.path) - 1 /\ SearchType(t)
    BY <1>0, <1>2, <2>2, LeaveIs
  <2>4. /\ Cardinality(s.left) \in Nat /\ Cardinality(Questions \ s.visited) \in Nat
    BY <1>0, TurnsLeftType
  <2>5. TurnsLeft(t) < TurnsLeft(s)
    BY <2>3, <2>4 DEF TurnsLeft
  <2> QED BY <2>1, <2>2, <2>5
<1>3. CASE s.path # <<>> /\ neighbors # {}
  <2>1. PICK n : n = Lowest(neighbors)
    OBVIOUS
  <2>2. n \in Questions /\ <<node, n>> \in s.left
    BY <1>0, <1>3, <2>1, NeighborsOf
  <2>3. SearchTurn(s) = LookAt(node, n, s)
    BY <1>0, <1>3, <2>1 DEF SearchTurn
  <2>4. CASE n \notin s.visited
    <3>1. SearchTurn(s) = Entered(s, n, {<<node, n>>})
      BY <2>3, <2>4 DEF LookAt, Entered
    <3> QED BY <1>0, <2>2, <2>4, <3>1, EnterCounts
  <2>5. CASE n \in s.visited
    <3>1. PICK t : t = [s EXCEPT !.left = @ \ {<<node, n>>}, !.cyclic = OnStack(n, s)]
      OBVIOUS
    <3>2. SearchTurn(s) = t
      BY <2>3, <2>5, <3>1 DEF LookAt
    <3>3. /\ t.path = s.path /\ t.visited = s.visited /\ t.left = s.left \ {<<node, n>>}
      BY <1>0, <3>1 DEF SearchType
    <3>4. /\ IsFiniteSet(s.left) /\ Cardinality(s.left) \in Nat
          /\ Cardinality(Questions \ s.visited) \in Nat /\ Len(s.path) \in Nat
      BY <1>0, TurnsLeftType
    <3>5. Cardinality(t.left) = Cardinality(s.left) - 1
      <4>1. PICK e : e = <<node, n>>
        OBVIOUS
      <4>2. t.left = s.left \ {e} /\ e \in s.left
        BY <2>2, <3>3, <4>1
      <4> QED BY <3>4, <4>2, FS_RemoveElement
    <3>6. TurnsLeft(t) < TurnsLeft(s)
      BY <3>3, <3>4, <3>5 DEF TurnsLeft
    <3> QED BY <3>2, <3>6
  <2> QED BY <2>4, <2>5
<1> QED BY <1>1, <1>2, <1>3

\* A search that is over stays as it is.
LEMMA OverStays == ASSUME NEW s, Over(s) PROVE SearchTurn(s) = s
BY DEF Over, SearchTurn, NextRoot

\* MaxTurns are enough for the search to be over, and what it then holds decides.
LEMMA SearchEnds ==
    ASSUME GraphInv
    PROVE  \E s : SearchInv(s) /\ Over(s) /\ CycleDetected = s.cyclic
<1>1. PICK N \in Nat : N = MaxTurns
  BY FiniteGraph DEF MaxTurns
<1>2. PICK Searches : Searches = {s \in [path : Seq(Questions), visited : SUBSET Questions,
                                         left : SUBSET Edges, cyclic : BOOLEAN] : SearchInv(s)}
  OBVIOUS
<1>3. \A s : s \in Searches <=> SearchInv(s)
  BY <1>2 DEF SearchInv, SearchType
<1>4. PICK F : F = [s \in Searches |-> SearchTurn(s)]
  OBVIOUS
<1>5. F \in [Searches -> Searches]
  BY <1>3, <1>4, TurnKeeps
<1>6. PICK f : Iteration(f, Searches, F, SearchStart, N)
  BY <1>3, <1>5, SearchStarts, Iterates
<1>7. f = [n \in 0..N |-> IF n = 0 THEN SearchStart ELSE SearchTurn(f[n - 1])]
  <2>1. \A n \in 1..N : n - 1 \in 0..N
    OBVIOUS
  <2>2. f \in [0..N -> Searches] /\ f[0] = SearchStart
    BY <1>6 DEF Iteration
  <2>3. \A n \in 1..N : f[n] = SearchTurn(f[n - 1])
    BY <1>4, <1>6, <2>1, <2>2 DEF Iteration
  <2>4. \A n \in 0..N : n = 0 \/ n \in 1..N
    OBVIOUS
  <2> QED BY <2>2, <2>3, <2>4
<1>8. PICK turn : turn = CHOOSE g : g = [n \in 0..N |-> IF n = 0 THEN SearchStart
                                                        ELSE SearchTurn(g[n - 1])]
  OBVIOUS
<1>9. turn = [n \in 0..N |-> IF n = 0 THEN SearchStart ELSE SearchTurn(turn[n - 1])]
  BY <1>7, <1>8
<1>10. CycleDetected = turn[N].cyclic
  BY <1>1, <1>8 DEF CycleDetected
<1>11. PICK P : P = {n \in Nat : /\ SearchInv(turn[n])
                                 /\ Over(turn[n]) \/ TurnsLeft(turn[n]) + n <= N}
  OBVIOUS
<1>12. 0 \in P
  <2>1. turn[0] = SearchStart
    BY <1>9
  <2>2. TurnsLeft(SearchStart) <= N
    <3>1. /\ SearchStart.path = <<>> /\ SearchStart.visited = {} /\ SearchStart.left = Edges
          /\ Len(SearchStart.path) = 0
      BY DEF SearchStart
    <3>2. Questions \ SearchStart.visited = Questions
      BY <3>1
    <3> QED BY <1>1, <3>1, <3>2, FiniteGraph DEF TurnsLeft, MaxTurns
  <2>3. TurnsLeft(SearchStart) \in Nat /\ SearchInv(SearchStart)
    BY SearchStarts, TurnsLeftType DEF SearchInv
  <2> QED BY <1>11, <2>1, <2>2, <2>3
<1>13. ASSUME NEW n \in 0..(N - 1), n \in P PROVE n + 1 \in P
  <2>1. n + 1 \in 0..N /\ n + 1 # 0 /\ (n + 1) - 1 = n /\ n \in Nat /\ n + 1 \in Nat
    OBVIOUS
  <2>2. PICK s, t : s = turn[n] /\ t = turn[n + 1]
    OBVIOUS
  <2>3. t = SearchTurn(s)
    BY <1>9, <2>1, <2>2
  <2>4. SearchInv(s) /\ (Over(s) \/ TurnsLeft(s) + n <= N)
    BY <1>11, <1>13, <2>2
  <2>5. SearchInv(t)
    BY <2>3, <2>4, TurnKeeps
  <2>6. Over(t) \/ TurnsLeft(t) + (n + 1) <= N
    <3>1. CASE Over(s)
      BY <2>3, <3>1, OverStays
    <3>2. CASE ~Over(s)
      <4>1. TurnsLeft(t) < TurnsLeft(s)
        BY <2>3, <2>4, <3>2, TurnCounts
      <4>2. TurnsLeft(t) \in Nat /\ TurnsLeft(s) \in Nat
        BY <2>4, <2>5, TurnsLeftType DEF SearchInv
      <4> QED BY <2>1, <2>4, <3>2, <4>1, <4>2
    <3> QED BY <3>1, <3>2
  <2> QED BY <1>11, <2>1, <2>2, <2>5, <2>6
<1>14. N \in P
  <2>1. 0..N \subseteq P
    BY <1>12, <1>13, CountingUp
  <2> QED BY <2>1
<1>15. PICK s : s = turn[N]
  OBVIOUS
<1>16. SearchInv(s) /\ (Over(s) \/ TurnsLeft(s) + N <= N)
  BY <1>11, <1>14, <1>15
<1>17. Over(s)
  <2> SUFFICES ASSUME ~Over(s) PROVE FALSE
    OBVIOUS
  <2>1. TurnsLeft(SearchTurn(s)) < TurnsLeft(s)
    BY <1>16, TurnCounts
  <2>2. SearchInv(SearchTurn(s))
    BY <1>16, TurnKeeps
  <2>3. TurnsLeft(s) \in Nat /\ TurnsLeft(SearchTurn(s)) \in Nat
    BY <1>16, <2>2, TurnsLeftType DEF SearchInv
  <2> QED BY <1>16, <2>1, <2>3
<1> QED BY <1>10, <1>15, <1>16, <1>17

(* What the check computes *)

\* A cycle runs over questions whose dependencies are looked at, the active ones.
LEMMA CyclesAreActive ==
    ASSUME GraphInv, NEW q \in Questions
    PROVE  Reaches(Edges, q, q) <=> Reaches({e \in dependsOn : e[1] \in active /\ e[2] \in active}, q, q)
<1> DEFINE inner == {e \in dependsOn : e[1] \in active /\ e[2] \in active}
<1>1. inner \subseteq Edges
  BY DEF Edges
<1>2. Reaches(inner, q, q) => Reaches(Edges, q, q)
  BY <1>1 DEF Reaches
<1>3. ASSUME Reaches(Edges, q, q) PROVE Reaches(inner, q, q)
  <2>1. q \in active
    <3> SUFFICES ASSUME q \notin active PROVE FALSE
      OBVIOUS
    <3>1. {} \in SUBSET Questions /\ \A e \in Edges : e[1] # q
      BY DEF Edges
    <3> QED BY <1>3, <3>1 DEF Reaches
  <2> SUFFICES ASSUME NEW reached \in SUBSET Questions,
                      \A e \in inner : e[1] = q \/ e[1] \in reached => e[2] \in reached
               PROVE  q \in reached
    BY DEF Reaches
  <2>2. PICK more \in SUBSET Questions : more = reached \cup (Questions \ active)
    OBVIOUS
  <2>3. ASSUME NEW e \in Edges, e[1] = q \/ e[1] \in more PROVE e[2] \in more
    <3>1. e \in dependsOn /\ e[1] \in active /\ e[2] \in Questions
      BY DEF Edges, GraphInv
    <3>2. e[1] = q \/ e[1] \in reached
      BY <2>2, <2>3, <3>1
    <3>3. CASE e[2] \in active
      BY <2>2, <3>1, <3>2, <3>3
    <3>4. CASE e[2] \notin active
      BY <2>2, <3>1, <3>4
    <3> QED BY <3>3, <3>4
  <2>4. q \in more
    BY <1>3, <2>3 DEF Reaches
  <2> QED BY <2>1, <2>2, <2>4
<1> QED BY <1>2, <1>3

\* The search is right about cycles.
LEMMA SearchIsExact ==
    ASSUME GraphInv
    PROVE  CycleDetected <=> \E q \in Questions : Reaches(Edges, q, q)
<1>1. PICK s : SearchInv(s) /\ Over(s) /\ CycleDetected = s.cyclic
  BY SearchEnds
<1>2. CASE s.cyclic
  BY <1>1, <1>2 DEF SearchInv
<1>3. CASE ~s.cyclic
  <2>1. s.path = <<>> /\ active \subseteq s.visited /\ DoneInv(s)
    BY <1>1, <1>3 DEF SearchInv, Over
  <2>2. active \subseteq Done(s)
    BY <2>1 DEF Done, OnStack
  <2>3. ASSUME NEW q \in Questions, Reaches(Edges, q, q) PROVE FALSE
    <3>1. CASE q \in active
      BY <2>1, <2>2, <2>3, <3>1 DEF DoneInv
    <3>2. CASE q \notin active
      <4>1. {} \in SUBSET Questions /\ \A e \in Edges : e[1] # q
        BY <3>2 DEF Edges
      <4> QED BY <2>3, <4>1 DEF Reaches
    <3> QED BY <3>1, <3>2
  <2> QED BY <1>1, <1>3, <2>3
<1> QED BY <1>2, <1>3

-----------------------------------------------------------------------------
(* The ranking: one question comes first *)

\* What a question scores is a number.
LEMMA ScoreTypes ==
    \A q \in Questions : /\ ImpactScore(q) \in Int /\ RelevanceScore(q) \in Int
                         /\ CriticalScore(q) \in Int /\ UnlockScore(q) \in Int
                         /\ EffortPenalty(q) \in Int
<1> SUFFICES ASSUME NEW q \in Questions
             PROVE  /\ ImpactScore(q) \in Int /\ RelevanceScore(q) \in Int
                    /\ CriticalScore(q) \in Int /\ UnlockScore(q) \in Int
                    /\ EffortPenalty(q) \in Int
  OBVIOUS
<1>1. /\ RelevanceScore(q) \in Int /\ CriticalScore(q) \in Int /\ UnlockScore(q) \in Int
      /\ EffortPenalty(q) \in Int /\ DownstreamScore(q) \in Int
  BY QuestionAssumption
     DEF RelevanceScore, CriticalScore, UnlockScore, EffortPenalty, DownstreamScore
<1>2. ImpactScore(q) \in Int
  BY <1>1 DEF ImpactScore
<1> QED BY <1>1, <1>2

\* Two questions do not come before each other: at last their identifiers differ.
LEMMA BeforeIsStrict ==
    ASSUME NEW p \in Questions, NEW q \in Questions, Before(p, q), Before(q, p)
    PROVE  FALSE
BY ScoreTypes, QuestionAssumption DEF Before

LEMMA OneFirst == OneIsOffered
<1>1. Candidates \subseteq Questions
  BY DEF Candidates
<1>2. \A p, q \in NextQuestion : p = q
  BY <1>1, BeforeIsStrict DEF NextQuestion, First
<1>3. CASE NextQuestion = {}
  BY <1>3, FS_EmptySet DEF OneIsOffered
<1>4. ASSUME NEW q \in NextQuestion PROVE OneIsOffered
  <2>1. NextQuestion = {q}
    BY <1>2, <1>4
  <2>2. Cardinality({q}) = 1
    BY FS_Singleton
  <2> QED BY <2>1, <2>2 DEF OneIsOffered
<1> QED BY <1>3, <1>4

\* Of two questions one comes before the other.
LEMMA BeforeIsTotal ==
    ASSUME NEW p \in Questions, NEW q \in Questions, p # q, ~Before(p, q)
    PROVE  Before(q, p)
BY ScoreTypes, QuestionAssumption DEF Before

\* What comes before the one that comes before comes before.
LEMMA BeforeIsTransitive ==
    ASSUME NEW p \in Questions, NEW q \in Questions, NEW r \in Questions,
           Before(p, q), Before(q, r)
    PROVE  Before(p, r)
BY ScoreTypes, QuestionAssumption DEF Before

\* Somewhere a function to the natural numbers is least.
LEMMA Least ==
    ASSUME NEW S, S # {}, NEW f, f \in [S -> Nat]
    PROVE  \E x \in S : \A y \in S : f[x] <= f[y]
<1>1. IsWellFoundedOn(OpToRel(<, Nat), Nat)
  BY NatLessThanWellFounded
<1>2. PICK values : values = {f[x] : x \in S}
  OBVIOUS
<1>3. values \subseteq Nat /\ values # {}
  BY <1>2
<1>4. PICK v \in values : \A w \in values : <<w, v>> \notin OpToRel(<, Nat)
  BY <1>1, <1>3, WFMin, Zenon
<1>5. ASSUME NEW w \in values PROVE v <= w
  <2>1. w \in Nat /\ v \in Nat
    BY <1>3
  <2>2. ~(w < v)
    BY <1>4, <2>1 DEF OpToRel
  <2> QED BY <2>1, <2>2
<1>6. PICK x \in S : f[x] = v
  BY <1>2
<1> QED BY <1>2, <1>5, <1>6

\* Of some questions one comes before all others: one that fewest come before.
LEMMA SomeFirst ==
    ASSUME NEW qs, qs \subseteq Questions, qs # {}
    PROVE  First(qs) # {}
<1> DEFINE earlier(q) == {p \in qs : Before(p, q)}
<1>1. \A q \in qs : IsFiniteSet(earlier(q)) /\ Cardinality(earlier(q)) \in Nat
  <2> SUFFICES ASSUME NEW q \in qs
               PROVE  IsFiniteSet(earlier(q)) /\ Cardinality(earlier(q)) \in Nat
    OBVIOUS
  <2>1. earlier(q) \subseteq Questions
    OBVIOUS
  <2> QED BY <2>1, QuestionAssumption, FS_Subset, FS_CardinalityType
<1>2. PICK f : f = [q \in qs |-> Cardinality(earlier(q))]
  OBVIOUS
<1>3. f \in [qs -> Nat]
  BY <1>1, <1>2
<1>4. PICK q \in qs : \A p \in qs : f[q] <= f[p]
  BY <1>3, Least
<1>5. \A p \in qs \ {q} : Before(q, p)
  <2> SUFFICES ASSUME NEW p \in qs \ {q}, ~Before(q, p) PROVE FALSE
    OBVIOUS
  <2>1. Before(p, q)
    BY BeforeIsTotal
  <2>2. earlier(p) \subseteq earlier(q)
    BY <2>1, BeforeIsTransitive
  <2>3. p \in earlier(q) /\ p \notin earlier(p)
    BY <2>1, BeforeIsStrict
  <2>4. Cardinality(earlier(p)) < Cardinality(earlier(q))
    <3>1. earlier(p) # earlier(q)
      BY <2>3
    <3> QED BY <1>1, <2>2, <3>1, FS_Subset
  <2>5. f[p] < f[q]
    BY <1>2, <2>4
  <2> QED BY <1>3, <1>4, <2>5
<1> QED BY <1>5 DEF First

-----------------------------------------------------------------------------
(* The discovery *)

\* The questions that can be asked, those of them that an answer or a question nobody is
\* asked holds back, and the dependencies between them, as DiscoveryProceeds has them.
StillOpen == {q \in Questions : Open(q)}
Stuck == {q \in StillOpen : \E p \in Parents(q) :
            IF Known(p) THEN ~Holds(Dependency[q], answers[p]) ELSE p \notin StillOpen}
OpenEdges == {e \in dependsOn : e[1] \in StillOpen}

\* Along the dependencies of a catalogue without cycles fewer and fewer questions are left
\* to be reached: some open question is held back by none.
LEMMA SomeCandidate ==
    ASSUME GraphInv, ~CycleDetected,
           NEW q \in StillOpen, q \notin Stuck, \A p \in Stuck : ~Reaches(OpenEdges, q, p)
    PROVE  Candidates # {}
<1> DEFINE reached(p) == {x \in Questions : Reaches(Edges, p, x)}
<1>1. \A p \in Questions : ~Reaches(Edges, p, p)
  BY SearchIsExact
<1>2. \A p \in Questions : IsFiniteSet(reached(p)) /\ Cardinality(reached(p)) \in Nat
  <2> TAKE p \in Questions
  <2>1. reached(p) \subseteq Questions
    OBVIOUS
  <2> QED BY <2>1, QuestionAssumption, FS_Subset, FS_CardinalityType
<1>3. PICK region : region = {p \in StillOpen : p = q \/ Reaches(OpenEdges, q, p)}
  OBVIOUS
<1>4. q \in region /\ region \subseteq Questions
  BY <1>3 DEF StillOpen
<1>5. PICK f : f = [p \in region |-> Cardinality(reached(p))]
  OBVIOUS
<1>6. f \in [region -> Nat]
  BY <1>2, <1>4, <1>5
<1>7. PICK m \in region : \A p \in region : f[m] <= f[p]
  BY <1>4, <1>6, Least
<1>8. m \in StillOpen /\ m \in Questions /\ m \in active /\ m \notin Stuck
  BY <1>3, <1>7 DEF StillOpen, Open
<1>9. ASSUME NEW p \in Parents(m) PROVE p \notin StillOpen
  <2> SUFFICES ASSUME p \in StillOpen PROVE FALSE
    OBVIOUS
  <2>1. p \in Questions /\ <<m, p>> \in dependsOn /\ <<m, p>> \in OpenEdges /\ <<m, p>> \in Edges
    BY <1>8 DEF Parents, Edges, OpenEdges
  <2>2. Reaches(OpenEdges, q, p)
    <3>1. CASE m = q
      BY <2>1, <3>1, ReachesNext
    <3>2. CASE m # q
      <4>1. Reaches(OpenEdges, q, m)
        BY <1>3, <1>7, <3>2
      <4> QED BY <2>1, <4>1, ReachesOn
    <3> QED BY <3>1, <3>2
  <2>3. p \in region
    BY <1>3, <2>2
  <2>4. reached(p) \subseteq reached(m)
    BY <2>1, ReachesAfter
  <2>5. p \in reached(m) /\ p \notin reached(p)
    BY <1>1, <2>1, ReachesNext
  <2>6. Cardinality(reached(p)) < Cardinality(reached(m))
    <3>1. reached(p) # reached(m)
      BY <2>5
    <3> QED BY <1>2, <1>8, <2>1, <2>4, <3>1, FS_Subset
  <2>7. f[p] < f[m]
    BY <1>5, <2>3, <2>6
  <2> QED BY <1>6, <1>7, <2>3, <2>7
<1>10. Unblocked(m)
  BY <1>8, <1>9 DEF Unblocked, Stuck
<1> QED BY <1>8, <1>10 DEF Candidates, StillOpen

\* With a candidate there is a first one, which is offered.
LEMMA DiscoveryGoesOn ==
    ASSUME GraphInv, OneIsOffered, AskedInOrder
    PROVE  DiscoveryProceeds
<1>1. ASSUME ~CycleDetected, NextQuestion = {}, NEW q \in StillOpen
      PROVE  q \in Stuck \/ \E p \in Stuck : Reaches(OpenEdges, q, p)
  <2>1. Candidates = {}
    BY <1>1, SomeFirst DEF NextQuestion, Candidates
  <2> QED BY <1>1, <2>1, SomeCandidate
<1> QED BY <1>1 DEF DiscoveryProceeds, StillOpen, Stuck, OpenEdges

QuestionsInv ==
    /\ GraphInv
    /\ answers \in [Questions -> Values \cup {Unknown}]
    /\ AskedInOrder

LEMMA QuestionsInvInit == QuestionInit => QuestionsInv
BY DEF QuestionInit, QuestionsInv, GraphInv, AskedInOrder, Known

\* The answer to an open question is no answer another one was offered for.
LEMMA QuestionsInvStep == QuestionsInv /\ [QuestionNext]_questionVars => QuestionsInv'
<1> SUFFICES ASSUME QuestionsInv, [QuestionNext]_questionVars PROVE QuestionsInv'
  OBVIOUS
<1> USE DEF QuestionsInv
<1>1. CASE UNCHANGED questionVars
  BY <1>1 DEF questionVars, GraphInv, AskedInOrder, Known, Parents
<1>2. ASSUME NEW q \in NextQuestion, NEW v \in Values,
             answers' = [answers EXCEPT ![q] = v], UNCHANGED <<active, dependsOn, evidence>>
      PROVE  QuestionsInv'
  <2>1. q \in Questions /\ ~Known(q) /\ \A p \in Parents(q) : Holds(Dependency[q], answers[p])
    BY DEF NextQuestion, First, Candidates, Open, Unblocked
  <2>2. /\ answers' \in [Questions -> Values \cup {Unknown}] /\ answers'[q] = v
        /\ \A p \in Questions : p # q => answers'[p] = answers[p]
    BY <1>2, <2>1
  <2>3. \A p \in Questions : Parents(p)' = Parents(p)
    BY <1>2 DEF Parents
  <2>4. ASSUME NEW p \in Questions, Known(p)', NEW parent \in Parents(p)
        PROVE  Holds(Dependency[p], answers'[parent])
    <3>1. parent \in Questions
      BY <2>4 DEF Parents
    <3>2. Holds(Dependency[p], answers[parent])
      BY <2>1, <2>2, <2>4 DEF AskedInOrder, Known
    <3>3. parent # q
      BY <2>1, <3>2 DEF Holds, Known
    <3> QED BY <2>2, <3>1, <3>2, <3>3
  <2>5. AskedInOrder'
    BY <2>3, <2>4 DEF AskedInOrder
  <2>6. GraphInv'
    BY <1>2 DEF GraphInv
  <2> QED BY <2>2, <2>5, <2>6
<1> QED BY <1>1, <1>2 DEF QuestionNext, Answer

\* Whatever the questions, which of them are active and whatever they depend on: detectCycles
\* refuses a catalogue exactly if an active question depends, over active ones, on itself.
THEOREM CycleCheckIsExact == QuestionSpec => []CycleCheckExact
<1>1. QuestionsInv => CycleCheckExact
  BY SearchIsExact, CyclesAreActive DEF QuestionsInv, CycleCheckExact
<1> QED BY <1>1, QuestionsInvInit, QuestionsInvStep, PTL DEF QuestionSpec

\* Whatever the catalogue, its dependencies and the documents are: at most one question is
\* offered, none is answered before the questions it depends on are, as it expects, and one
\* is offered as long as something is left that can be.
THEOREM DiscoveryAlwaysProceeds == QuestionSpec => []DiscoveryProceeds
<1>1. QuestionsInv => DiscoveryProceeds
  BY OneFirst, DiscoveryGoesOn DEF QuestionsInv
<1> QED BY <1>1, QuestionsInvInit, QuestionsInvStep, PTL DEF QuestionSpec

-------------------------------------------------------------------------------
(* The profile: what it states was checked when it was stored, or by nobody *)

(* What a call remembers, by where it is *)

\* The parent of a is there, and its value satisfies a unless it was written since it had
\* been written so often.
Checked(a, writes) ==
    LET parent == profileFacts[Registry[a].parent]
    IN  /\ parent # Unset /\ writes \in Nat /\ writes <= parent.writes
        /\ writes = parent.writes => Registry[a].condition \in {Unset, parent.value}

\* What an answer or a reconciliation writes is not checked, and needs no parent.
Grounded(a, basis) == basis = Unchecked \/ Checked(a, basis)

MemoryInv(m) ==
    /\ m.step \notin {"idle", "create profile", "done", "failed"} /\ m.kind # "first answer"
          => profile # Unset
    /\ m.kind \in {"first answer", "reconcile"} => m.step = "write"
    /\ m.kind = "reconcile" => m.checked = Unchecked
    /\ m.step \in {"validate", "look up", "write", "delete"} => m.attribute \in Attributes
    /\ m.step = "validate" => m.raw \in RawValues
    /\ m.step = "create profile" => \/ m.kind = "create"
                                    \/ m.attribute \in Attributes /\ m.raw \in RawValues
    /\ m.step \in {"look up", "write"} =>
          /\ m.value \in Stored
          /\ m.value # Null /\ Registry[m.attribute].parent # Unset =>
                Grounded(m.attribute, m.checked)
    /\ \/ m.step = "delete"
       \/ m.step = "write" /\ m.found
       => profileFacts[m.attribute] # Unset
    /\ m.step = "sync" /\ Mandatory \subseteq m.counted => everComplete

\* Facts are those of a profile, and each was checked against the parent there was, or not
\* at all.
FactsInv ==
    \A a \in Attributes : profileFacts[a] # Unset =>
        /\ profile # Unset
        /\ profileFacts[a].value # Null /\ Registry[a].parent # Unset => Grounded(a, ground[a])

CompleteInv == CompletedWasComplete /\ (Mandatory \subseteq CurrentFacts => everComplete)

ProfileInv ==
    /\ ProfileTypeOK
    /\ \A r \in ProfileRequests : MemoryInv(request[r])
    /\ FactsInv
    /\ CompleteInv

-----------------------------------------------------------------------------
(* The status and the percentage of a profile *)

\* A percentage of what is mandatory; all of it is 100.
LEMMA PercentageOfMandatory ==
    ASSUME NEW held \in SUBSET Attributes
    PROVE  /\ Percentage(held) \in 0..100
           /\ Mandatory \subseteq held => Percentage(held) = 100
<1>1. Mandatory \subseteq Attributes /\ IsFiniteSet(Mandatory)
  BY ProfileAssumption, FS_Subset DEF Mandatory
<1> DEFINE all == Cardinality(Mandatory)
           some == Cardinality(Mandatory \cap held)
<1>2. /\ all \in Nat /\ some \in Nat /\ some <= all
      /\ Mandatory # {} => all # 0
  <2>1. all \in Nat /\ (Mandatory # {} => all # 0)
    BY <1>1, FS_CardinalityType, FS_EmptySet
  <2>2. Mandatory \cap held \in SUBSET Mandatory
    OBVIOUS
  <2>3. IsFiniteSet(Mandatory \cap held) /\ some <= all
    BY <1>1, <2>2, FS_Subset
  <2>4. some \in Nat
    BY <2>3, FS_CardinalityType
  <2> QED BY <2>1, <2>3, <2>4
<1>3. Mandatory \subseteq held => some = all
  <2>1. Mandatory \subseteq held => Mandatory \cap held = Mandatory
    OBVIOUS
  <2> QED BY <2>1
<1>4. Percentage(held) = IF Mandatory = {} THEN 100 ELSE (100 * some) \div all
  BY DEF Percentage
<1> HIDE DEF all, some
<1>5. CASE Mandatory = {}
  BY <1>4, <1>5
<1>6. CASE Mandatory # {}
  <2> DEFINE q == (100 * some) \div all
  <2>1. all * q <= 100 * some /\ 100 * some < all * (q + 1) /\ q \in Int
    BY <1>2, <1>6
  <2>2. q >= 0 /\ q <= 100
    <3> HIDE DEF q
    <3>1. ASSUME q > 100 PROVE FALSE
      <4>1. all * q >= all * 101
        BY <1>2, <1>6, <2>1, <3>1
      <4> QED BY <1>2, <1>6, <2>1, <4>1
    <3>2. ASSUME q < 0 PROVE FALSE
      <4>1. all * (q + 1) <= all * 0
        BY <1>2, <1>6, <2>1, <3>2
      <4> QED BY <1>2, <1>6, <2>1, <4>1
    <3> QED BY <2>1, <3>1, <3>2
  <2>3. some = all => q = 100
    BY <1>2, <1>6
  <2> QED BY <1>3, <1>4, <1>6, <2>1, <2>2, <2>3
<1> QED BY <1>5, <1>6

\* COMPLETED is said only of all that is mandatory.
LEMMA CompletedIsAll ==
    ASSUME NEW held \in SUBSET Attributes
    PROVE  /\ StatusOf(held) \in Statuses
           /\ StatusOf(held) = "COMPLETED" => Mandatory \subseteq held
BY DEF StatusOf, Statuses

-----------------------------------------------------------------------------
(* Rows are not removed, and a value is only replaced by a write that counts *)

RowsGrow ==
    /\ profile # Unset => profile' # Unset
    /\ everComplete => everComplete'
    /\ \A a \in Attributes : profileFacts[a] # Unset =>
         /\ profileFacts'[a] # Unset
         /\ \/ /\ profileFacts'[a].writes = profileFacts[a].writes
               /\ profileFacts'[a].value = profileFacts[a].value
            \/ profileFacts'[a].writes > profileFacts[a].writes

\* What was checked stays checked.
LEMMA GroundedStays ==
    ASSUME ProfileInv, ProfileTypeOK', RowsGrow, NEW a \in Attributes, NEW basis,
           Registry[a].parent # Unset, Grounded(a, basis)
    PROVE  Grounded(a, basis)'
<1> SUFFICES ASSUME Checked(a, basis) PROVE Checked(a, basis)'
  BY DEF Grounded
<1> DEFINE p == Registry[a].parent
<1>1. p \in Attributes /\ profileFacts[p] # Unset
  BY ProfileAssumption DEF Checked
<1>2. profileFacts[p] \in FactRow /\ profileFacts[p].writes \in Nat
  BY <1>1 DEF ProfileInv, ProfileTypeOK, FactRow
<1>3. profileFacts'[p] \in FactRow /\ profileFacts'[p].writes \in Nat
  BY <1>1 DEF ProfileTypeOK, FactRow, RowsGrow
<1>4. /\ profileFacts'[p] # Unset
      /\ \/ /\ profileFacts'[p].writes = profileFacts[p].writes
            /\ profileFacts'[p].value = profileFacts[p].value
         \/ profileFacts'[p].writes > profileFacts[p].writes
  BY <1>1 DEF RowsGrow
<1> QED BY <1>2, <1>3, <1>4 DEF Checked

LEMMA MemoryStays ==
    ASSUME ProfileInv, ProfileTypeOK', RowsGrow, NEW m, MemoryInv(m)
    PROVE  MemoryInv(m)'
<1>1. m.step \in {"look up", "write"} /\ m.value # Null /\ Registry[m.attribute].parent # Unset
        => Grounded(m.attribute, m.checked)'
  BY GroundedStays DEF MemoryInv
<1> QED BY <1>1 DEF MemoryInv, RowsGrow

\* A step of a request that leaves every row with what it rests on keeps the invariant.
LEMMA RequestKeeps ==
    ASSUME ProfileInv, ProfileTypeOK', RowsGrow, NEW r \in ProfileRequests,
           MemoryInv(request[r])', CompleteInv',
           \A x \in ProfileRequests : x # r => request'[x] = request[x],
           \A a \in Attributes : profileFacts'[a] # Unset =>
             \/ /\ profileFacts[a] # Unset /\ profileFacts'[a].value = profileFacts[a].value
                /\ ground'[a] = ground[a]
             \/ /\ profile' # Unset
                /\ profileFacts'[a].value # Null /\ Registry[a].parent # Unset =>
                     Grounded(a, ground[a])'
    PROVE  ProfileInv'
<1>1. \A x \in ProfileRequests : MemoryInv(request[x])'
  <2> TAKE x \in ProfileRequests
  <2>1. CASE x # r
    <3>1. PICK m : m = request[x]
      OBVIOUS
    <3>2. request'[x] = m /\ MemoryInv(m)
      BY <2>1, <3>1 DEF ProfileInv
    <3>3. MemoryInv(m)'
      BY <3>2, MemoryStays
    <3> QED BY <3>2, <3>3
  <2> QED BY <2>1
<1>2. FactsInv'
  <2> SUFFICES ASSUME NEW a \in Attributes, profileFacts'[a] # Unset
               PROVE  /\ profile' # Unset
                      /\ profileFacts'[a].value # Null /\ Registry[a].parent # Unset =>
                           Grounded(a, ground[a])'
    BY DEF FactsInv
  <2>1. CASE profileFacts[a] # Unset /\ profileFacts'[a].value = profileFacts[a].value
             /\ ground'[a] = ground[a]
    <3>1. /\ profile # Unset
          /\ profileFacts[a].value # Null /\ Registry[a].parent # Unset => Grounded(a, ground[a])
      BY <2>1 DEF ProfileInv, FactsInv
    <3>2. \A v : Registry[a].parent # Unset /\ Grounded(a, v) => Grounded(a, v)'
      BY GroundedStays
    <3> QED BY <2>1, <3>1, <3>2 DEF RowsGrow, Checked, Grounded
  <2> QED BY <2>1
<1> QED BY <1>1, <1>2 DEF ProfileInv

-----------------------------------------------------------------------------
(* The calls *)

\* A call that leaves the facts alone.
LEMMA FactsAlone ==
    ASSUME ProfileInv, NEW r \in ProfileRequests, NEW m \in Request,
           request' = [request EXCEPT ![r] = m], MemoryInv(m)',
           UNCHANGED <<profileFacts, ground, everComplete>>,
           profile' \in ProfileRow \cup {Unset}, profile # Unset => profile' # Unset,
           CompletedWasComplete'
    PROVE  ProfileInv'
<1>1. /\ request' \in [ProfileRequests -> Request] /\ request'[r] = m
      /\ \A x \in ProfileRequests : x # r => request'[x] = request[x]
  BY DEF ProfileInv, ProfileTypeOK
<1>2. ProfileTypeOK'
  BY <1>1 DEF ProfileInv, ProfileTypeOK
<1>3. MemoryInv(request[r])'
  BY <1>1
<1>4. RowsGrow
  BY DEF RowsGrow
<1>5. CompleteInv'
  BY DEF ProfileInv, CompleteInv, CurrentFacts, Current
<1> QED BY <1>1, <1>2, <1>3, <1>4, <1>5, RequestKeeps

\* A call that leaves the profile alone too.
LEMMA OnlyRemembers ==
    ASSUME ProfileInv, NEW r \in ProfileRequests, NEW m \in Request,
           request' = [request EXCEPT ![r] = m], MemoryInv(m),
           UNCHANGED <<profile, profileFacts, ground, everComplete>>
    PROVE  ProfileInv'
<1>1. MemoryInv(m)'
  BY DEF MemoryInv, Checked, Grounded
<1>2. profile' \in ProfileRow \cup {Unset} /\ CompletedWasComplete'
  BY DEF ProfileInv, ProfileTypeOK, CompleteInv, CompletedWasComplete
<1> QED BY <1>1, <1>2, FactsAlone

\* Where nothing before is needed.
LEMMA NothingRemembered ==
    ASSUME NEW to \in {"done", "failed", "count"}, to = "count" => profile # Unset
    PROVE  /\ [IdleRequest EXCEPT !.step = to] \in Request
           /\ MemoryInv([IdleRequest EXCEPT !.step = to])
BY ProfileAssumption DEF IdleRequest, Request, MemoryInv, Kinds

LEMMA StartKeeps ==
    ASSUME ProfileInv, NEW r \in ProfileRequests, Start(r)
    PROVE  ProfileInv'
<1>1. UNCHANGED <<profile, profileFacts, ground, everComplete>>
  BY DEF Start
<1>2. \A a \in CurrentFacts : a \in Attributes /\ profileFacts[a] # Unset /\ profile # Unset
  BY DEF CurrentFacts, Current, ProfileInv, FactsInv
<1>3. CASE profile = Unset /\ Keep(r, [IdleRequest EXCEPT !.kind = "create", !.step = "create profile"])
  <2> DEFINE m == [IdleRequest EXCEPT !.kind = "create", !.step = "create profile"]
  <2>1. m \in Request /\ MemoryInv(m)
    BY DEF IdleRequest, Request, Kinds, MemoryInv
  <2> QED BY <1>1, <1>3, <2>1, OnlyRemembers DEF Keep
<1>4. CASE profile # Unset /\ Goto(r, "count")
  BY <1>1, <1>4, NothingRemembered, OnlyRemembers DEF Goto, Keep
<1>5. ASSUME NEW a \in Attributes, NEW raw \in RawValues,
             Keep(r, [IdleRequest EXCEPT !.kind = "add", !.attribute = a, !.raw = raw,
                             !.step = IF profile = Unset THEN "create profile" ELSE "validate"])
      PROVE  ProfileInv'
  <2> DEFINE m == [IdleRequest EXCEPT !.kind = "add", !.attribute = a, !.raw = raw,
                             !.step = IF profile = Unset THEN "create profile" ELSE "validate"]
  <2>1. m \in Request
    BY <1>2 DEF IdleRequest, Request, Kinds
  <2>2. MemoryInv(m)
    BY <1>2 DEF IdleRequest, MemoryInv
  <2> QED BY <1>1, <1>5, <2>1, <2>2, OnlyRemembers DEF Keep
<1>6. ASSUME NEW a \in CurrentFacts, NEW raw \in RawValues,
             Keep(r, [IdleRequest EXCEPT !.kind = "update", !.attribute = a, !.raw = raw,
                             !.step = "validate"])
      PROVE  ProfileInv'
  <2> DEFINE m == [IdleRequest EXCEPT !.kind = "update", !.attribute = a, !.raw = raw,
                             !.step = "validate"]
  <2>1. m \in Request
    BY <1>2 DEF IdleRequest, Request, Kinds
  <2>2. MemoryInv(m)
    BY <1>2 DEF IdleRequest, MemoryInv
  <2> QED BY <1>1, <1>6, <2>1, <2>2, OnlyRemembers DEF Keep
<1>7. ASSUME NEW a \in CurrentFacts, 
             Keep(r, [IdleRequest EXCEPT !.kind = "delete", !.attribute = a,
                             !.step = "delete"])
      PROVE  ProfileInv'
  <2> DEFINE m == [IdleRequest EXCEPT !.kind = "delete", !.attribute = a,
                             !.step = "delete"]
  <2>1. m \in Request
    BY <1>2 DEF IdleRequest, Request, Kinds
  <2>2. MemoryInv(m)
    BY <1>2 DEF IdleRequest, MemoryInv
  <2> QED BY <1>1, <1>7, <2>1, <2>2, OnlyRemembers DEF Keep
<1>8. ASSUME NEW kind \in {"answer", "first answer", "reconcile"}, NEW a \in Attributes,
             NEW value \in Stored, NEW found \in BOOLEAN,
             kind # "first answer" => profile # Unset, found => profileFacts[a] # Unset,
             KeepUnchecked(r, kind, a, value, found)
      PROVE  ProfileInv'
  <2> DEFINE m == [IdleRequest EXCEPT !.kind = kind, !.attribute = a, !.value = value,
                             !.checked = Unchecked, !.found = found, !.step = "write"]
  <2>1. m \in Request
    BY DEF IdleRequest, Request, Kinds
  <2>2. MemoryInv(m)
    BY <1>8 DEF IdleRequest, MemoryInv, Grounded
  <2> QED BY <1>1, <1>8, <2>1, <2>2, OnlyRemembers DEF KeepUnchecked, Keep
<1>9. ASSUME NEW a \in Attributes, NEW value \in Stored \ {Null},
             KeepUnchecked(r, IF profile = Unset THEN "first answer" ELSE "answer",
                           a, value, profileFacts[a] # Unset)
      PROVE  ProfileInv'
  <2>1. PICK kind \in {"answer", "first answer"} :
          /\ kind = IF profile = Unset THEN "first answer" ELSE "answer"
          /\ kind # "first answer" => profile # Unset
    OBVIOUS
  <2>2. PICK found \in BOOLEAN : found = (profileFacts[a] # Unset)
    OBVIOUS
  <2> QED BY <1>8, <1>9, <2>1, <2>2
<1>10. ASSUME NEW a \in CurrentFacts, NEW value \in RawValues,
              KeepUnchecked(r, "reconcile", a, value, TRUE)
       PROVE  ProfileInv'
  BY <1>2, <1>8, <1>10 DEF Stored
<1> QED BY <1>3, <1>4, <1>5, <1>6, <1>7, <1>9, <1>10 DEF Start

\* A new profile does not call itself complete.
LEMMA NewProfileClaimsNothing ==
    NewProfile \in ProfileRow /\ NewProfile # Unset /\ NewProfile.status # "COMPLETED"
<1>1. NewProfile \in ProfileRow
  BY DEF NewProfile, ProfileRow, Statuses
<1> QED BY <1>1, ProfileAssumption DEF NewProfile

LEMMA CreateProfileKeeps ==
    ASSUME ProfileInv, NEW r \in ProfileRequests, CreateProfile(r)
    PROVE  ProfileInv'
<1>1. /\ request[r].step = "create profile" /\ request[r] \in Request /\ MemoryInv(request[r])
      /\ UNCHANGED <<profileFacts, ground, everComplete>>
  BY DEF CreateProfile, ProfileInv, ProfileTypeOK
<1>2. /\ profile' \in ProfileRow /\ profile' # Unset
      /\ CompletedWasComplete'
  <2>1. CASE profile # Unset
    <3>1. profile' = profile
      BY <2>1 DEF CreateProfile
    <3>2. profile \in ProfileRow /\ CompletedWasComplete
      BY <2>1 DEF ProfileInv, ProfileTypeOK, CompleteInv
    <3> QED BY <1>1, <2>1, <3>1, <3>2 DEF CompletedWasComplete
  <2>2. CASE profile = Unset
    <3>1. profile' = NewProfile
      BY <2>2 DEF CreateProfile
    <3> QED BY <3>1, NewProfileClaimsNothing DEF CompletedWasComplete
  <2> QED BY <2>1, <2>2
<1>3. CASE request[r].kind = "add" /\ Keep(r, [request[r] EXCEPT !.step = "validate"])
  <2> DEFINE m == [request[r] EXCEPT !.step = "validate"]
  <2>1. m \in Request /\ m.step = "validate" /\ m.attribute \in Attributes /\ m.raw \in RawValues
         /\ m.kind = "add"
    BY <1>1, <1>3 DEF Request, MemoryInv
  <2>2. PICK n : n = m
    OBVIOUS
  <2>3. request' = [request EXCEPT ![r] = n]
    BY <1>3, <2>2 DEF Keep
  <2> HIDE DEF m
  <2>4. MemoryInv(n)'
    BY <1>2, <2>1, <2>2 DEF MemoryInv
  <2> QED BY <1>1, <1>2, <2>1, <2>2, <2>3, <2>4, FactsAlone
<1>4. ASSUME NEW to \in {"done", "failed"}, Goto(r, to)
      PROVE  ProfileInv'
  <2> DEFINE m == [IdleRequest EXCEPT !.step = to]
  <2>1. m \in Request /\ MemoryInv(m)'
    BY NothingRemembered DEF IdleRequest, MemoryInv
  <2> QED BY <1>1, <1>2, <1>4, <2>1, FactsAlone DEF Goto, Keep
<1> QED BY <1>3, <1>4 DEF CreateProfile

LEMMA ValidateKeeps ==
    ASSUME ProfileInv, NEW r \in ProfileRequests, Validate(r)
    PROVE  ProfileInv'
<1> DEFINE a == request[r].attribute
           raw == request[r].raw
           p == Registry[a].parent
           value == IF raw = Null THEN Null ELSE Typed(a, raw)
           checked == IF raw = Null \/ p = Unset THEN Unset ELSE profileFacts[p].writes
<1>1. /\ request[r].step = "validate" /\ request[r] \in Request /\ MemoryInv(request[r])
      /\ UNCHANGED <<profile, profileFacts, ground, everComplete>>
  BY DEF Validate, ProfileInv, ProfileTypeOK
<1>2. a \in Attributes /\ raw \in RawValues /\ profile # Unset
  BY <1>1 DEF MemoryInv
<1>3. CASE Admissible(a, raw)
  <2>1. value \in Stored
    BY <1>2 DEF Typed, Stored
  <2>2. p # Unset /\ raw # Null => p \in Attributes /\ Current(p) /\ profileFacts[p] \in FactRow
    BY <1>2, <1>3, ProfileAssumption
       DEF Admissible, ParentHolds, Current, ProfileInv, ProfileTypeOK
  <2>3. checked \in Nat \cup {Unset, Unchecked}
    BY <2>2 DEF FactRow
  <2>4. value # Null /\ p # Unset => Checked(a, checked)
    <3> SUFFICES ASSUME value # Null, p # Unset PROVE Checked(a, checked)
      OBVIOUS
    <3>1. raw # Null /\ checked = profileFacts[p].writes
      OBVIOUS
    <3>2. Registry[a].condition \in {Unset, profileFacts[p].value}
      BY <1>3, <3>1 DEF Admissible, ParentHolds
    <3>3. PICK parent \in FactRow : parent = profileFacts[p] /\ parent # Unset
      BY <2>2, <3>1 DEF Current
    <3>4. parent.writes \in Nat
      BY DEF FactRow
    <3> QED BY ONLY <3>1, <3>2, <3>3, <3>4 DEF Checked
  <2> DEFINE m == [request[r] EXCEPT !.step = "look up", !.raw = Unset, !.value = value,
                                     !.checked = checked]
  <2>5. request' = [request EXCEPT ![r] = m]
    BY <1>3 DEF Validate, Keep
  <2> HIDE DEF value, checked
  <2>6. /\ m \in Request /\ m.step = "look up" /\ m.attribute = a /\ m.value = value
        /\ m.checked = checked /\ m.kind = request[r].kind
    BY <1>1, <2>1, <2>3 DEF Request
  <2> HIDE DEF m
  <2>7. MemoryInv(m)
    BY <1>1, <1>2, <2>1, <2>4, <2>6 DEF MemoryInv, Grounded
  <2> QED BY <1>1, <2>5, <2>6, <2>7, OnlyRemembers
<1>4. CASE ~Admissible(a, raw)
  <2>1. Goto(r, "failed")
    BY <1>4 DEF Validate
  <2> QED BY <1>1, <2>1, NothingRemembered, OnlyRemembers DEF Goto, Keep
<1> QED BY <1>3, <1>4

LEMMA LookUpKeeps ==
    ASSUME ProfileInv, NEW r \in ProfileRequests, LookUp(r)
    PROVE  ProfileInv'
<1>1. /\ request[r].step = "look up" /\ request[r] \in Request /\ MemoryInv(request[r])
      /\ UNCHANGED <<profile, profileFacts, ground, everComplete>>
  BY DEF LookUp, ProfileInv, ProfileTypeOK
<1> DEFINE found == profileFacts[request[r].attribute] # Unset
           m == [request[r] EXCEPT !.step = "write", !.found = found]
<1>2. request' = [request EXCEPT ![r] = m]
  BY DEF LookUp, Keep
<1>3. found \in BOOLEAN
  OBVIOUS
<1>4. /\ m \in Request /\ m.step = "write" /\ m.attribute = request[r].attribute
      /\ m.value = request[r].value /\ m.checked = request[r].checked /\ m.found = found
      /\ m.kind = request[r].kind
  <2> HIDE DEF found
  <2> QED BY <1>1, <1>3 DEF Request
<1> HIDE DEF m
<1>5. MemoryInv(m)
  BY <1>1, <1>4 DEF MemoryInv
<1> QED BY <1>1, <1>2, <1>4, <1>5, OnlyRemembers

LEMMA CountKeeps ==
    ASSUME ProfileInv, NEW r \in ProfileRequests, Count(r)
    PROVE  ProfileInv'
<1>1. /\ request[r].step = "count" /\ request[r] \in Request /\ MemoryInv(request[r])
      /\ UNCHANGED <<profile, profileFacts, ground, everComplete>>
  BY DEF Count, ProfileInv, ProfileTypeOK
<1> DEFINE m == [request[r] EXCEPT !.step = "sync", !.counted = CurrentFacts]
<1>2. request' = [request EXCEPT ![r] = m]
  BY DEF Count, Keep
<1>3. CurrentFacts \in SUBSET Attributes
  BY DEF CurrentFacts
<1>4. /\ m \in Request /\ m.step = "sync" /\ m.counted = CurrentFacts
      /\ m.kind = request[r].kind
  BY <1>1, <1>3 DEF Request
<1> HIDE DEF m
<1>5. MemoryInv(m)
  BY <1>1, <1>4 DEF MemoryInv, ProfileInv, CompleteInv
<1> QED BY <1>1, <1>2, <1>4, <1>5, OnlyRemembers

LEMMA SyncKeeps ==
    ASSUME ProfileInv, NEW r \in ProfileRequests, Sync(r)
    PROVE  ProfileInv'
<1> DEFINE held == request[r].counted
<1>1. /\ request[r].step = "sync" /\ request[r] \in Request /\ MemoryInv(request[r])
      /\ UNCHANGED <<profileFacts, ground, everComplete>>
      /\ profile' = [status |-> StatusOf(held), percentage |-> Percentage(held),
                     version |-> profile.version + 1]
  BY DEF Sync, ProfileInv, ProfileTypeOK
<1>2. held \in SUBSET Attributes /\ profile # Unset
  BY <1>1 DEF Request, MemoryInv
<1>3. /\ StatusOf(held) \in Statuses /\ Percentage(held) \in 0..100
      /\ StatusOf(held) = "COMPLETED" => Percentage(held) = 100 /\ everComplete
  BY <1>1, <1>2, PercentageOfMandatory, CompletedIsAll DEF MemoryInv
<1>4. profile.version + 1 \in Nat
  BY <1>2 DEF ProfileInv, ProfileTypeOK, ProfileRow
<1>5. profile' \in ProfileRow /\ profile' # Unset /\ CompletedWasComplete'
  <2>1. profile' \in ProfileRow
    BY <1>1, <1>3, <1>4 DEF ProfileRow
  <2> QED BY <1>1, <1>3, <2>1, ProfileAssumption DEF CompletedWasComplete
<1>6. PICK m \in Request : request' = [request EXCEPT ![r] = m] /\ MemoryInv(m)'
  <2>1. MemoryInv([IdleRequest EXCEPT !.step = "done"])'
    BY ProfileAssumption DEF IdleRequest, MemoryInv, Kinds
  <2>2. Goto(r, "done")
    BY DEF Sync
  <2> QED BY <2>1, <2>2, NothingRemembered DEF Goto, Keep
<1> QED BY <1>1, <1>5, <1>6, FactsAlone

LEMMA BreakKeeps ==
    ASSUME ProfileInv, NEW r \in ProfileRequests, Break(r)
    PROVE  ProfileInv'
<1>1. Goto(r, "failed") /\ UNCHANGED <<profile, profileFacts, ground, everComplete>>
  BY DEF Break
<1> QED BY <1>1, NothingRemembered, OnlyRemembers DEF Goto, Keep

\* A call that changes the row of one attribute, and what it rests on; the first answer
\* creates the profile with it.
LEMMA OneRowKeeps ==
    ASSUME ProfileInv, NEW r \in ProfileRequests, NEW a \in Attributes, NEW row \in FactRow,
           NEW basis \in Nat \cup {Unset, Unchecked}, NEW to \in {"count", "done"},
           profile' \in ProfileRow, profile' # Unset, CompletedWasComplete',
           profileFacts' = [profileFacts EXCEPT ![a] = row],
           ground' = [ground EXCEPT ![a] = basis],
           Goto(r, to),
           everComplete' \in BOOLEAN, everComplete => everComplete',
           Mandatory \subseteq CurrentFacts' => everComplete',
           profileFacts[a] # Unset =>
             \/ row.writes = profileFacts[a].writes /\ row.value = profileFacts[a].value
             \/ row.writes > profileFacts[a].writes,
           \/ /\ profileFacts[a] # Unset /\ row.value = profileFacts[a].value
              /\ basis = ground[a]
           \/ row.value # Null /\ Registry[a].parent # Unset => Grounded(a, basis)
    PROVE  ProfileInv'
<1> DEFINE m == [IdleRequest EXCEPT !.step = to]
<1>1. m \in Request /\ MemoryInv(m)'
  <2>1. m \in Request
    BY DEF IdleRequest, Request
  <2>2. MemoryInv(m)'
    BY ProfileAssumption DEF IdleRequest, MemoryInv, Kinds
  <2> QED BY <2>1, <2>2
<1>2. request' = [request EXCEPT ![r] = m]
  BY DEF Goto, Keep
<1> HIDE DEF m
<1>3. ProfileTypeOK'
  BY <1>1, <1>2 DEF ProfileInv, ProfileTypeOK
<1>4. \A b \in Attributes : /\ profileFacts'[b] = IF b = a THEN row ELSE profileFacts[b]
                            /\ ground'[b] = IF b = a THEN basis ELSE ground[b]
  BY DEF ProfileInv, ProfileTypeOK
<1>5. row # Unset
  BY ProfileAssumption
<1>6. RowsGrow
  BY <1>4, <1>5 DEF RowsGrow
<1>7. MemoryInv(request[r])' /\ \A x \in ProfileRequests : x # r => request'[x] = request[x]
  BY <1>1, <1>2 DEF ProfileInv, ProfileTypeOK
<1>8. CompleteInv'
  BY DEF CompleteInv
<1>9. ASSUME NEW b \in Attributes, profileFacts'[b] # Unset
      PROVE  \/ /\ profileFacts[b] # Unset /\ profileFacts'[b].value = profileFacts[b].value
                /\ ground'[b] = ground[b]
             \/ /\ profile' # Unset
                /\ profileFacts'[b].value # Null /\ Registry[b].parent # Unset =>
                     Grounded(b, ground[b])'
  <2>1. CASE b # a
    BY <1>4, <1>9, <2>1
  <2>2. CASE /\ b = a /\ profileFacts[a] # Unset /\ row.value = profileFacts[a].value
             /\ basis = ground[a]
    BY <1>4, <2>2
  <2>3. CASE b = a /\ (row.value # Null /\ Registry[a].parent # Unset => Grounded(a, basis))
    <3>1. Registry[a].parent # Unset /\ Grounded(a, basis) => Grounded(a, basis)'
      BY <1>3, <1>6, GroundedStays
    <3>2. ground'[b] = basis /\ profileFacts'[b] = row
      BY <1>4, <2>3
    <3>3. Grounded(a, basis)' => Grounded(b, ground[b])'
      BY <2>3, <3>2 DEF Checked, Grounded
    <3> QED BY <2>3, <3>1, <3>2, <3>3
  <2> QED BY <2>1, <2>2, <2>3
<1> QED BY <1>3, <1>6, <1>7, <1>8, <1>9, RequestKeeps

LEMMA WriteKeeps ==
    ASSUME ProfileInv, NEW r \in ProfileRequests, Write(r)
    PROVE  ProfileInv'
<1> DEFINE a == request[r].attribute
           row == RowAfter(r, profileFacts[a])
           basis == request[r].checked
<1>1. /\ request[r].step = "write" /\ request[r] \in Request /\ MemoryInv(request[r])
      /\ everComplete' = (everComplete \/ Mandatory \subseteq CurrentFacts')
      /\ everComplete \in BOOLEAN
  BY DEF Write, ProfileInv, ProfileTypeOK
<1>2. /\ a \in Attributes /\ request[r].value \in Stored
      /\ request[r].kind # "first answer" => profile # Unset
      /\ basis \in Nat \cup {Unset, Unchecked} /\ request[r].found \in BOOLEAN
      /\ request[r].value # Null /\ Registry[a].parent # Unset => Grounded(a, basis)
      /\ request[r].found => profileFacts[a] # Unset
  BY <1>1 DEF MemoryInv, Request
<1>3. CASE Refused(r)
  <2>1. Goto(r, "failed") /\ UNCHANGED <<profile, profileFacts, ground>>
    BY <1>3 DEF Write
  <2>2. everComplete' = everComplete
    BY <1>1, <2>1 DEF ProfileInv, CompleteInv, CurrentFacts, Current
  <2> QED BY <2>1, <2>2, NothingRemembered, OnlyRemembers DEF Goto, Keep
<1>4. CASE ~Refused(r)
  <2>1. /\ profileFacts' = [profileFacts EXCEPT ![a] = row]
        /\ ground' = [ground EXCEPT ![a] = basis]
        /\ profile' = IF request[r].kind = "first answer" THEN NewProfile ELSE profile
    BY <1>4 DEF Write
  <2>2. PICK to \in {"count", "done"} : Goto(r, to)
    BY <1>4 DEF Write
  <2>3. /\ profileFacts[a] # Unset => profileFacts[a] \in FactRow
        /\ ~request[r].found => profileFacts[a] = Unset
    BY <1>2, <1>4 DEF ProfileInv, ProfileTypeOK, Refused
  <2>4. row \in FactRow /\ (profileFacts[a] # Unset => row.writes > profileFacts[a].writes)
    <3>1. CASE request[r].found
      <4>1. PICK old \in FactRow : old = profileFacts[a]
        BY <1>2, <2>3, <3>1
      <4>2. PICK value \in Stored : row = [value |-> value, writes |-> old.writes + 1,
                                           current |-> old.current \/ request[r].kind = "add"]
        BY <1>2, <3>1, <4>1 DEF RowAfter, FactRow
      <4> QED BY <4>1, <4>2 DEF FactRow
    <3>2. CASE ~request[r].found
      BY <1>2, <2>3, <3>2 DEF RowAfter, FactRow
    <3> QED BY <3>1, <3>2
  <2>5. row.value # Null /\ Registry[a].parent # Unset => Grounded(a, basis)
    <3>1. request[r].kind = "reconcile" => Grounded(a, basis)
      BY <1>1 DEF MemoryInv, Grounded
    <3>2. request[r].kind # "reconcile" => row.value = request[r].value
      BY DEF RowAfter
    <3> QED BY <1>2, <3>1, <3>2
  <2>6. profile' \in ProfileRow /\ profile' # Unset /\ CompletedWasComplete'
    <3>1. CASE request[r].kind = "first answer"
      BY <2>1, <3>1, NewProfileClaimsNothing DEF CompletedWasComplete
    <3>2. CASE request[r].kind # "first answer"
      <4>1. profile' = profile /\ profile \in ProfileRow /\ profile # Unset
        BY <1>2, <2>1, <3>2 DEF ProfileInv, ProfileTypeOK
      <4> QED BY <1>1, <4>1 DEF ProfileInv, CompleteInv, CompletedWasComplete
    <3> QED BY <3>1, <3>2
  <2> HIDE DEF row, a, basis
  <2> QED BY <1>1, <1>2, <2>1, <2>2, <2>4, <2>5, <2>6, OneRowKeeps
<1> QED BY <1>3, <1>4

LEMMA DeleteKeeps ==
    ASSUME ProfileInv, NEW r \in ProfileRequests, Delete(r)
    PROVE  ProfileInv'
<1> DEFINE a == request[r].attribute
           row == [profileFacts[a] EXCEPT !.current = FALSE]
<1>1. /\ a \in Attributes /\ profileFacts[a] # Unset /\ profile # Unset
      /\ UNCHANGED <<profile, ground, everComplete>> /\ Goto(r, "count")
      /\ everComplete \in BOOLEAN
      /\ profile' \in ProfileRow /\ profile' # Unset
  BY DEF Delete, ProfileInv, ProfileTypeOK, MemoryInv
<1>2. profileFacts[a] \in FactRow /\ ground[a] \in Nat \cup {Unset, Unchecked}
      /\ profileFacts' = [profileFacts EXCEPT ![a] = row]
      /\ ground' = [ground EXCEPT ![a] = ground[a]]
  BY <1>1 DEF Delete, ProfileInv, ProfileTypeOK
<1>3. /\ row \in FactRow /\ row.value = profileFacts[a].value
      /\ row.writes = profileFacts[a].writes /\ row.current = FALSE
  BY <1>2 DEF FactRow
<1> HIDE DEF row
<1>4. CurrentFacts' \subseteq CurrentFacts
  <2>1. \A b \in Attributes : profileFacts'[b] = IF b = a THEN row ELSE profileFacts[b]
    BY <1>2 DEF ProfileInv, ProfileTypeOK
  <2> QED BY <1>3, <2>1 DEF CurrentFacts, Current
<1>5. Mandatory \subseteq CurrentFacts' => everComplete'
  BY <1>1, <1>4 DEF ProfileInv, CompleteInv
<1>6. CompletedWasComplete'
  BY <1>1 DEF ProfileInv, CompleteInv, CompletedWasComplete
<1> QED BY <1>1, <1>2, <1>3, <1>5, <1>6, OneRowKeeps

-----------------------------------------------------------------------------
(* The theorems *)

LEMMA ProfileInvInit == ProfileInit => ProfileInv
<1> SUFFICES ASSUME ProfileInit PROVE ProfileInv
  OBVIOUS
<1>1. IdleRequest \in Request /\ IdleRequest.step = "idle"
  BY DEF IdleRequest, Request
<1>2. everComplete \in BOOLEAN /\ CurrentFacts = {}
  BY DEF ProfileInit, CurrentFacts, Current
<1>3. ProfileTypeOK
  BY <1>1, <1>2 DEF ProfileInit, ProfileTypeOK
<1>4. \A r \in ProfileRequests : MemoryInv(request[r])
  <2>1. MemoryInv(IdleRequest)
    BY ProfileAssumption DEF IdleRequest, MemoryInv, Kinds
  <2> QED BY <2>1 DEF ProfileInit
<1>5. FactsInv
  BY DEF ProfileInit, FactsInv
<1>6. CompleteInv
  BY <1>2 DEF ProfileInit, CompleteInv, CompletedWasComplete
<1> QED BY <1>3, <1>4, <1>5, <1>6 DEF ProfileInv

LEMMA ProfileInvStep == ProfileInv /\ [ProfileNext]_profileVars => ProfileInv'
<1> SUFFICES ASSUME ProfileInv, [ProfileNext]_profileVars PROVE ProfileInv'
  OBVIOUS
<1>1. CASE ProfileNext
  <2>1. PICK r \in ProfileRequests :
          \/ Start(r) \/ CreateProfile(r) \/ Validate(r) \/ LookUp(r) \/ Write(r)
          \/ Delete(r) \/ Count(r) \/ Sync(r) \/ Break(r)
    BY <1>1 DEF ProfileNext
  <2> QED BY <2>1, StartKeeps, CreateProfileKeeps, ValidateKeeps, LookUpKeeps, WriteKeeps,
             DeleteKeeps, CountKeeps, SyncKeeps, BreakKeeps
<1>2. CASE UNCHANGED profileVars
  BY <1>2 DEF profileVars, ProfileInv, ProfileTypeOK, MemoryInv, Checked, Grounded, FactsInv, CompleteInv,
              CompletedWasComplete, CurrentFacts, Current
<1> QED BY <1>1, <1>2

\* The inductive invariant holds for any requests, attributes and registry, with all who
\* write facts: additions, updates, deletions, answers and reconciliations.
THEOREM ProfileInvariance == ProfileSpec => []ProfileInv
BY ProfileInvInit, ProfileInvStep, PTL DEF ProfileSpec

\* The types of the profile, its facts and what the requests remember.
THEOREM ProfileTypeCorrectness == ProfileSpec => []ProfileTypeOK
<1>1. ProfileInv => ProfileTypeOK
  BY DEF ProfileInv
<1> QED BY <1>1, ProfileInvariance, PTL

\* However answers and reconciliations write unchecked values among them: a dependent fact
\* that the registry was asked about has its parent, and the parent the value it needs, unless
\* the parent was written or deleted since; and a profile that calls itself complete was.
THEOREM ProfileIsHonest == ProfileSpec => []ProfileHonest
<1>1. ProfileInv => ProfileHonest
  <2> SUFFICES ASSUME ProfileInv PROVE ProfileHonest
    OBVIOUS
  <2>1. ASSUME NEW a \in CurrentFacts, Registry[a].parent # Unset, profileFacts[a].value # Null,
               ground[a] # Unchecked
        PROVE  GroundHolds(a, profileFacts[Registry[a].parent])
    <3>1. a \in Attributes /\ profileFacts[a] # Unset
      BY DEF CurrentFacts, Current
    <3>2. Checked(a, ground[a])
      BY <2>1, <3>1 DEF ProfileInv, FactsInv, Grounded
    <3> QED BY <3>2 DEF Checked, GroundHolds
  <2>2. CompletedWasComplete
    BY DEF ProfileInv, CompleteInv
  <2> QED BY <2>1, <2>2 DEF ProfileHonest, DependentsGrounded
<1> QED BY <1>1, ProfileInvariance, PTL

-------------------------------------------------------------------------------
(* The review of a fact: a verification can be accounted for *)

\* What is there once a verification has come as far as it says.
Accounted(v) ==
    /\ verification[v] \in {"judged", "snapshot taken", "done"} => judged[v] # Nothing
    /\ verification[v] \in {"snapshot taken", "done"} =>
          snapshots[v] = [freshness |-> judged[v].freshness, policy |-> judged[v].policy]
    /\ runs[v] # Nothing => runs[v] = judged[v] /\ verification[v] = "done"

\* A stored policy is never replaced.
PolicyStays(v) ==
    judged[v] # Nothing /\ judged[v].stored => policyRow = judged[v].policy

\* An officer's call that found a review has read one of which status, verdict and
\* reviewer belong together.
CallReads(c) ==
    call[c].step = "found" =>
        /\ call[c].of \in FactVerifications /\ call[c].change \in Change
        /\ call[c].read \in Review /\ ReviewAgrees(call[c].read)

FactReviewInv ==
    /\ FactReviewTypeOK
    /\ \A v \in FactVerifications : Accounted(v) /\ PolicyStays(v)
    /\ \A v \in FactVerifications : factReviews[v] # Nothing => ReviewAgrees(factReviews[v])
    /\ \A c \in ReviewCalls : CallReads(c)

-------------------------------------------------------------------------------
\* Whatever the evidence, a judgement names a strategy and a policy.
LEMMA JudgementType ==
    ASSUME policyRow \in Nat \cup {Nothing}
    PROVE  /\ [strategy |-> Strategy(ActivePolicy), freshness |-> Freshness(age),
               policy |-> ActivePolicy, stored |-> policyRow # Nothing] \in Judgement
           /\ policyRow # Nothing => ActivePolicy = policyRow
<1>1. ActivePolicy \in Nat /\ (policyRow # Nothing => ActivePolicy = policyRow)
  BY FactReviewAssumption DEF ActivePolicy
<1>2. Freshness(age) \in Freshnesses
  BY DEF Freshness, Freshnesses
<1>3. Strategy(ActivePolicy) \in Strategies
  BY DEF Strategy, AcceptedSource, Strategies
<1> QED BY <1>1, <1>2, <1>3 DEF Judgement

\* An officer's change of a review that agrees leaves one that agrees.
LEMMA UpdatedAgrees ==
    ASSUME NEW read \in Review, ReviewAgrees(read), NEW change \in Change
    PROVE  Updated(read, change) \in Review /\ ReviewAgrees(Updated(read, change))
<1>1. /\ read.version + 1 \in Nat
      /\ read.reviewer \in Officers \cup {Nothing} /\ read.decision \in Verdicts \cup {Nothing}
  BY DEF Review
<1>2. ASSUME NEW officer \in Officers, change = [status |-> "ASSIGNED", reviewer |-> officer]
      PROVE  /\ Updated(read, change) \in Review
             /\ ReviewAgrees(Updated(read, change))
  <2>1. Updated(read, change) = [version |-> read.version + 1, status |-> "ASSIGNED",
                                 reviewer |-> officer, decision |-> read.decision]
    BY <1>2 DEF Updated
  <2>2. officer # Nothing
    BY FactReviewAssumption
  <2> QED BY <1>1, <2>1, <2>2 DEF Review, ReviewAgrees, Verdicts
<1>3. ASSUME NEW verdict \in Verdicts, change = [status |-> verdict, decision |-> verdict]
      PROVE  /\ Updated(read, change) \in Review
             /\ ReviewAgrees(Updated(read, change))
  <2>1. Updated(read, change) = [version |-> read.version + 1, status |-> verdict,
                                 reviewer |-> read.reviewer, decision |-> verdict]
    BY <1>3 DEF Updated
  <2> QED BY <1>1, <2>1 DEF Review, ReviewAgrees, Verdicts
<1> QED BY <1>2, <1>3 DEF Change

\* Writing a fact makes it new, and the oldest age there is may be that.
LEMMA FreshAge == 0 \in 0..MaxAge
<1>1. MaxAge \in Nat
  BY FactReviewAssumption
<1> QED BY <1>1

LEMMA NewReviewAgrees == NewReview \in Review /\ ReviewAgrees(NewReview)
BY DEF NewReview, Review, ReviewAgrees, Verdicts

-------------------------------------------------------------------------------
LEMMA FactReviewInvInit == FactReviewInit => FactReviewInv
BY FactReviewAssumption
   DEF FactReviewInit, FactReviewInv, FactReviewTypeOK, Accounted, PolicyStays, CallReads,
       IdleCall, ReviewCall

\* Judging: the verification has no run yet, and the policy it saw is the stored one.
LEMMA JudgeKeeps ==
    ASSUME FactReviewInv, NEW v \in FactVerifications, Judge(v)
    PROVE  FactReviewInv'
<1> DEFINE judgement == [strategy |-> Strategy(ActivePolicy), freshness |-> Freshness(age),
                         policy |-> ActivePolicy, stored |-> policyRow # Nothing]
<1>1. /\ judgement \in Judgement /\ judgement # Nothing
      /\ judgement.stored => policyRow = judgement.policy
  BY JudgementType, FactReviewAssumption DEF FactReviewInv, FactReviewTypeOK
<1>2. /\ judged' = [judged EXCEPT ![v] = judgement]
      /\ verification' = [verification EXCEPT ![v] = "judged"] /\ verification[v] = "idle"
      /\ UNCHANGED <<policyRow, documentEvidence, age, runs, snapshots, factReviews, call>>
  BY DEF Judge
<1> HIDE DEF judgement
<1>0. FactReviewTypeOK
  BY DEF FactReviewInv
<1>3. FactReviewTypeOK'
  BY <1>0, <1>1, <1>2 DEF FactReviewTypeOK
<1>4. \A w \in FactVerifications : Accounted(w)' /\ PolicyStays(w)'
  <2> SUFFICES ASSUME NEW w \in FactVerifications PROVE Accounted(w)' /\ PolicyStays(w)'
    OBVIOUS
  <2>1. /\ judged'[w] = IF w = v THEN judgement ELSE judged[w]
        /\ verification'[w] = IF w = v THEN "judged" ELSE verification[w]
    BY <1>0, <1>2 DEF FactReviewTypeOK
  <2>2. Accounted(w) /\ PolicyStays(w)
    BY DEF FactReviewInv
  <2>3. UNCHANGED <<policyRow, runs, snapshots>> /\ verification[v] = "idle"
    BY <1>2
  <2>4. CASE w = v
    BY <1>1, <2>1, <2>2, <2>3, <2>4 DEF Accounted, PolicyStays
  <2>5. CASE w # v
    BY <2>1, <2>2, <2>3, <2>5 DEF Accounted, PolicyStays
  <2> QED BY <2>4, <2>5
<1> QED BY <1>2, <1>3, <1>4 DEF FactReviewInv, CallReads

LEMMA SnapshotKeeps ==
    ASSUME FactReviewInv, NEW v \in FactVerifications, TakeSnapshot(v)
    PROVE  FactReviewInv'
<1> USE DEF FactReviewInv, FactReviewTypeOK
<1> DEFINE snapshot == [freshness |-> judged[v].freshness, policy |-> judged[v].policy]
<1>1. judged[v] \in Judgement /\ verification[v] = "judged"
  BY DEF TakeSnapshot, Accounted
<1>2. snapshot \in SnapshotRow
  BY <1>1 DEF Judgement, SnapshotRow
<1>3. /\ snapshots' = [snapshots EXCEPT ![v] = snapshot]
      /\ verification' = [verification EXCEPT ![v] = "snapshot taken"]
      /\ UNCHANGED <<policyRow, documentEvidence, age, judged, runs, factReviews, call>>
  BY DEF TakeSnapshot
<1>4. FactReviewTypeOK'
  <2> HIDE DEF snapshot
  <2> QED BY <1>2, <1>3
<1>5. \A w \in FactVerifications : Accounted(w)' /\ PolicyStays(w)'
  <2> SUFFICES ASSUME NEW w \in FactVerifications PROVE Accounted(w)' /\ PolicyStays(w)'
    OBVIOUS
  <2>1. /\ snapshots'[w] = IF w = v THEN snapshot ELSE snapshots[w]
        /\ verification'[w] = IF w = v THEN "snapshot taken" ELSE verification[w]
    BY <1>3
  <2> QED BY <1>1, <1>3, <2>1 DEF Accounted, PolicyStays
<1> QED BY <1>3, <1>4, <1>5 DEF CallReads

LEMMA CommitKeeps ==
    ASSUME FactReviewInv, NEW v \in FactVerifications, CommitVerification(v)
    PROVE  FactReviewInv'
<1> USE DEF FactReviewInv, FactReviewTypeOK
<1> DEFINE asked == IF NeedsReview(v) THEN NewReview ELSE Nothing
<1>1. /\ judged[v] \in Judgement /\ verification[v] = "snapshot taken"
      /\ snapshots[v] = [freshness |-> judged[v].freshness, policy |-> judged[v].policy]
  BY DEF CommitVerification, Accounted
<1>2. asked \in Review \cup {Nothing} /\ (asked # Nothing => ReviewAgrees(asked))
  BY NewReviewAgrees
<1>3. /\ runs' = [runs EXCEPT ![v] = judged[v]]
      /\ factReviews' = [factReviews EXCEPT ![v] = asked]
      /\ age' = 0 /\ verification' = [verification EXCEPT ![v] = "done"]
      /\ UNCHANGED <<policyRow, documentEvidence, judged, snapshots, call>>
  BY DEF CommitVerification
<1> HIDE DEF asked
<1>4. FactReviewTypeOK'
  <2>1. 0 \in 0..MaxAge
    BY FreshAge
  <2>2. runs' \in [FactVerifications -> Judgement \cup {Nothing}]
    BY <1>1, <1>3
  <2>3. factReviews' \in [FactVerifications -> Review \cup {Nothing}]
    BY <1>2, <1>3
  <2>4. verification' \in [FactVerifications ->
          {"idle", "judged", "snapshot taken", "done", "failed"}]
    BY <1>3
  <2> QED BY <1>3, <2>1, <2>2, <2>3, <2>4
<1>5. \A w \in FactVerifications : Accounted(w)' /\ PolicyStays(w)'
  <2> SUFFICES ASSUME NEW w \in FactVerifications PROVE Accounted(w)' /\ PolicyStays(w)'
    OBVIOUS
  <2>1. /\ runs'[w] = IF w = v THEN judged[v] ELSE runs[w]
        /\ verification'[w] = IF w = v THEN "done" ELSE verification[w]
        /\ judged[v] # Nothing
    BY <1>1, <1>3, FactReviewAssumption
  <2> QED BY <1>1, <1>3, <2>1 DEF Accounted, PolicyStays
<1>6. \A w \in FactVerifications : factReviews'[w] # Nothing => ReviewAgrees(factReviews'[w])
  BY <1>2, <1>3
<1> QED BY <1>3, <1>4, <1>5, <1>6 DEF CallReads

LEMMA RollBackKeeps ==
    ASSUME FactReviewInv, NEW v \in FactVerifications, RollBack(v)
    PROVE  FactReviewInv'
<1> USE DEF FactReviewInv, FactReviewTypeOK, RollBack
<1>1. FactReviewTypeOK'
  OBVIOUS
<1>2. \A w \in FactVerifications : Accounted(w)' /\ PolicyStays(w)'
  BY DEF Accounted, PolicyStays
<1> QED BY <1>1, <1>2 DEF CallReads

\* What an officer's call has read is a review as it is stored at that moment.
LEMMA FindKeeps ==
    ASSUME FactReviewInv, NEW c \in ReviewCalls, FindReview(c)
    PROVE  FactReviewInv'
<1> USE DEF FactReviewInv
<1>1. /\ call[c] \in ReviewCall /\ call[c].step = "idle"
      /\ UNCHANGED <<policyRow, documentEvidence, age, judged, runs, snapshots, factReviews,
                     verification>>
  BY DEF FindReview, FactReviewTypeOK
<1> DEFINE Finds(found) ==
             /\ call' = [call EXCEPT ![c] = found]
             /\ found.step = "found" =>
                   /\ found.of \in FactVerifications /\ found.change \in Change
                   /\ found.read \in Review /\ ReviewAgrees(found.read)
<1>2. PICK found \in ReviewCall : Finds(found)
  <2>1. CASE call' = [call EXCEPT ![c].step = "refused"]
    <3> DEFINE refused == [call[c] EXCEPT !.step = "refused"]
    <3>1. refused \in ReviewCall /\ refused.step = "refused" /\ call' = [call EXCEPT ![c] = refused]
      BY <1>1, <2>1 DEF ReviewCall
    <3> HIDE DEF refused
    <3>2. Finds(refused)
      BY <3>1
    <3> QED BY <3>1, <3>2
  <2>2. ASSUME NEW v \in FactVerifications, NEW change \in Change, factReviews[v] # Nothing,
               call' = [call EXCEPT ![c] = [step |-> "found", of |-> v, change |-> change,
                                            read |-> factReviews[v]]]
        PROVE  \E found \in ReviewCall : Finds(found)
    <3>1. factReviews[v] \in Review /\ ReviewAgrees(factReviews[v])
      BY <2>2 DEF FactReviewTypeOK
    <3> DEFINE found == [step |-> "found", of |-> v, change |-> change, read |-> factReviews[v]]
    <3>2. /\ found \in ReviewCall /\ call' = [call EXCEPT ![c] = found]
          /\ found.of = v /\ found.change = change /\ found.read = factReviews[v]
      BY <2>2, <3>1 DEF ReviewCall
    <3> HIDE DEF found
    <3>3. Finds(found)
      BY <3>1, <3>2
    <3> QED BY <3>2, <3>3
  <2> HIDE DEF Finds
  <2> QED BY <2>1, <2>2 DEF FindReview
<1>3. FactReviewTypeOK'
  BY <1>1, <1>2 DEF FactReviewTypeOK
<1>4. \A d \in ReviewCalls : CallReads(d)'
  BY <1>1, <1>2 DEF CallReads, FactReviewTypeOK
<1> QED BY <1>1, <1>3, <1>4 DEF Accounted, PolicyStays

LEMMA UpdateReviewKeeps ==
    ASSUME FactReviewInv, NEW c \in ReviewCalls, UpdateReview(c)
    PROVE  FactReviewInv'
<1> USE DEF FactReviewInv
<1> DEFINE updated == Updated(call[c].read, call[c].change)
           done == [IdleCall EXCEPT !.step = "done"]
<1>1. call[c].of \in FactVerifications /\ updated \in Review /\ ReviewAgrees(updated)
  BY UpdatedAgrees DEF UpdateReview, CallReads
<1>2. done \in ReviewCall /\ done.step = "done"
  BY DEF IdleCall, ReviewCall
<1>3. /\ factReviews' = [factReviews EXCEPT ![call[c].of] = updated]
      /\ call' = [call EXCEPT ![c] = done]
      /\ UNCHANGED <<policyRow, documentEvidence, age, judged, runs, snapshots, verification>>
  BY DEF UpdateReview
<1> HIDE DEF updated, done
<1>4. FactReviewTypeOK'
  BY <1>1, <1>2, <1>3 DEF FactReviewTypeOK
<1>5. \A d \in ReviewCalls : CallReads(d)'
  BY <1>2, <1>3 DEF CallReads, FactReviewTypeOK
<1>6. \A w \in FactVerifications : factReviews'[w] # Nothing => ReviewAgrees(factReviews'[w])
  BY <1>1, <1>3 DEF FactReviewTypeOK
<1> QED BY <1>3, <1>4, <1>5, <1>6 DEF Accounted, PolicyStays

LEMMA FactAgesKeeps == ASSUME FactReviewInv, FactAges PROVE FactReviewInv'
<1>1. age \in 0..MaxAge /\ age < MaxAge /\ age' = age + 1
  BY DEF FactAges, FactReviewInv, FactReviewTypeOK
<1>2. age' \in 0..MaxAge
  BY <1>1, FactReviewAssumption
<1>3. UNCHANGED <<policyRow, documentEvidence, judged, runs, snapshots, factReviews,
                  verification, call>>
  BY DEF FactAges
<1> QED BY <1>2, <1>3
        DEF FactReviewInv, FactReviewTypeOK, Accounted, PolicyStays, CallReads

\* A policy that a judgement refers to is stored, and the seeds leave it.
LEMMA SeedKeeps == ASSUME FactReviewInv, SeedPolicy PROVE FactReviewInv'
<1> USE DEF FactReviewInv, FactReviewTypeOK
<1>1. /\ policyRow' = IF policyRow = Nothing THEN MinimumTrust ELSE policyRow
      /\ UNCHANGED <<documentEvidence, age, judged, runs, snapshots, factReviews, verification, call>>
  BY DEF SeedPolicy, Seeded
<1>2. FactReviewTypeOK'
  BY <1>1, FactReviewAssumption
<1>3. \A v \in FactVerifications : Accounted(v)' /\ PolicyStays(v)'
  <2> SUFFICES ASSUME NEW v \in FactVerifications PROVE Accounted(v)' /\ PolicyStays(v)'
    OBVIOUS
  <2>1. judged[v] # Nothing => judged[v].policy \in Nat /\ Nothing \notin Nat
    BY FactReviewAssumption DEF Judgement
  <2> QED BY <1>1, <2>1 DEF Accounted, PolicyStays
<1> QED BY <1>1, <1>2, <1>3 DEF CallReads

LEMMA FactReviewInvStep == FactReviewInv /\ [FactReviewNext]_reviewVars => FactReviewInv'
<1> SUFFICES ASSUME FactReviewInv, [FactReviewNext]_reviewVars PROVE FactReviewInv'
  OBVIOUS
<1>1. ASSUME NEW v \in FactVerifications,
             Judge(v) \/ TakeSnapshot(v) \/ CommitVerification(v) \/ RollBack(v)
      PROVE  FactReviewInv'
  BY <1>1, JudgeKeeps, SnapshotKeeps, CommitKeeps, RollBackKeeps
<1>2. ASSUME NEW c \in ReviewCalls, FindReview(c) \/ UpdateReview(c) PROVE FactReviewInv'
  BY <1>2, FindKeeps, UpdateReviewKeeps
<1>3. CASE FactAges
  BY <1>3, FactAgesKeeps
<1>4. CASE SeedPolicy
  BY <1>4, SeedKeeps
<1>5. CASE UNCHANGED reviewVars
  BY <1>5 DEF reviewVars, FactReviewInv, FactReviewTypeOK, Accounted, PolicyStays, CallReads
<1> QED BY <1>1, <1>2, <1>3, <1>4, <1>5 DEF FactReviewNext

\* The inductive invariant: what is recorded of each verification, and what the officers
\* have read, agree, whatever evidence there is and however many verifications overlap.
THEOREM FactReviewInvariance == FactReviewSpec => []FactReviewInv
BY FactReviewInvInit, FactReviewInvStep, PTL DEF FactReviewSpec

\* The types of the verifications' rows, the reviews and the officers' calls.
THEOREM FactReviewTypeCorrectness == FactReviewSpec => []FactReviewTypeOK
<1>1. FactReviewInv => FactReviewTypeOK
  BY DEF FactReviewInv
<1> QED BY <1>1, FactReviewInvariance, PTL

\* A committed verification that a stored policy judged replays to what it found, and the
\* review it asked for says of itself only what an officer said.
THEOREM VerificationIsAccountable == FactReviewSpec => []VerificationAccountable
<1>1. FactReviewInv => VerificationAccountable
  <2> SUFFICES ASSUME FactReviewInv, NEW v \in FactVerifications, runs[v] # Nothing
               PROVE  /\ runs[v].stored => Replays(v)
                      /\ factReviews[v] # Nothing => ReviewAgrees(factReviews[v])
    BY DEF VerificationAccountable
  <2>1. /\ runs[v] = judged[v] /\ judged[v] \in Judgement
        /\ snapshots[v] = [freshness |-> judged[v].freshness, policy |-> judged[v].policy]
    BY DEF FactReviewInv, FactReviewTypeOK, Accounted
  <2>2. snapshots[v] \in SnapshotRow
    BY <2>1 DEF SnapshotRow, Judgement
  <2>3. snapshots[v] # Nothing /\ judged[v] # Nothing
    BY <2>1, <2>2, FactReviewAssumption
  <2> QED BY <2>1, <2>3 DEF FactReviewInv, Replays, PolicyStays
<1> QED BY <1>1, FactReviewInvariance, PTL

-------------------------------------------------------------------------------
(* The routing of a notice.  A handler reads policy, preferences and template at
   different moments; the invariant says of each what the reading is still worth. *)

(* The invariant *)

\* What a handler may use: the channels of the policy row it read.
Allowed(n) == CandidateChannels(InForce(policyRead[n]))

\* Nothing is chosen before the channels are resolved, and no policy is read twice.
FreshInv == \A n \in Notices :
    /\ step[n] = "received" => policyRead[n] = NoRow
    /\ step[n] \in {"received", "policy read"} => resolved[n] = {}

\* A version, once written, is never written again.
PolicyInv == \A n \in Notices : PolicyAsRead(n)

\* What is on now is remembered by every handler that has begun.
OnInv == \A n \in Notices : step[n] # "received" => On(preferences) \subseteq onDuring[n]

ChannelInv == \A n \in Notices :
    /\ step[n] = "resolving" => pending[n] \subseteq Allowed(n)
    /\ resolved[n] \ {"IN_APP"} \subseteq onDuring[n] \cap Allowed(n)
    /\ step[n] \in {"rendered", "stored"} => "IN_APP" \in resolved[n]

RenderInv == \A n \in Notices : step[n] \in {"rendered", "stored"} => ReplayVerifies(n)

RoutingInv == RoutingTypeOK /\ FreshInv /\ PolicyInv /\ OnInv /\ ChannelInv /\ RenderInv

-------------------------------------------------------------------------------
(* What the decisions return *)

\* The channels of a policy, and those of the default policy, are channels.
LEMMA CandidatesAreChannels ==
    ASSUME NEW row \in Policies \cup {NoRow}
    PROVE  CandidateChannels(InForce(row)) \subseteq Channels
BY RoutingAssumption DEF CandidateChannels, InForce, DefaultPolicy, Channels, Priority

\* Adding a version keeps the others, and keeps a version that is there.
LEMMA AddedKeeps ==
    ASSUME NEW D, NEW rows, rows = [v \in D |-> rows[v]], NEW version \in D, NEW row
    PROVE  \A v \in D : rows[v] # NoRow => Added(rows, version, row)[v] = rows[v]
BY DEF Added

-------------------------------------------------------------------------------
(* Types *)

LEMMA RoutingTypeInit == RoutingInit => RoutingTypeOK
BY RoutingAssumption
   DEF RoutingInit, RoutingTypeOK, Preference, PreferenceStatus, NoPreference, RoutingSteps, Minutes

LEMMA RoutingTypeStep == RoutingTypeOK /\ [RoutingNext]_routingVars => RoutingTypeOK'
<1> SUFFICES ASSUME RoutingTypeOK, [RoutingNext]_routingVars PROVE RoutingTypeOK'
    OBVIOUS
<1> USE DEF RoutingTypeOK
<1>1. ASSUME NEW n \in Notices, ReadPolicy(n) PROVE RoutingTypeOK'
  <2>1. policies[Concern[n].policyVersion] \in Policies \cup {NoRow}
    BY RoutingAssumption
  <2>2. On(preferences) \subseteq Channels
    BY DEF On
  <2> QED BY <1>1, <2>1, <2>2 DEF ReadPolicy, RoutingSteps
<1>2. ASSUME NEW n \in Notices, CheckQuietHours(n) PROVE RoutingTypeOK'
  <2>1. CandidateChannels(InForce(policyRead[n])) \subseteq Channels
    BY CandidatesAreChannels
  <2> QED BY <1>2, <2>1 DEF CheckQuietHours, RoutingSteps
<1>3. ASSUME NEW n \in Notices, ReadChannel(n) PROVE RoutingTypeOK'
  BY <1>3 DEF ReadChannel
<1>4. ASSUME NEW n \in Notices, RenderNotice(n) PROVE RoutingTypeOK'
  <2>1. templates[1] \in Texts \cup {NoRow} /\ 1 \in TemplateVersions
    BY RoutingAssumption
  <2>2. resolved' \in [Notices -> SUBSET Channels]
    BY <1>4 DEF RenderNotice, Channels
  <2>3. step' \in [Notices -> RoutingSteps]
    BY <1>4, ZenonT(40) DEF RenderNotice, RoutingSteps
  <2>4. rendering' \in [Notices -> [text : Texts, version : TemplateVersions] \cup {NoRow}]
    BY <1>4, <2>1 DEF RenderNotice, Renders, Rendered
  <2> QED BY <1>4, <2>2, <2>3, <2>4 DEF RenderNotice
<1>5. ASSUME NEW n \in Notices, StoreNotice(n) PROVE RoutingTypeOK'
  BY <1>5 DEF StoreNotice, RoutingSteps
<1>6. ASSUME NEW c \in Channels, UpdatePreference(c) PROVE RoutingTypeOK'
  <2>1. preferences[c] \in Preference
    OBVIOUS
  <2>2. preferences' \in [Channels -> Preference]
    BY <1>6, <2>1 DEF UpdatePreference, Preference, Given, PreferenceStatus
  <2>3. onDuring' \in [Notices -> SUBSET Channels]
    BY <1>6 DEF UpdatePreference, On
  <2> QED BY <1>6, <2>2, <2>3 DEF UpdatePreference
<1>7. CASE Officer
  <2>1. ASSUME NEW v \in PolicyVersions, CreatePolicyVersion(v) PROVE RoutingTypeOK'
    BY <2>1 DEF CreatePolicyVersion, Added
  <2>2. ASSUME NEW v \in TemplateVersions, CreateTemplateVersion(v) PROVE RoutingTypeOK'
    BY <2>2 DEF CreateTemplateVersion, Added
  <2> QED BY <1>7, <2>1, <2>2 DEF Officer
<1>8. CASE TimePasses
  <2>1. minute' \in Minutes
    BY <1>8, RoutingAssumption DEF TimePasses, Minutes
  <2> QED BY <1>8, <2>1 DEF TimePasses
<1>9. CASE UNCHANGED routingVars
  BY <1>9 DEF routingVars
<1> QED BY <1>1, <1>2, <1>3, <1>4, <1>5, <1>6, <1>7, <1>8, <1>9 DEF RoutingNext, Handle

-------------------------------------------------------------------------------
(* The steps keep the invariant *)

\* Only officers write policies and templates, and only where there is no row.
LEMMA RowsKept ==
    ASSUME RoutingTypeOK, [RoutingNext]_routingVars
    PROVE  /\ \A v \in PolicyVersions : policies[v] # NoRow => policies'[v] = policies[v]
           /\ \A v \in TemplateVersions : templates[v] # NoRow => templates'[v] = templates[v]
<1>1. ASSUME NEW n \in Notices, Handle(n) PROVE policies' = policies /\ templates' = templates
  BY <1>1 DEF Handle, ReadPolicy, CheckQuietHours, ReadChannel, RenderNotice, StoreNotice
<1>2. ASSUME NEW c \in Channels, UpdatePreference(c)
      PROVE policies' = policies /\ templates' = templates
  BY <1>2 DEF UpdatePreference
<1>3. CASE TimePasses \/ UNCHANGED routingVars
  BY <1>3 DEF TimePasses, routingVars
<1>4. ASSUME NEW v \in PolicyVersions, CreatePolicyVersion(v)
      PROVE /\ \A w \in PolicyVersions : policies[w] # NoRow => policies'[w] = policies[w]
            /\ templates' = templates
  BY <1>4, AddedKeeps DEF CreatePolicyVersion, RoutingTypeOK
<1>5. ASSUME NEW v \in TemplateVersions, CreateTemplateVersion(v)
      PROVE /\ \A w \in TemplateVersions : templates[w] # NoRow => templates'[w] = templates[w]
            /\ policies' = policies
  BY <1>5, AddedKeeps DEF CreateTemplateVersion, RoutingTypeOK
<1> QED BY <1>1, <1>2, <1>3, <1>4, <1>5 DEF RoutingNext, Officer

\* A rendering stays worth replaying: what it was made from is a row.
LEMMA ReplayKept ==
    ASSUME RoutingTypeOK, [RoutingNext]_routingVars, NEW n \in Notices,
           ReplayVerifies(n), rendering'[n] = rendering[n]
    PROVE  ReplayVerifies(n)'
<1>1. rendering[n].version \in TemplateVersions
  BY DEF ReplayVerifies, RoutingTypeOK
<1>2. templates'[rendering[n].version] = templates[rendering[n].version]
  BY <1>1, RowsKept DEF ReplayVerifies, Renders
<1> QED BY <1>2 DEF ReplayVerifies, Renders, Rendered

\* A step that leaves the handlers alone keeps what is said of them.
LEMMA OthersKeep ==
    ASSUME RoutingInv, [RoutingNext]_routingVars,
           UNCHANGED <<step, policyRead, pending, resolved, rendering>>,
           \A n \in Notices : onDuring[n] \subseteq onDuring'[n],
           \A n \in Notices : On(preferences) \subseteq onDuring[n]
                                 => On(preferences') \subseteq onDuring'[n]
    PROVE  (FreshInv /\ PolicyInv /\ OnInv /\ ChannelInv /\ RenderInv)'
<1> USE DEF RoutingInv
<1>1. FreshInv'
  BY DEF FreshInv
<1>2. PolicyInv'
  <2> SUFFICES ASSUME NEW n \in Notices PROVE PolicyAsRead(n)'
    BY DEF PolicyInv
  <2>1. Concern[n].policyVersion \in PolicyVersions
    BY RoutingAssumption
  <2> QED BY <2>1, RowsKept DEF PolicyInv, PolicyAsRead
<1>3. OnInv'
  BY DEF OnInv
<1>4. ChannelInv'
  BY DEF ChannelInv, Allowed
<1>5. RenderInv'
  BY ReplayKept DEF RenderInv
<1> QED BY <1>1, <1>2, <1>3, <1>4, <1>5

LEMMA RoutingInvStep == RoutingInv /\ [RoutingNext]_routingVars => RoutingInv'
<1> SUFFICES ASSUME RoutingInv, [RoutingNext]_routingVars PROVE RoutingInv'
    OBVIOUS
<1>0. RoutingTypeOK /\ RoutingTypeOK'
  BY RoutingTypeStep DEF RoutingInv
<1> SUFFICES (FreshInv /\ PolicyInv /\ OnInv /\ ChannelInv /\ RenderInv)'
  BY <1>0 DEF RoutingInv
<1> USE DEF RoutingInv
<1>1. ASSUME NEW n \in Notices, ReadPolicy(n)
      PROVE (FreshInv /\ PolicyInv /\ OnInv /\ ChannelInv /\ RenderInv)'
  <2> USE <1>0, <1>1 DEF ReadPolicy, RoutingTypeOK
  <2>1. FreshInv'
    BY DEF FreshInv
  <2>2. PolicyInv'
    BY DEF PolicyInv, PolicyAsRead
  <2>3. OnInv'
    BY DEF OnInv, On
  <2>4. ChannelInv'
    BY ZenonT(40) DEF ChannelInv, FreshInv, Allowed
  <2>5. RenderInv'
    BY DEF RenderInv, ReplayVerifies
  <2> QED BY <2>1, <2>2, <2>3, <2>4, <2>5
<1>2. ASSUME NEW n \in Notices, CheckQuietHours(n)
      PROVE (FreshInv /\ PolicyInv /\ OnInv /\ ChannelInv /\ RenderInv)'
  <2> USE <1>0, <1>2 DEF CheckQuietHours, RoutingTypeOK
  <2>1. FreshInv'
    BY ZenonT(40) DEF FreshInv
  <2>2. PolicyInv'
    BY DEF PolicyInv, PolicyAsRead
  <2>3. OnInv'
    BY DEF OnInv, On
  <2>4. ChannelInv'
    <3>1. \A m \in Notices : m # n => step'[m] = step[m] /\ pending'[m] = pending[m]
      OBVIOUS
    <3>2. step'[n] = "resolving" => pending'[n] = Allowed(n)
      BY DEF Allowed
    <3>3. step'[n] \notin {"rendered", "stored"}
      OBVIOUS
    <3> QED BY <3>1, <3>2, <3>3, ZenonT(40) DEF ChannelInv, Allowed
  <2>5. RenderInv'
    BY ZenonT(40) DEF RenderInv, ReplayVerifies
  <2> QED BY <2>1, <2>2, <2>3, <2>4, <2>5
<1>3. ASSUME NEW n \in Notices, ReadChannel(n)
      PROVE (FreshInv /\ PolicyInv /\ OnInv /\ ChannelInv /\ RenderInv)'
  <2> USE <1>0, <1>3 DEF ReadChannel, RoutingTypeOK
  <2>1. FreshInv'
    BY DEF FreshInv
  <2>2. PolicyInv'
    BY DEF PolicyInv, PolicyAsRead
  <2>3. OnInv'
    BY DEF OnInv, On
  <2>4. ChannelInv'
    <3>1. PICK c \in pending[n] :
            /\ pending' = [pending EXCEPT ![n] = @ \ {c}]
            /\ resolved' = [resolved EXCEPT ![n] =
                  IF preferences[c].status # "DISABLED" THEN @ \cup {c} ELSE @]
      OBVIOUS
    <3>2. c \in Allowed(n) /\ c \in Channels
      BY DEF ChannelInv
    <3>3. preferences[c].status # "DISABLED" => c \in onDuring[n]
      BY <3>2 DEF OnInv, On
    <3>4. \A m \in Notices : m # n => pending'[m] = pending[m] /\ resolved'[m] = resolved[m]
      BY <3>1
    <3>5. pending'[n] \subseteq Allowed(n) /\ resolved'[n] \ {"IN_APP"} \subseteq onDuring[n] \cap Allowed(n)
      BY <3>1, <3>2, <3>3 DEF ChannelInv
    <3> QED BY <3>4, <3>5 DEF ChannelInv, Allowed
  <2>5. RenderInv'
    BY DEF RenderInv, ReplayVerifies
  <2> QED BY <2>1, <2>2, <2>3, <2>4, <2>5
<1>4. ASSUME NEW n \in Notices, RenderNotice(n)
      PROVE (FreshInv /\ PolicyInv /\ OnInv /\ ChannelInv /\ RenderInv)'
  <2> USE <1>0, <1>4 DEF RenderNotice, RoutingTypeOK
  <2>1. FreshInv'
    BY ZenonT(40) DEF FreshInv
  <2>2. PolicyInv'
    BY DEF PolicyInv, PolicyAsRead
  <2>3. OnInv'
    BY DEF OnInv, On
  <2>4. ChannelInv'
    BY DEF ChannelInv, Allowed
  <2>5. RenderInv'
    <3>1. \A m \in Notices : m # n => step'[m] = step[m] /\ rendering'[m] = rendering[m]
      OBVIOUS
    <3>2. ASSUME step'[n] = "rendered" PROVE ReplayVerifies(n)'
      <4>1. Renders(templates[1]) /\ rendering'[n] = Rendered(templates[1], 1)
        BY <3>2
      <4>2. rendering'[n] \in [text : Texts, version : TemplateVersions]
        BY <4>1, RoutingAssumption DEF Renders, Rendered
      <4> QED BY <4>1, <4>2, RoutingAssumption DEF ReplayVerifies, Renders, Rendered
    <3>3. step'[n] # "stored"
      OBVIOUS
    <3> QED BY <3>1, <3>2, <3>3 DEF RenderInv, ReplayVerifies
  <2> QED BY <2>1, <2>2, <2>3, <2>4, <2>5
<1>5. ASSUME NEW n \in Notices, StoreNotice(n)
      PROVE (FreshInv /\ PolicyInv /\ OnInv /\ ChannelInv /\ RenderInv)'
  <2> USE <1>0, <1>5 DEF StoreNotice, RoutingTypeOK
  <2>1. FreshInv'
    BY DEF FreshInv
  <2>2. PolicyInv'
    BY DEF PolicyInv, PolicyAsRead
  <2>3. OnInv'
    BY DEF OnInv, On
  <2>4. ChannelInv'
    BY DEF ChannelInv, Allowed
  <2>5. RenderInv'
    BY DEF RenderInv, ReplayVerifies
  <2> QED BY <2>1, <2>2, <2>3, <2>4, <2>5
<1>6. ASSUME NEW c \in Channels, UpdatePreference(c)
      PROVE (FreshInv /\ PolicyInv /\ OnInv /\ ChannelInv /\ RenderInv)'
  <2>1. \A n \in Notices : onDuring'[n] = onDuring[n] \cup On(preferences')
    BY <1>0, <1>6 DEF UpdatePreference, On
  <2>2. UNCHANGED <<step, policyRead, pending, resolved, rendering>>
    BY <1>6 DEF UpdatePreference
  <2>3. \A n \in Notices : onDuring[n] \subseteq onDuring'[n] /\ On(preferences') \subseteq onDuring'[n]
    BY <2>1
  <2> QED BY <2>2, <2>3, OthersKeep DEF RoutingInv
<1>7. CASE Officer \/ TimePasses \/ UNCHANGED routingVars
  <2>1. UNCHANGED <<step, policyRead, pending, resolved, rendering, onDuring, preferences>>
    BY <1>7 DEF Officer, CreatePolicyVersion, CreateTemplateVersion, TimePasses, routingVars
  <2>2. \A n \in Notices : onDuring'[n] = onDuring[n] /\ On(preferences') = On(preferences)
    BY <2>1
  <2> QED BY <2>1, <2>2, OthersKeep DEF RoutingInv
<1> QED BY <1>1, <1>2, <1>3, <1>4, <1>5, <1>6, <1>7 DEF RoutingNext, Handle

LEMMA RoutingInvInit == RoutingInit => RoutingInv
BY RoutingTypeInit
   DEF RoutingInit, RoutingInv, FreshInv, PolicyInv, PolicyAsRead, OnInv, ChannelInv, RenderInv

-------------------------------------------------------------------------------
(* Theorems *)

\* The invariant above holds in every reachable state, for any notices, policies and texts.
THEOREM RoutingInvariance == RoutingSpec => []RoutingInv
BY RoutingInvInit, RoutingInvStep, PTL DEF RoutingSpec

\* The types of the rows and of what the handlers remember.
THEOREM RoutingTypeCorrectness == RoutingSpec => []RoutingTypeOK
<1>1. RoutingInv => RoutingTypeOK
  BY DEF RoutingInv
<1> QED BY <1>1, RoutingInvariance, PTL

\* A stored notification goes out in the application and only on channels its policy
\* version allows and the citizen kept on, and replays to the text it was sent with.
THEOREM RoutingIsAsChosen == RoutingSpec => []RoutedAsChosen
<1>1. RoutingInv => RoutedAsChosen
  BY DEF RoutingInv, RoutedAsChosen, PolicyInv, ChannelInv, ChannelsChosen, Allowed, RenderInv
<1> QED BY <1>1, RoutingInvariance, PTL

-------------------------------------------------------------------------------
(* The small instance *)

IntakeInv == AuthInv /\ OnboardingInv /\ QuestionsInv /\ ProfileInv /\ FactReviewInv /\ RoutingInv

\* Whatever a behaviour of the small instance exercises, each component takes a step of
\* its own or none.
THEOREM IntakeInvariance == Spec => []IntakeInv
<1>1. Init => IntakeInv
  BY AuthInvInit, OnboardingInvInit, QuestionsInvInit, ProfileInvInit, FactReviewInvInit,
     RoutingInvInit
     DEF Init, IntakeInv
<1>2. IntakeInv /\ [Next]_allVars => IntakeInv'
  <2> SUFFICES ASSUME IntakeInv, [Next]_allVars PROVE IntakeInv'
    OBVIOUS
  <2>1. /\ [AuthNext]_authVars /\ [OnboardingNext]_onboardingVars
        /\ [QuestionNext]_questionVars /\ [ProfileNext]_profileVars
        /\ [FactReviewNext]_reviewVars /\ [RoutingNext]_routingVars
    BY DEF Next, NextStep, NoticesNext, allVars
  <2> QED BY <2>1, AuthInvStep, OnboardingInvStep, QuestionsInvStep, ProfileInvStep,
             FactReviewInvStep, RoutingInvStep
             DEF IntakeInv
<1> QED BY <1>1, <1>2, PTL DEF Spec

\* Every component of the small instance keeps its types.
THEOREM IntakeTypeCorrectness == Spec => []TypeOK
<1>1. IntakeInv => TypeOK
  BY DEF IntakeInv, TypeOK, AuthInv, OnboardingInv, ProfileInv, FactReviewInv, RoutingInv
<1> QED BY <1>1, IntakeInvariance, PTL
===============================================================================

---------------------------- MODULE Authentication ----------------------------
(* One user of the platform and the refresh sessions of that user:             *)
(*   auth.service.ts                 login, refresh, logout, revokeSession      *)
(*   prisma-user.repository.ts       incrementFailedLogin, resetFailedLogin     *)
(*   prisma-session.repository.ts    createSession, findByTokenHash, ...        *)
(*                                                                             *)
(* A request is one call of the service; its database calls are steps of their *)
(* own.  A refresh token stands for the session it was issued with; one that   *)
(* does not verify is refused before the database is asked and is not modelled. *)
(* The clock matters only to the end of a lockout.                              *)
(*                                                                             *)
(* Left out: access tokens, roles, login history and events, which no step     *)
(* reads; lastLoginAt and version of the user; suspended users, which login     *)
(* refuses at once and nothing in the source creates.                          *)
EXTENDS Naturals, Sequences

CONSTANTS
    AuthRequests,       \* calls of the service
    MaxLoginAttempts    \* SecurityConfig.maxLoginAttempts

ASSUME AuthAssumption == MaxLoginAttempts \in Nat \ {0}

VARIABLES
    user,           \* the User row
    sessions,       \* the RefreshSession rows in the order of their creation
    authPc,         \* where each request is
    authLocal       \* what it remembers from its earlier calls

authVars == <<user, sessions, authPc, authLocal>>

-------------------------------------------------------------------------------
(* Types *)

UserStatus == {"ACTIVE", "LOCKED"}

\* accountLockedUntil: null, in the future, or past.
Lockout == {"none", "running", "over"}

UserRow == [failed : Nat, status : UserStatus, lockout : Lockout]

\* replaced: replacedByTokenId is set; origin: the session whose rotation created this
\* one (history), 0 for a login.
SessionRow == [revoked : BOOLEAN, deleted : BOOLEAN, replaced : BOOLEAN, origin : Nat]

AuthPC == {"idle", "countFailure", "storeFailure", "resetFailures", "createSession",
           "checkUser", "rotate", "reuse", "endSession", "done"}

AuthLocal == [user : UserRow, session : Nat]

NewUser == [failed |-> 0, status |-> "ACTIVE", lockout |-> "none"]

AuthInit ==
    /\ user = NewUser
    /\ sessions = <<>>
    /\ authPc = [r \in AuthRequests |-> "idle"]
    /\ authLocal = [r \in AuthRequests |-> [user |-> NewUser, session |-> 0]]

-------------------------------------------------------------------------------
(* Repository calls *)

\* login refuses a user while the lockout lasts.
LockedOut(row) == row.status = "LOCKED" /\ row.lockout = "running"

\* The status is forgotten.
CountedKeepingStatus(row) ==
    LET failed == row.failed + 1
    IN  [row EXCEPT !.failed = failed,
                    !.lockout = IF failed >= MaxLoginAttempts THEN "running" ELSE @]

\* incrementFailedLogin writes count, status and end of the lockout, all computed
\* from the row it read one call earlier.
Counted(row) ==
    LET failed == row.failed + 1
    IN  IF failed >= MaxLoginAttempts
        THEN [failed |-> failed, status |-> "LOCKED", lockout |-> "running"]
        ELSE [row EXCEPT !.failed = failed]

\* findByTokenHash: a session that was not deleted.
Found(s) == ~sessions[s].deleted
Usable(s) == Found(s) /\ ~sessions[s].revoked

\* revokeSession, with replacedByTokenId when the session is rotated.
Revoked(row) == [row EXCEPT !.revoked = TRUE]
RotatedKeepingValid(row) == [row EXCEPT !.replaced = TRUE]
Rotated(row) == [Revoked(row) EXCEPT !.replaced = TRUE]
\* softDelete
Deleted(row) == [Revoked(row) EXCEPT !.deleted = TRUE]
\* createSession
NewSession(origin) ==
    [revoked |-> FALSE, deleted |-> FALSE, replaced |-> FALSE, origin |-> origin]

\* revokeAllSessionsForUser: one updateMany over the sessions not yet revoked.
AllRevoked == [s \in DOMAIN sessions |-> Revoked(sessions[s])]

-------------------------------------------------------------------------------
(* Steps of a request *)

AuthGo(r, from, to) ==
    /\ authPc[r] = from
    /\ authPc' = [authPc EXCEPT ![r] = to]

Remember(r, s) == authLocal' = [authLocal EXCEPT ![r].session = s]

\* login: findByEmail, the lockout and the password.
Login(r) ==
    /\ IF LockedOut(user)
       THEN AuthGo(r, "idle", "done")
       ELSE \E next \in {"resetFailures", "countFailure"} : AuthGo(r, "idle", next)
    /\ UNCHANGED <<user, sessions, authLocal>>

\* incrementFailedLogin: findUnique ...
CountFailure(r) ==
    /\ AuthGo(r, "countFailure", "storeFailure")
    /\ authLocal' = [authLocal EXCEPT ![r].user = user]
    /\ UNCHANGED <<user, sessions>>

\* ... and update.
StoreFailure(r) ==
    /\ AuthGo(r, "storeFailure", "done")
    /\ user' = Counted(authLocal[r].user)
    /\ UNCHANGED <<sessions, authLocal>>

ResetFailures(r) ==
    /\ AuthGo(r, "resetFailures", "createSession")
    /\ user' = NewUser
    /\ UNCHANGED <<sessions, authLocal>>

\* Also the last step of refresh.
CreateSession(r) ==
    /\ AuthGo(r, "createSession", "done")
    /\ sessions' = Append(sessions, NewSession(authLocal[r].session))
    /\ UNCHANGED <<user, authLocal>>

\* refresh: findByTokenHash.
Refresh(r) == \E s \in DOMAIN sessions :
    /\ AuthGo(r, "idle", IF Usable(s) THEN "checkUser" ELSE "reuse")
    /\ Remember(r, s)
    /\ UNCHANGED <<user, sessions>>

\* A token used before: every session of the user ends.
EndReusedFamily(r) ==
    /\ AuthGo(r, "reuse", "done")
    /\ sessions' = AllRevoked
    /\ UNCHANGED <<user, authLocal>>

CheckUser(r) ==
    /\ AuthGo(r, "checkUser", IF user.status = "ACTIVE" THEN "rotate" ELSE "done")
    /\ UNCHANGED <<user, sessions, authLocal>>

Rotate(r) ==
    /\ AuthGo(r, "rotate", "createSession")
    /\ sessions' = [sessions EXCEPT ![authLocal[r].session] = Rotated(@)]
    /\ UNCHANGED <<user, authLocal>>

\* logout with a refresh token: findByTokenHash ...
LogoutSession(r) == \E s \in DOMAIN sessions :
    /\ AuthGo(r, "idle", IF Found(s) THEN "endSession" ELSE "done")
    /\ Remember(r, s)
    /\ UNCHANGED <<user, sessions>>

\* ... and revokeSession.
EndSession(r) ==
    /\ AuthGo(r, "endSession", "done")
    /\ sessions' = [sessions EXCEPT ![authLocal[r].session] = Revoked(@)]
    /\ UNCHANGED <<user, authLocal>>

\* logout without one.
LogoutEverywhere(r) ==
    /\ AuthGo(r, "idle", "done")
    /\ sessions' = AllRevoked
    /\ UNCHANGED <<user, authLocal>>

\* DELETE /auth/sessions/:id
RevokeSession(r) == \E s \in DOMAIN sessions :
    /\ AuthGo(r, "idle", "done")
    /\ sessions' = [sessions EXCEPT ![s] = Deleted(@)]
    /\ UNCHANGED <<user, authLocal>>

\* A call is rejected, or the process dies, between two calls.
FailAuth(r) ==
    /\ authPc[r] \notin {"idle", "done"}
    /\ authPc' = [authPc EXCEPT ![r] = "done"]
    /\ UNCHANGED <<user, sessions, authLocal>>

\* The clock reaches accountLockedUntil.
LockoutEnds ==
    /\ user.lockout = "running"
    /\ user' = [user EXCEPT !.lockout = "over"]
    /\ UNCHANGED <<sessions, authPc, authLocal>>

AuthStep(r) ==
    \/ Login(r) \/ CountFailure(r) \/ StoreFailure(r) \/ ResetFailures(r)
    \/ Refresh(r) \/ CheckUser(r) \/ Rotate(r) \/ CreateSession(r)
    \/ EndReusedFamily(r)
    \/ LogoutSession(r) \/ EndSession(r) \/ LogoutEverywhere(r) \/ RevokeSession(r)
    \/ FailAuth(r)

AuthNext == LockoutEnds \/ \E r \in AuthRequests : AuthStep(r)

AuthSpec == AuthInit /\ [][AuthNext]_authVars

-------------------------------------------------------------------------------
(* Properties *)

AuthTypeOK ==
    /\ user \in UserRow
    /\ sessions \in Seq(SessionRow)
    /\ authPc \in [AuthRequests -> AuthPC]
    /\ authLocal \in [AuthRequests -> AuthLocal]

\* Status, counter and end of the lockout always tell the same story, although
\* failures are counted in two calls, from rows that other requests may have
\* changed meanwhile: a locked user reached the limit and has an end of the lockout.
LockoutConsistent ==
    /\ user.status = "LOCKED" <=> user.lockout # "none"
    /\ user.status = "LOCKED" => user.failed >= MaxLoginAttempts

\* A session that was issued for another one replaces it: by the time it exists the
\* session it came from is revoked for good, whatever else happened in between.
SuccessorReplaces == \A s \in DOMAIN sessions :
    LET origin == sessions[s].origin
    IN  origin > 0 => /\ origin < s
                      /\ sessions[origin].revoked /\ sessions[origin].replaced
===============================================================================

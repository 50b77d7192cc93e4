-------------------------- MODULE NotificationOutbox --------------------------
(* The delivery outbox of the notification module:                            *)
(*   services/notification-outbox.service.ts        processDelivery           *)
(*   repositories/prisma-notification.repository.ts the delivery rows         *)
(*                                                                            *)
(* A worker is one running call of processDelivery; any number of them may     *)
(* run over the same rows.  Every await of the handler is a step of its own.   *)
(*                                                                            *)
(* Instants are kept as the time still to run (0: null, or passed already),    *)
(* so a step of the clock counts down every copy of them.  leaseOwner is left  *)
(* out: no condition of the code reads it.  The branch for a missing parent    *)
(* notification is left out too: the foreign key of NotificationDelivery       *)
(* deletes the delivery with its notification, and nothing deletes either.     *)
EXTENDS Integers, Sequences

CONSTANTS
    Deliveries,     \* rows of NotificationDelivery
    NoDelivery,     \* the argument of a call that is not running
    Workers,        \* concurrent calls of processDelivery
    MaxRetries,     \* NotificationDelivery.maxRetries (5 in the schema)
    RetryBackoff,   \* RETRY_BACKOFF_MS, in ticks of the clock
    LeaseDuration,  \* the lease of processDelivery (30 s), in ticks
    MaxVersion,     \* bound: a row of this version is not claimed again
    MaxDelay        \* bound: the history of the clock stops counting here

ASSUME OutboxAssumption ==
    /\ NoDelivery \notin Deliveries
    /\ MaxRetries \in Nat
    /\ LeaseDuration \in Nat
    /\ MaxVersion \in Nat
    /\ MaxDelay \in Nat
    /\ RetryBackoff \in Seq(1..MaxDelay)
    /\ RetryBackoff # <<>>

VARIABLES
    delivery,       \* the rows of NotificationDelivery
    attempts,       \* NotificationDeliveryAttempt rows of each delivery
    pc,             \* where each call of processDelivery is
    job,            \* its argument deliveryId
    seen,           \* its local `delivery`
    result,         \* its local `adapterResult`
    calls,          \* history: provider invocations per delivery
    accepted,       \* history: deliveries a provider reported success for
    sinceFailure,   \* history: ticks since the last failure was recorded
    crashed         \* history: deliveries whose worker died while holding them

rowVars     == <<delivery, attempts>>
workerVars  == <<pc, job, seen, result>>
historyVars == <<calls, accepted, sinceFailure, crashed>>
vars == <<rowVars, workerVars, historyVars>>

-------------------------------------------------------------------------------
(* Types *)

DeliveryStatus == {"PENDING", "LEASED", "SUCCEEDED", "RETRY_SCHEDULED", "PERMANENT_FAILURE"}
Leasable == {"PENDING", "RETRY_SCHEDULED"}
Terminal == {"SUCCEEDED", "PERMANENT_FAILURE"}

Row == [status : DeliveryStatus, leaseIn : Nat, retryCount : 0..(MaxRetries + 1),
        retryIn : Nat, version : Nat]

CreatedDelivery ==
    [status |-> "PENDING", leaseIn |-> 0, retryCount |-> 0, retryIn |-> 0, version |-> 1]

\* What adapter.send() came to: success, a failure the adapter calls retryable
\* (an exception is turned into one), or a failure it calls final.
AdapterResults == {"success", "retryable", "final"}
PC == {"idle", "claimed", "loaded", "sent", "logged"}
AttemptStatus == {"SUCCEEDED", "FAILED"}
Attempt == [attemptNumber : Nat, status : AttemptStatus]

Init ==
    /\ delivery = [d \in Deliveries |-> CreatedDelivery]
    /\ attempts = [d \in Deliveries |-> <<>>]
    /\ pc = [w \in Workers |-> "idle"]
    /\ job = [w \in Workers |-> NoDelivery]
    /\ seen = [w \in Workers |-> CreatedDelivery]
    /\ result = [w \in Workers |-> "success"]
    /\ calls = [d \in Deliveries |-> 0]
    /\ accepted = {}
    /\ sinceFailure = [d \in Deliveries |-> 0]
    /\ crashed = {}

-------------------------------------------------------------------------------
(* Helpers *)

\* calculateNextRetryAt: the delay after the failure of an attempt made with
\* this retryCount; past the end of the table its last entry is used.
BackoffDelay(retryCount) ==
    IF retryCount + 1 <= Len(RetryBackoff)
    THEN RetryBackoff[retryCount + 1]
    ELSE RetryBackoff[Len(RetryBackoff)]

\* Variants a bug would bring: an expired lease can be taken over; only a row in
\* a worker's hands is refused.
CanLeaseExpired(row) == row.status \in Leasable \cup {"LEASED"} /\ row.leaseIn = 0
CanLeaseUnheld(row) == row.status # "LEASED" /\ row.leaseIn = 0

\* The WHERE of acquireDeliveryLease.
CanLease(row) == row.status \in Leasable /\ row.leaseIn = 0

\* Variant (DEF-004): the row as it was before the lease raised its version.
LoadedBeforeLease(row) == [row EXCEPT !.version = @ - 1]

\* The row as findUnique returns it after the lease was taken.
LoadedRow(row) == row

\* Variant (DEF-006): nextRetryAt is not looked at.
NeverNotDue(row) == FALSE

\* nextRetryAt > now, on the row the worker read.
NotDue(row) == row.retryIn > 0

\* Variant: attempts numbered from 0.
AttemptNumberFromZero(row) == row.retryCount

\* The number of the attempt that is logged.
AttemptNumber(row) == row.retryCount + 1

\* Variant: one retry more than MaxRetries.
IsRetryableOnceMore(w) == result[w] = "retryable" /\ seen[w].retryCount <= MaxRetries

\* The adapter's verdict and the retry budget of the row the worker read.
IsRetryable(w) == result[w] = "retryable" /\ seen[w].retryCount < MaxRetries

\* updateDeliveryStatus: compare-and-swap on the version; the lease is cleared.
\* When the version moved the call throws and the row stays as it is.
UpdateDeliveryStatus(d, expectedVersion, status, retryCount, retryIn) ==
    delivery' =
        IF delivery[d].version = expectedVersion
        THEN [delivery EXCEPT ![d] =
                [status |-> status, leaseIn |-> 0, retryCount |-> retryCount,
                 retryIn |-> retryIn, version |-> @.version + 1]]
        ELSE delivery

\* processDelivery returns or throws: its locals are gone.
CallEnds(w) ==
    /\ pc' = [pc EXCEPT ![w] = "idle"]
    /\ job' = [job EXCEPT ![w] = NoDelivery]
    /\ seen' = [seen EXCEPT ![w] = CreatedDelivery]
    /\ result' = [result EXCEPT ![w] = "success"]

-------------------------------------------------------------------------------
(* Steps of processDelivery *)

\* The updateMany of acquireDeliveryLease finds its row.  When it does not, the
\* call returns LEASED and nothing changes.
Claim(w, d) ==
    /\ pc[w] = "idle"
    /\ CanLease(delivery[d])
    /\ delivery[d].version < MaxVersion
    /\ delivery' = [delivery EXCEPT ![d] =
            [status |-> "LEASED", leaseIn |-> LeaseDuration, retryCount |-> @.retryCount,
             retryIn |-> @.retryIn, version |-> @.version + 1]]
    /\ pc' = [pc EXCEPT ![w] = "claimed"]
    /\ job' = [job EXCEPT ![w] = d]
    /\ UNCHANGED <<attempts, seen, result, historyVars>>

\* The findUnique that ends acquireDeliveryLease.
Load(w) ==
    /\ pc[w] = "claimed"
    /\ seen' = [seen EXCEPT ![w] = LoadedRow(delivery[job[w]])]
    /\ pc' = [pc EXCEPT ![w] = "loaded"]
    /\ UNCHANGED <<rowVars, job, result, historyVars>>

\* The scheduled retry is not due yet: the row goes back to RETRY_SCHEDULED.
ReleaseNotDue(w) ==
    /\ pc[w] = "loaded"
    /\ NotDue(seen[w])
    /\ UpdateDeliveryStatus(job[w], seen[w].version, "RETRY_SCHEDULED",
                            seen[w].retryCount, seen[w].retryIn)
    /\ CallEnds(w)
    /\ UNCHANGED <<attempts, historyVars>>

\* The channel adapter invokes its provider.
Send(w) ==
    /\ pc[w] = "loaded"
    /\ ~NotDue(seen[w])
    /\ \E r \in AdapterResults :
          /\ result' = [result EXCEPT ![w] = r]
          /\ accepted' = IF r = "success" THEN accepted \cup {job[w]} ELSE accepted
    /\ calls' = [calls EXCEPT ![job[w]] = @ + 1]
    /\ pc' = [pc EXCEPT ![w] = "sent"]
    /\ UNCHANGED <<rowVars, job, seen, sinceFailure, crashed>>

\* createDeliveryAttempt: the log is only appended to.
CreateDeliveryAttempt(d, attempt) ==
    attempts' = [attempts EXCEPT ![d] = Append(@, attempt)]

LogAttempt(w) ==
    /\ pc[w] = "sent"
    /\ CreateDeliveryAttempt(job[w],
            [attemptNumber |-> AttemptNumber(seen[w]),
             status |-> IF result[w] = "success" THEN "SUCCEEDED" ELSE "FAILED"])
    /\ pc' = [pc EXCEPT ![w] = "logged"]
    /\ UNCHANGED <<delivery, job, seen, result, historyVars>>

FinishSuccess(w) ==
    /\ pc[w] = "logged"
    /\ result[w] = "success"
    /\ UpdateDeliveryStatus(job[w], seen[w].version, "SUCCEEDED",
                            delivery[job[w]].retryCount, delivery[job[w]].retryIn)
    /\ CallEnds(w)
    /\ UNCHANGED <<attempts, historyVars>>

FinishFailure(w) ==
    /\ pc[w] = "logged"
    /\ result[w] # "success"
    /\ IF IsRetryable(w)
       THEN UpdateDeliveryStatus(job[w], seen[w].version, "RETRY_SCHEDULED",
                seen[w].retryCount + 1, BackoffDelay(seen[w].retryCount))
       ELSE UpdateDeliveryStatus(job[w], seen[w].version, "PERMANENT_FAILURE",
                seen[w].retryCount + 1, delivery[job[w]].retryIn)
    /\ sinceFailure' = [sinceFailure EXCEPT ![job[w]] = 0]
    /\ CallEnds(w)
    /\ UNCHANGED <<attempts, calls, accepted, crashed>>

-------------------------------------------------------------------------------
(* The environment *)

\* The process dies in the middle of the call, or one of its database calls is
\* rejected: processDelivery has no handler that would give the lease back.
Crash(w) ==
    /\ pc[w] # "idle"
    /\ crashed' = crashed \cup {job[w]}
    /\ CallEnds(w)
    /\ UNCHANGED <<rowVars, calls, accepted, sinceFailure>>

Countdown(n) == IF n > 0 THEN n - 1 ELSE 0
Aged(row) ==
    [status |-> row.status, leaseIn |-> Countdown(row.leaseIn), retryCount |-> row.retryCount,
     retryIn |-> Countdown(row.retryIn), version |-> row.version]

Tick ==
    /\ delivery' = [d \in Deliveries |-> Aged(delivery[d])]
    /\ seen' = [w \in Workers |-> Aged(seen[w])]
    /\ sinceFailure' = [d \in Deliveries |->
            IF sinceFailure[d] < MaxDelay THEN sinceFailure[d] + 1 ELSE sinceFailure[d]]
    /\ UNCHANGED <<attempts, pc, job, result, calls, accepted, crashed>>

-------------------------------------------------------------------------------

Step(w) ==
    \/ Load(w)
    \/ ReleaseNotDue(w)
    \/ Send(w)
    \/ LogAttempt(w)
    \/ FinishSuccess(w)
    \/ FinishFailure(w)

Next ==
    \/ \E w \in Workers, d \in Deliveries : Claim(w, d)
    \/ \E w \in Workers : Step(w)
    \/ \E w \in Workers : Crash(w)
    \/ Tick

Spec == Init /\ [][Next]_vars

\* A call of processDelivery that was started runs on.  Nothing is assumed of
\* who starts calls: the source has no poller.
FairSpec == Spec /\ \A w \in Workers : WF_vars(Step(w))

\* The poller the outbox contract describes: while a delivery can be claimed,
\* some worker claims it, and time passes.
PollingSpec ==
    /\ FairSpec
    /\ WF_vars(\E w \in Workers, d \in Deliveries : Claim(w, d))
    /\ WF_vars(Tick)

-------------------------------------------------------------------------------
(* Properties *)

\* Every variable stays within its type; the retry counter never passes
\* MaxRetries + 1.
TypeOK ==
    /\ delivery \in [Deliveries -> Row]
    /\ attempts \in [Deliveries -> Seq(Attempt)]
    /\ pc \in [Workers -> PC]
    /\ job \in [Workers -> Deliveries \cup {NoDelivery}]
    /\ seen \in [Workers -> Row]
    /\ result \in [Workers -> AdapterResults]
    /\ calls \in [Deliveries -> Nat]
    /\ accepted \subseteq Deliveries
    /\ sinceFailure \in [Deliveries -> 0..MaxDelay]
    /\ crashed \subseteq Deliveries

\* A call between its claim and its last update is the only one on its row, the
\* row is LEASED, and what the call read of it before the provider was invoked
\* is still what the row says: no compare-and-swap of processDelivery is ever
\* refused, whatever other workers do meanwhile and however long the provider
\* takes (acquireDeliveryLease, DEF-001; updateDeliveryStatus, DEF-002/DEF-004).
HolderOwnsRow ==
    /\ \A w \in Workers : pc[w] # "idle" =>
          /\ job[w] \in Deliveries
          /\ delivery[job[w]].status = "LEASED"
          /\ pc[w] # "claimed" => seen[w] = delivery[job[w]]
    /\ \A v, w \in Workers :
          v # w /\ pc[v] # "idle" /\ pc[w] # "idle" => job[v] # job[w]

\* A provider is invoked at most MaxRetries + 1 times for a delivery, and the
\* retry counter of a row that is not in a worker's hands counts exactly the
\* invocations that failed.
RetryBudget == \A d \in Deliveries :
    /\ calls[d] <= MaxRetries + 1
    /\ delivery[d].status # "LEASED" =>
          calls[d] = delivery[d].retryCount
                     + (IF delivery[d].status = "SUCCEEDED" THEN 1 ELSE 0)

\* The attempt log of a row that is not in a worker's hands is complete: one
\* entry for each invocation, numbered 1, 2, ..., all failed except the last one
\* of a delivery that SUCCEEDED.
AuditComplete == \A d \in Deliveries : delivery[d].status # "LEASED" =>
    /\ Len(attempts[d]) = calls[d]
    /\ \A i \in 1..Len(attempts[d]) :
          /\ attempts[d][i].attemptNumber = i
          /\ (attempts[d][i].status = "SUCCEEDED") <=>
                (delivery[d].status = "SUCCEEDED" /\ i = Len(attempts[d]))

\* The backoff of nextRetryAt is honoured (DEF-006): once a failure was recorded,
\* the provider is not invoked again before the delay of that failure has passed,
\* even though a worker may claim the row at any time.
BackoffHonoured == [][\A d \in Deliveries :
    calls'[d] > calls[d] /\ delivery[d].retryCount > 0
        => sinceFailure[d] >= BackoffDelay(delivery[d].retryCount - 1)]_vars

\* Once the provider has reported success for a delivery it is never invoked for
\* it again, whether or not the worker lived to record the success.
NoCallAfterSuccess == [][\A d \in accepted : calls'[d] = calls[d]]_vars

\* The outbox keeps its promise to each delivery.
PhaseAt(d) ==
    CASE delivery[d].status \in Leasable -> "waiting"
      [] delivery[d].status = "SUCCEEDED" -> "delivered"
      [] delivery[d].status = "PERMANENT_FAILURE" -> "failed"
      [] delivery[d].status = "LEASED" ->
            IF calls[d] > delivery[d].retryCount THEN "called" ELSE "claimed"
phase == [d \in Deliveries |-> PhaseAt(d)]
Promise == INSTANCE DeliveryPromise WITH
    Deliveries <- Deliveries, MaxRetries <- MaxRetries, phase <- phase, calls <- calls
PromiseKept == Promise!Spec

\* A claimed delivery is settled or given back unless its worker dies: no call of
\* processDelivery gets stuck or is refused its last update.
EveryLeaseSettles == \A d \in Deliveries :
    delivery[d].status = "LEASED" ~> (delivery[d].status # "LEASED" \/ d \in crashed)

\* What docs/outbox-contract.md and docs/failure-recovery.md say of a worker that
\* dies: its lease is lost when it expires, and another worker takes over.
LeaseRecovery == \A d \in Deliveries :
    (delivery[d].status = "LEASED" /\ delivery[d].leaseIn = 0)
        ~> delivery[d].status # "LEASED"

===============================================================================

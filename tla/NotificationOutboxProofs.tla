------------------------ MODULE NotificationOutboxProofs ------------------------
(* Theorems about NotificationOutbox, for any number of deliveries and workers, *)
(* any retry limit and any backoff table.                                      *)
EXTENDS NotificationOutbox, TLAPS

-------------------------------------------------------------------------------
(* The inductive invariant                                                    *)

\* What a row and the provider know of each other.  LEASED covers the rows of
\* running calls and those whose worker died, before or after it invoked the
\* provider.
CountInv == \A d \in Deliveries :
    LET row == delivery[d] IN
    /\ row.status # "PERMANENT_FAILURE" => row.retryCount <= MaxRetries
    /\ row.status \in Leasable \cup {"PERMANENT_FAILURE"} => calls[d] = row.retryCount
    /\ row.status = "LEASED" => calls[d] \in {row.retryCount, row.retryCount + 1}
    /\ row.status = "SUCCEEDED" => calls[d] = row.retryCount + 1
    /\ d \in accepted => row.status \in {"LEASED", "SUCCEEDED"} /\ calls[d] = row.retryCount + 1

\* What a running call adds: before its invocation of the provider the counts
\* agree, after it the provider is one ahead and its verdict is the call's result.
HolderCountInv == \A w \in Workers :
    LET d == job[w] IN
    /\ pc[w] \in {"claimed", "loaded"} => calls[d] = delivery[d].retryCount
    /\ pc[w] \in {"sent", "logged"} =>
          /\ calls[d] = delivery[d].retryCount + 1
          /\ d \in accepted <=> result[w] = "success"

\* The time still to wait and the time already waited make up the backoff.
BackoffInv == \A d \in Deliveries :
    delivery[d].status \notin Terminal /\ delivery[d].retryCount > 0 =>
        delivery[d].retryIn + sinceFailure[d] >= BackoffDelay(delivery[d].retryCount - 1)

IInv == TypeOK /\ HolderOwnsRow /\ CountInv /\ HolderCountInv /\ BackoffInv

-------------------------------------------------------------------------------
(* Lemmas                                                                     *)

\* calculateNextRetryAt always finds a delay, and never more than MaxDelay.
LEMMA BackoffDelayType ==
    ASSUME NEW n \in Nat
    PROVE  BackoffDelay(n) \in Nat /\ BackoffDelay(n) <= MaxDelay
<1>1. Len(RetryBackoff) \in Nat /\ Len(RetryBackoff) >= 1
  BY OutboxAssumption
<1>2. \A i \in 1..Len(RetryBackoff) : RetryBackoff[i] \in 1..MaxDelay
  BY OutboxAssumption
<1> QED  BY <1>1, <1>2, OutboxAssumption DEF BackoffDelay

\* What the type of a row says of its fields.
LEMMA RowFields ==
    ASSUME TypeOK, NEW d \in Deliveries
    PROVE  /\ delivery[d] \in Row
           /\ delivery[d].status \in DeliveryStatus
           /\ delivery[d].retryCount \in Nat /\ delivery[d].retryCount <= MaxRetries + 1
           /\ delivery[d].retryIn \in Nat /\ delivery[d].version \in Nat
           /\ calls[d] \in Nat
<1>1. delivery[d] \in Row /\ calls[d] \in Nat
  BY DEF TypeOK
<1>2. delivery[d].retryCount \in 0..(MaxRetries + 1)
  BY <1>1 DEF Row
<1> QED  BY <1>1, <1>2, OutboxAssumption DEF Row

\* A compare-and-swap by the worker that holds the row succeeds.
LEMMA HolderUpdate ==
    ASSUME TypeOK, HolderOwnsRow, NEW w \in Workers, pc[w] \notin {"idle", "claimed"},
           NEW status \in DeliveryStatus, NEW rc \in 0..(MaxRetries + 1), NEW ri \in Nat,
           UpdateDeliveryStatus(job[w], seen[w].version, status, rc, ri)
    PROVE  /\ job[w] \in Deliveries
           /\ delivery[job[w]].status = "LEASED"
           /\ seen[w] = delivery[job[w]]
           /\ delivery'[job[w]] = [status |-> status, leaseIn |-> 0, retryCount |-> rc,
                                   retryIn |-> ri, version |-> delivery[job[w]].version + 1]
           /\ \A d \in Deliveries : d # job[w] => delivery'[d] = delivery[d]
           /\ delivery' \in [Deliveries -> Row]
<1>1. job[w] \in Deliveries /\ delivery[job[w]].status = "LEASED" /\ seen[w] = delivery[job[w]]
  BY DEF HolderOwnsRow
<1>2. delivery' = [delivery EXCEPT ![job[w]] =
        [status |-> status, leaseIn |-> 0, retryCount |-> rc,
         retryIn |-> ri, version |-> @.version + 1]]
  BY <1>1 DEF UpdateDeliveryStatus
<1>3. delivery \in [Deliveries -> Row] /\ delivery[job[w]].version \in Nat
  BY <1>1 DEF TypeOK, Row
<1>4. [status |-> status, leaseIn |-> 0, retryCount |-> rc,
       retryIn |-> ri, version |-> delivery[job[w]].version + 1] \in Row
  BY <1>3 DEF Row
<1> QED  BY <1>1, <1>2, <1>3, <1>4

\* When a call ends, what is known of the other calls still holds: their rows are
\* not the row it held.
LEMMA CallEndsKeeps ==
    ASSUME TypeOK, HolderOwnsRow, HolderCountInv, NEW w \in Workers, pc[w] # "idle",
           CallEnds(w), UNCHANGED calls, UNCHANGED accepted,
           delivery' \in [Deliveries -> Row],
           attempts' \in [Deliveries -> Seq(Attempt)],
           sinceFailure' \in [Deliveries -> 0..MaxDelay],
           crashed' \subseteq Deliveries,
           \A d \in Deliveries : d # job[w] => delivery'[d] = delivery[d]
    PROVE  TypeOK' /\ HolderOwnsRow' /\ HolderCountInv'
<1>1. /\ pc'[w] = "idle"
      /\ \A v \in Workers : v # w =>
            pc'[v] = pc[v] /\ job'[v] = job[v] /\ seen'[v] = seen[v] /\ result'[v] = result[v]
      /\ \A v \in Workers : v # w /\ pc[v] # "idle" =>
            job[v] \in Deliveries /\ delivery'[job[v]] = delivery[job[v]]
  BY DEF CallEnds, TypeOK, HolderOwnsRow
<1>2. CreatedDelivery \in Row
  BY OutboxAssumption DEF CreatedDelivery, Row, DeliveryStatus
<1>3. TypeOK'
  BY <1>2 DEF CallEnds, TypeOK, PC, AdapterResults
<1>4. HolderOwnsRow'
  <2>1. ASSUME NEW v \in Workers, pc'[v] # "idle"
        PROVE  /\ v # w /\ pc[v] # "idle" /\ pc'[v] = pc[v] /\ job'[v] = job[v]
               /\ job[v] \in Deliveries /\ seen'[v] = seen[v]
               /\ delivery'[job[v]] = delivery[job[v]]
    BY <1>1, <2>1
  <2> QED  BY <2>1 DEF HolderOwnsRow
<1>5. HolderCountInv'
  BY <1>1 DEF HolderCountInv
<1> QED  BY <1>3, <1>4, <1>5

-------------------------------------------------------------------------------
(* The invariant holds initially and is kept by every step                    *)

LEMMA InitIInv == Init => IInv
<1> SUFFICES ASSUME Init PROVE IInv
  OBVIOUS
<1>1. CreatedDelivery \in Row
  BY OutboxAssumption DEF CreatedDelivery, Row, DeliveryStatus
<1>2. TypeOK
  BY <1>1, OutboxAssumption DEF Init, TypeOK, PC, AdapterResults
<1>3. HolderOwnsRow /\ HolderCountInv
  BY DEF Init, HolderOwnsRow, HolderCountInv
<1>4. CountInv /\ BackoffInv
  BY OutboxAssumption DEF Init, CountInv, BackoffInv, CreatedDelivery, Leasable
<1> QED  BY <1>2, <1>3, <1>4 DEF IInv

LEMMA ClaimIInv ==
    ASSUME IInv, NEW w \in Workers, NEW e \in Deliveries, Claim(w, e)
    PROVE  IInv'
<1> USE DEF IInv
<1>1. /\ delivery[e] \in Row
      /\ delivery'[e] = [status |-> "LEASED", leaseIn |-> LeaseDuration,
                         retryCount |-> delivery[e].retryCount, retryIn |-> delivery[e].retryIn,
                         version |-> delivery[e].version + 1]
      /\ \A d \in Deliveries : d # e => delivery'[d] = delivery[d]
  BY DEF Claim, TypeOK
<1>2. delivery'[e] \in Row /\ delivery' \in [Deliveries -> Row]
  <2>1. /\ delivery[e].retryCount \in 0..(MaxRetries + 1) /\ delivery[e].retryIn \in Nat
        /\ delivery[e].version + 1 \in Nat /\ LeaseDuration \in Nat
    BY <1>1, OutboxAssumption DEF Row
  <2>2. delivery'[e] \in Row
    BY <1>1, <2>1 DEF Row, DeliveryStatus
  <2> QED  BY <2>2 DEF Claim, TypeOK
<1>3. /\ delivery'[e].status = "LEASED" /\ delivery[e].status \in Leasable
      /\ delivery'[e].retryCount = delivery[e].retryCount
      /\ delivery'[e].retryIn = delivery[e].retryIn
  BY <1>1 DEF Row, Claim, CanLease
<1>4. /\ pc[w] = "idle" /\ pc'[w] = "claimed" /\ job'[w] = e
      /\ \A v \in Workers : v # w => pc'[v] = pc[v] /\ job'[v] = job[v]
      /\ \A v \in Workers : v # w /\ pc[v] # "idle" => job[v] # e
  BY <1>3 DEF Claim, TypeOK, HolderOwnsRow, Leasable
<1>5. TypeOK'
  BY <1>2 DEF Claim, TypeOK, PC, historyVars
<1>6. HolderOwnsRow'
  BY <1>1, <1>3, <1>4 DEF HolderOwnsRow, Claim
<1>7. CountInv'
  <2>1. calls' = calls /\ accepted' = accepted
    BY DEF Claim, historyVars
  <2>2. calls[e] = delivery[e].retryCount /\ e \notin accepted
    BY <1>3 DEF CountInv, Leasable
  <2> HIDE DEF IInv
  <2> QED  BY <1>1, <1>3, <2>1, <2>2 DEF CountInv, IInv, Leasable
<1>8. HolderCountInv'
  BY <1>1, <1>3, <1>4 DEF HolderCountInv, HolderOwnsRow, CountInv, Claim, historyVars, Leasable
<1>9. BackoffInv'
  BY <1>1, <1>3 DEF BackoffInv, Claim, historyVars, Leasable, Terminal
<1> QED  BY <1>5, <1>6, <1>7, <1>8, <1>9

LEMMA LoadIInv ==
    ASSUME IInv, NEW w \in Workers, Load(w)
    PROVE  IInv'
<1> USE DEF IInv
<1>1. /\ job[w] \in Deliveries /\ delivery[job[w]] \in Row
      /\ seen'[w] = delivery[job[w]] /\ pc[w] = "claimed" /\ pc'[w] = "loaded"
      /\ \A v \in Workers : v # w => pc'[v] = pc[v] /\ seen'[v] = seen[v]
  BY DEF Load, LoadedRow, TypeOK, HolderOwnsRow
<1>2. TypeOK'
  BY <1>1 DEF Load, TypeOK, PC, rowVars, historyVars
<1>3. HolderOwnsRow'
  BY <1>1 DEF HolderOwnsRow, Load, rowVars
<1>4. CountInv' /\ BackoffInv'
  BY DEF CountInv, BackoffInv, Load, rowVars, historyVars
<1>5. HolderCountInv'
  BY <1>1 DEF HolderCountInv, Load, rowVars, historyVars
<1> QED  BY <1>2, <1>3, <1>4, <1>5

LEMMA SendIInv ==
    ASSUME IInv, NEW w \in Workers, Send(w)
    PROVE  IInv'
<1> USE DEF IInv
<1> PICK r \in AdapterResults :
        /\ result' = [result EXCEPT ![w] = r]
        /\ accepted' = IF r = "success" THEN accepted \cup {job[w]} ELSE accepted
  BY DEF Send
<1>1. /\ job[w] \in Deliveries /\ pc[w] = "loaded" /\ pc'[w] = "sent" /\ result'[w] = r
      /\ delivery[job[w]].status = "LEASED" /\ delivery[job[w]].retryCount \in Nat
      /\ calls[job[w]] = delivery[job[w]].retryCount /\ job[w] \notin accepted
      /\ calls'[job[w]] = calls[job[w]] + 1
      /\ job[w] \in accepted' <=> r = "success"
  <2>1. /\ job[w] \in Deliveries /\ pc[w] = "loaded" /\ pc'[w] = "sent" /\ result'[w] = r
        /\ delivery[job[w]].status = "LEASED" /\ delivery[job[w]] \in Row
        /\ calls[job[w]] = delivery[job[w]].retryCount
        /\ calls'[job[w]] = calls[job[w]] + 1
    BY DEF Send, TypeOK, HolderOwnsRow, HolderCountInv
  <2>2. delivery[job[w]].retryCount \in Nat
    BY <2>1, OutboxAssumption DEF Row
  <2>3. job[w] \notin accepted
    BY <2>1, <2>2 DEF CountInv
  <2> QED  BY <2>1, <2>2, <2>3
<1>2. /\ \A v \in Workers : v # w => pc'[v] = pc[v] /\ result'[v] = result[v]
      /\ \A v \in Workers : v # w /\ pc[v] # "idle" => job[v] # job[w]
      /\ \A d \in Deliveries : d # job[w] =>
            calls'[d] = calls[d] /\ (d \in accepted' <=> d \in accepted)
  BY <1>1 DEF Send, TypeOK, HolderOwnsRow
<1>3. TypeOK'
  <2>1. calls' \in [Deliveries -> Nat] /\ accepted' \subseteq Deliveries
    BY <1>1 DEF Send, TypeOK
  <2> QED  BY <2>1 DEF Send, TypeOK, PC, rowVars
<1>4. HolderOwnsRow'
  BY <1>1, <1>2 DEF HolderOwnsRow, Send, rowVars
<1>5. CountInv'
  BY <1>1, <1>2 DEF CountInv, Send, rowVars, Leasable
<1>6. HolderCountInv'
  BY <1>1, <1>2 DEF HolderCountInv, HolderOwnsRow, Send, rowVars
<1>7. BackoffInv'
  BY DEF BackoffInv, Send, rowVars
<1> QED  BY <1>3, <1>4, <1>5, <1>6, <1>7

LEMMA LogAttemptIInv ==
    ASSUME IInv, NEW w \in Workers, LogAttempt(w)
    PROVE  IInv'
<1> USE DEF IInv
<1> DEFINE entry == [attemptNumber |-> AttemptNumber(seen[w]),
                     status |-> IF result[w] = "success" THEN "SUCCEEDED" ELSE "FAILED"]
<1>1. /\ job[w] \in Deliveries /\ seen[w] \in Row /\ attempts[job[w]] \in Seq(Attempt)
  BY DEF LogAttempt, CreateDeliveryAttempt, TypeOK, HolderOwnsRow
<1>2. attempts' \in [Deliveries -> Seq(Attempt)]
  <2>1. AttemptNumber(seen[w]) \in Nat
    BY <1>1, OutboxAssumption DEF AttemptNumber, Row
  <2>2. entry \in Attempt
    BY <2>1 DEF AttemptStatus, Attempt
  <2>3. attempts' = [attempts EXCEPT ![job[w]] = Append(@, entry)]
    BY DEF LogAttempt, CreateDeliveryAttempt
  <2> HIDE DEF entry
  <2>4. Append(attempts[job[w]], entry) \in Seq(Attempt)
    BY <1>1, <2>2
  <2> QED  BY <1>1, <2>3, <2>4 DEF TypeOK
<1>3. TypeOK'
  BY <1>2 DEF LogAttempt, CreateDeliveryAttempt, TypeOK, PC, historyVars
<1>4. /\ pc[w] = "sent" /\ pc'[w] = "logged"
      /\ \A v \in Workers : v # w => pc'[v] = pc[v]
  BY DEF LogAttempt, CreateDeliveryAttempt, TypeOK
<1>5. HolderOwnsRow'
  BY <1>4 DEF HolderOwnsRow, LogAttempt, CreateDeliveryAttempt
<1>6. CountInv' /\ BackoffInv'
  BY DEF CountInv, BackoffInv, LogAttempt, CreateDeliveryAttempt, historyVars
<1>7. HolderCountInv'
  BY <1>4 DEF HolderCountInv, LogAttempt, CreateDeliveryAttempt, historyVars
<1> QED  BY <1>3, <1>5, <1>6, <1>7

LEMMA ReleaseNotDueIInv ==
    ASSUME IInv, NEW w \in Workers, ReleaseNotDue(w)
    PROVE  IInv'
<1> USE DEF IInv
<1>1. seen[w] \in Row /\ pc[w] = "loaded"
  BY DEF ReleaseNotDue, TypeOK
<1>2. /\ job[w] \in Deliveries /\ delivery[job[w]].status = "LEASED"
      /\ seen[w] = delivery[job[w]]
      /\ delivery'[job[w]] = [status |-> "RETRY_SCHEDULED", leaseIn |-> 0,
                              retryCount |-> seen[w].retryCount, retryIn |-> seen[w].retryIn,
                              version |-> delivery[job[w]].version + 1]
      /\ \A d \in Deliveries : d # job[w] => delivery'[d] = delivery[d]
      /\ delivery' \in [Deliveries -> Row]
  BY <1>1, HolderUpdate DEF ReleaseNotDue, Row, DeliveryStatus
<1>3. TypeOK' /\ HolderOwnsRow' /\ HolderCountInv'
  BY <1>1, <1>2, CallEndsKeeps DEF ReleaseNotDue, historyVars, TypeOK
<1>4. CountInv'
  BY <1>1, <1>2 DEF CountInv, HolderCountInv, ReleaseNotDue, historyVars, Leasable, Row
<1>5. BackoffInv'
  BY <1>2 DEF BackoffInv, ReleaseNotDue, historyVars, Terminal
<1> QED  BY <1>3, <1>4, <1>5

LEMMA FinishSuccessIInv ==
    ASSUME IInv, NEW w \in Workers, FinishSuccess(w)
    PROVE  IInv'
<1> USE DEF IInv
<1>1. /\ delivery[job[w]] \in Row /\ pc[w] = "logged" /\ result[w] = "success"
  BY DEF FinishSuccess, TypeOK, HolderOwnsRow
<1>2. /\ job[w] \in Deliveries /\ delivery[job[w]].status = "LEASED"
      /\ delivery'[job[w]] = [status |-> "SUCCEEDED", leaseIn |-> 0,
                              retryCount |-> delivery[job[w]].retryCount,
                              retryIn |-> delivery[job[w]].retryIn,
                              version |-> delivery[job[w]].version + 1]
      /\ \A d \in Deliveries : d # job[w] => delivery'[d] = delivery[d]
      /\ delivery' \in [Deliveries -> Row]
  BY <1>1, HolderUpdate DEF FinishSuccess, Row, DeliveryStatus
<1>3. TypeOK' /\ HolderOwnsRow' /\ HolderCountInv'
  BY <1>1, <1>2, CallEndsKeeps DEF FinishSuccess, historyVars, TypeOK
<1>4. CountInv'
  BY <1>1, <1>2 DEF CountInv, HolderCountInv, FinishSuccess, historyVars, Leasable, Row
<1>5. BackoffInv'
  BY <1>2 DEF BackoffInv, FinishSuccess, historyVars, Terminal
<1> QED  BY <1>3, <1>4, <1>5

LEMMA FinishFailureIInv ==
    ASSUME IInv, NEW w \in Workers, FinishFailure(w)
    PROVE  IInv'
<1> USE DEF IInv
<1>1. /\ seen[w] \in Row /\ pc[w] = "logged" /\ result[w] # "success"
      /\ job[w] \in Deliveries /\ delivery[job[w]].status = "LEASED"
      /\ seen[w] = delivery[job[w]]
  BY DEF FinishFailure, TypeOK, HolderOwnsRow
<1> DEFINE rc == seen[w].retryCount
<1>2. /\ rc \in Nat /\ rc <= MaxRetries /\ seen[w].retryIn \in Nat
      /\ calls[job[w]] = rc + 1 /\ job[w] \notin accepted
  BY <1>1, OutboxAssumption DEF CountInv, HolderCountInv, Row, TypeOK
<1>3. /\ \A d \in Deliveries : d # job[w] => delivery'[d] = delivery[d]
      /\ delivery' \in [Deliveries -> Row]
      /\ delivery'[job[w]].retryCount = rc + 1
      /\ \/ delivery'[job[w]].status = "PERMANENT_FAILURE"
         \/ /\ delivery'[job[w]].status = "RETRY_SCHEDULED"
            /\ rc < MaxRetries
            /\ delivery'[job[w]].retryIn = BackoffDelay(rc)
  <2>1. CASE IsRetryable(w)
    <3>1. UpdateDeliveryStatus(job[w], seen[w].version, "RETRY_SCHEDULED",
              rc + 1, BackoffDelay(rc))
      BY <2>1 DEF FinishFailure
    <3>2. rc < MaxRetries /\ rc + 1 \in 0..(MaxRetries + 1)
      BY <1>2, <2>1, OutboxAssumption DEF IsRetryable
    <3>3. BackoffDelay(rc) \in Nat
      BY <1>2, BackoffDelayType
    <3>4. "RETRY_SCHEDULED" \in DeliveryStatus
      BY DEF DeliveryStatus
    <3>5. /\ delivery'[job[w]] = [status |-> "RETRY_SCHEDULED", leaseIn |-> 0,
                                  retryCount |-> rc + 1, retryIn |-> BackoffDelay(rc),
                                  version |-> delivery[job[w]].version + 1]
          /\ \A d \in Deliveries : d # job[w] => delivery'[d] = delivery[d]
          /\ delivery' \in [Deliveries -> Row]
      BY <1>1, <3>1, <3>2, <3>3, <3>4, HolderUpdate
    <3> QED  BY <3>2, <3>5
  <2>2. CASE ~IsRetryable(w)
    <3>1. UpdateDeliveryStatus(job[w], seen[w].version, "PERMANENT_FAILURE",
              rc + 1, seen[w].retryIn)
      BY <1>1, <2>2 DEF FinishFailure
    <3>2. rc + 1 \in 0..(MaxRetries + 1)
      BY <1>2, OutboxAssumption
    <3>3. "PERMANENT_FAILURE" \in DeliveryStatus
      BY DEF DeliveryStatus
    <3>4. /\ delivery'[job[w]] = [status |-> "PERMANENT_FAILURE", leaseIn |-> 0,
                                  retryCount |-> rc + 1, retryIn |-> seen[w].retryIn,
                                  version |-> delivery[job[w]].version + 1]
          /\ \A d \in Deliveries : d # job[w] => delivery'[d] = delivery[d]
          /\ delivery' \in [Deliveries -> Row]
      BY <1>1, <1>2, <3>1, <3>2, <3>3, HolderUpdate
    <3> QED  BY <3>4
  <2> QED  BY <2>1, <2>2
<1>4. TypeOK' /\ HolderOwnsRow' /\ HolderCountInv'
  <2>1. sinceFailure' \in [Deliveries -> 0..MaxDelay]
    BY <1>1, OutboxAssumption DEF FinishFailure, TypeOK
  <2> QED  BY <1>1, <1>3, <2>1, CallEndsKeeps DEF FinishFailure, TypeOK
<1>5. CountInv'
  <2>1. calls' = calls /\ accepted' = accepted
    BY DEF FinishFailure
  <2>2. rc + 1 <= MaxRetries \/ delivery'[job[w]].status = "PERMANENT_FAILURE"
    BY <1>2, <1>3, OutboxAssumption
  <2>3. ASSUME NEW d \in Deliveries, d # job[w] PROVE delivery'[d] = delivery[d]
    BY <1>3, <2>3
  <2>4. CountInv
    OBVIOUS
  <2> HIDE DEF IInv
  <2> QED  BY <1>1, <1>2, <1>3, <2>1, <2>2, <2>3, <2>4 DEF CountInv, Leasable
<1>6. BackoffInv'
  <2>1. /\ sinceFailure'[job[w]] = 0
        /\ \A d \in Deliveries : d # job[w] => sinceFailure'[d] = sinceFailure[d]
    BY <1>1 DEF FinishFailure, TypeOK
  <2>2. BackoffDelay(rc) \in Nat /\ (rc + 1) - 1 = rc
    BY <1>2, BackoffDelayType
  <2> QED  BY <1>1, <1>2, <1>3, <2>1, <2>2 DEF BackoffInv, Terminal
<1> QED  BY <1>4, <1>5, <1>6

LEMMA CrashIInv ==
    ASSUME IInv, NEW w \in Workers, Crash(w)
    PROVE  IInv'
<1> USE DEF IInv
<1>1. pc[w] # "idle" /\ job[w] \in Deliveries /\ crashed' \subseteq Deliveries
  BY DEF Crash, TypeOK, HolderOwnsRow
<1>2. TypeOK' /\ HolderOwnsRow' /\ HolderCountInv'
  BY <1>1, CallEndsKeeps DEF Crash, rowVars, TypeOK
<1>3. CountInv' /\ BackoffInv'
  BY DEF CountInv, BackoffInv, Crash, rowVars
<1> QED  BY <1>2, <1>3

\* A tick keeps the sum of the time to wait and the time waited, up to the bound.
LEMMA CountdownKeepsSum ==
    ASSUME NEW r \in Nat, NEW s \in Nat, NEW m \in Nat, s <= m, NEW b \in Nat, b <= m,
           r + s >= b
    PROVE  Countdown(r) + (IF s < m THEN s + 1 ELSE s) >= b
<1>1. CASE r > 0
  BY <1>1 DEF Countdown
<1>2. CASE r = 0
  BY <1>2 DEF Countdown
<1> QED  BY <1>1, <1>2

LEMMA TickIInv ==
    ASSUME IInv, Tick
    PROVE  IInv'
<1> USE DEF IInv
<1>1. ASSUME NEW row \in Row
      PROVE  /\ Aged(row) \in Row
             /\ Aged(row).status = row.status /\ Aged(row).retryCount = row.retryCount
             /\ Aged(row).version = row.version
             /\ Aged(row).retryIn = Countdown(row.retryIn)
  BY DEF Aged, Row, Countdown
<1>2. /\ \A d \in Deliveries : delivery[d] \in Row /\ delivery'[d] = Aged(delivery[d])
      /\ \A w \in Workers : seen[w] \in Row /\ seen'[w] = Aged(seen[w])
  BY DEF Tick, TypeOK
<1>3. TypeOK'
  <2>1. delivery' \in [Deliveries -> Row] /\ seen' \in [Workers -> Row]
    BY <1>1, <1>2 DEF Tick
  <2>2. sinceFailure' \in [Deliveries -> 0..MaxDelay]
    BY OutboxAssumption DEF Tick, TypeOK
  <2> QED  BY <2>1, <2>2 DEF Tick, TypeOK
<1>4. HolderOwnsRow'
  BY <1>1, <1>2 DEF HolderOwnsRow, Tick
<1>5. CountInv'
  BY <1>1, <1>2 DEF CountInv, Tick
<1>6. HolderCountInv'
  BY <1>1, <1>2 DEF HolderCountInv, HolderOwnsRow, Tick
<1>7. BackoffInv'
  <2> SUFFICES ASSUME NEW d \in Deliveries,
                      delivery[d].status \notin Terminal, delivery[d].retryCount > 0
               PROVE  Countdown(delivery[d].retryIn) + sinceFailure'[d]
                        >= BackoffDelay(delivery[d].retryCount - 1)
    BY <1>1, <1>2 DEF BackoffInv
  <2>1. /\ delivery[d].retryIn \in Nat /\ sinceFailure[d] \in 0..MaxDelay
        /\ delivery[d].retryCount - 1 \in Nat
    BY <1>2, OutboxAssumption DEF TypeOK, Row
  <2>2. /\ delivery[d].retryIn + sinceFailure[d] >= BackoffDelay(delivery[d].retryCount - 1)
        /\ BackoffDelay(delivery[d].retryCount - 1) \in Nat
        /\ BackoffDelay(delivery[d].retryCount - 1) <= MaxDelay
    BY <2>1, BackoffDelayType DEF BackoffInv
  <2>3. sinceFailure'[d] = IF sinceFailure[d] < MaxDelay THEN sinceFailure[d] + 1
                           ELSE sinceFailure[d]
    BY DEF Tick
  <2>4. sinceFailure[d] \in Nat /\ sinceFailure[d] <= MaxDelay /\ MaxDelay \in Nat
    BY <2>1, OutboxAssumption
  <2> HIDE DEF IInv
  <2>5. Countdown(delivery[d].retryIn)
          + (IF sinceFailure[d] < MaxDelay THEN sinceFailure[d] + 1 ELSE sinceFailure[d])
          >= BackoffDelay(delivery[d].retryCount - 1)
    BY <2>1, <2>2, <2>4, CountdownKeepsSum
  <2> QED  BY <2>3, <2>5
<1> QED  BY <1>3, <1>4, <1>5, <1>6, <1>7

LEMMA NextIInv == IInv /\ [Next]_vars => IInv'
<1> SUFFICES ASSUME IInv, [Next]_vars PROVE IInv'
  OBVIOUS
<1>1. ASSUME NEW w \in Workers, NEW d \in Deliveries, Claim(w, d) PROVE IInv'
  BY <1>1, ClaimIInv
<1>2. ASSUME NEW w \in Workers, Step(w) PROVE IInv'
  BY <1>2, LoadIInv, ReleaseNotDueIInv, SendIInv, LogAttemptIInv, FinishSuccessIInv,
     FinishFailureIInv DEF Step
<1>3. ASSUME NEW w \in Workers, Crash(w) PROVE IInv'
  BY <1>3, CrashIInv
<1>4. CASE Tick
  BY <1>4, TickIInv
<1>5. CASE UNCHANGED vars
  BY <1>5 DEF vars, rowVars, workerVars, historyVars, IInv, TypeOK, HolderOwnsRow,
     CountInv, HolderCountInv, BackoffInv
<1> QED  BY <1>1, <1>2, <1>3, <1>4, <1>5 DEF Next

\* The inductive invariant holds in every reachable state.
THEOREM Invariance == Spec => []IInv
BY InitIInv, NextIInv, PTL DEF Spec

-------------------------------------------------------------------------------
(* What follows                                                               *)

\* Every variable keeps its type.
THEOREM TypeCorrectness == Spec => []TypeOK
BY Invariance, PTL DEF IInv

\* A running call owns its row exclusively, and its compare-and-swap cannot fail.
THEOREM Ownership == Spec => []HolderOwnsRow
BY Invariance, PTL DEF IInv

\* A provider is invoked at most MaxRetries + 1 times for a delivery.
THEOREM BoundedRetries == Spec => []RetryBudget
<1>1. IInv => RetryBudget
  <2> SUFFICES ASSUME IInv, NEW d \in Deliveries
               PROVE  /\ calls[d] <= MaxRetries + 1
                      /\ delivery[d].status # "LEASED" =>
                            calls[d] = delivery[d].retryCount
                              + (IF delivery[d].status = "SUCCEEDED" THEN 1 ELSE 0)
    BY DEF RetryBudget
  <2>1. /\ delivery[d].status \in DeliveryStatus /\ delivery[d].retryCount \in Nat
        /\ delivery[d].retryCount <= MaxRetries + 1 /\ MaxRetries \in Nat /\ calls[d] \in Nat
    BY RowFields, OutboxAssumption DEF IInv
  <2>2. CountInv
    BY DEF IInv
  <2>3. CASE delivery[d].status = "SUCCEEDED"
    <3>1. calls[d] = delivery[d].retryCount + 1 /\ delivery[d].retryCount <= MaxRetries
      BY <2>2, <2>3 DEF CountInv
    <3> QED  BY <2>1, <2>3, <3>1
  <2>4. CASE delivery[d].status = "LEASED"
    <3>1. /\ calls[d] \in {delivery[d].retryCount, delivery[d].retryCount + 1}
          /\ delivery[d].retryCount <= MaxRetries
      BY <2>2, <2>4 DEF CountInv
    <3> QED  BY <2>1, <2>4, <3>1
  <2>5. CASE delivery[d].status \in Leasable \cup {"PERMANENT_FAILURE"}
    <3>1. calls[d] = delivery[d].retryCount
      BY <2>2, <2>5 DEF CountInv
    <3> QED  BY <2>1, <2>5, <3>1 DEF Leasable
  <2> QED  BY <2>1, <2>3, <2>4, <2>5 DEF DeliveryStatus, Leasable
<1> QED  BY <1>1, Invariance, PTL

-------------------------------------------------------------------------------
(* Invocations of the provider                                                *)

\* Only Send invokes a provider, for a row whose retry time has come and for which
\* no success was reported.
LEMMA CallStep ==
    ASSUME IInv, [Next]_vars, NEW d \in Deliveries, calls'[d] # calls[d]
    PROVE  /\ calls'[d] = calls[d] + 1
           /\ d \notin accepted
           /\ delivery[d].status = "LEASED" /\ delivery'[d] = delivery[d]
           /\ delivery[d].retryIn = 0
           /\ calls[d] = delivery[d].retryCount
<1> USE DEF IInv
<1>1. PICK w \in Workers : Send(w)
  <2>1. ASSUME NEW w \in Workers, NEW e \in Deliveries, Claim(w, e) PROVE FALSE
    BY <2>1 DEF Claim, historyVars
  <2>2. ASSUME NEW w \in Workers, Step(w) PROVE Send(w)
    BY <2>2 DEF Step, Load, ReleaseNotDue, LogAttempt, CreateDeliveryAttempt, FinishSuccess, FinishFailure, historyVars
  <2>3. ASSUME NEW w \in Workers, Crash(w) PROVE FALSE
    BY <2>3 DEF Crash
  <2>4. ~Tick /\ vars' # vars
    BY DEF Tick, vars, historyVars
  <2> QED  BY <2>1, <2>2, <2>3, <2>4 DEF Next
<1>2. /\ job[w] = d /\ pc[w] = "loaded" /\ calls'[d] = calls[d] + 1
      /\ delivery' = delivery /\ ~NotDue(seen[w])
  BY <1>1 DEF Send, TypeOK, rowVars
<1>3. /\ delivery[d].status = "LEASED" /\ seen[w] = delivery[d]
      /\ calls[d] = delivery[d].retryCount
  BY <1>2 DEF HolderOwnsRow, HolderCountInv
<1>4. delivery[d].retryIn \in Nat /\ delivery[d].retryCount \in Nat
  BY RowFields
<1>5. d \notin accepted
  BY <1>3, <1>4 DEF CountInv
<1> QED  BY <1>2, <1>3, <1>4, <1>5 DEF NotDue

\* No invocation follows a success the provider reported.
THEOREM SuccessIsFinal == Spec => NoCallAfterSuccess
<1>1. IInv /\ [Next]_vars => [\A d \in accepted : calls'[d] = calls[d]]_vars
  BY CallStep DEF IInv, TypeOK
<1> QED  BY <1>1, Invariance, PTL DEF Spec, NoCallAfterSuccess

\* No invocation before the backoff of the last recorded failure has passed.
THEOREM BackoffIsKept == Spec => BackoffHonoured
<1> DEFINE Waited == \A d \in Deliveries :
        calls'[d] > calls[d] /\ delivery[d].retryCount > 0
            => sinceFailure[d] >= BackoffDelay(delivery[d].retryCount - 1)
<1>1. IInv /\ [Next]_vars => [Waited]_vars
  <2> SUFFICES ASSUME IInv, [Next]_vars, NEW d \in Deliveries,
                      calls'[d] > calls[d], delivery[d].retryCount > 0
               PROVE  sinceFailure[d] >= BackoffDelay(delivery[d].retryCount - 1)
    OBVIOUS
  <2>1. calls[d] \in Nat /\ sinceFailure[d] \in 0..MaxDelay
    BY DEF IInv, TypeOK
  <2>2. calls'[d] # calls[d]
    BY <2>1
  <2>3. delivery[d].status = "LEASED" /\ delivery[d].retryIn = 0
    BY <2>2, CallStep
  <2> QED  BY <2>1, <2>3, OutboxAssumption DEF IInv, BackoffInv, Terminal
<1> HIDE DEF Waited
<1>2. Spec => [][Waited]_vars
  BY <1>1, Invariance, PTL DEF Spec
<1> QED  BY <1>2 DEF Waited, BackoffHonoured

-------------------------------------------------------------------------------
(* The outbox implements its promise                                          *)

\* A step that moves one delivery from a phase to another moves nothing else.
LEMMA PhaseMove ==
    ASSUME NEW e \in Deliveries, NEW from, NEW to,
           PhaseAt(e) = from, PhaseAt(e)' = to,
           \A d \in Deliveries : d # e => PhaseAt(d)' = PhaseAt(d)
    PROVE  Promise!Move(e, from, to)
<1>1. phase[e] = from
  BY DEF phase
<1>2. phase' = [d \in Deliveries |-> PhaseAt(d)']
  BY DEF phase
<1>3. phase' = [phase EXCEPT ![e] = to]
  BY <1>2 DEF phase
<1> QED  BY <1>1, <1>3 DEF Promise!Move

\* A step that moves no delivery leaves the abstract state as it is.
LEMMA PhaseKept ==
    ASSUME \A d \in Deliveries : PhaseAt(d)' = PhaseAt(d)
    PROVE  phase' = phase
BY DEF phase

\* Every step of the outbox is a step of the promise or changes nothing it sees.
LEMMA StepRefines == IInv /\ IInv' /\ [Next]_vars => [Promise!Next]_(Promise!vars)
<1> SUFFICES ASSUME IInv, IInv', [Next]_vars PROVE [Promise!Next]_(Promise!vars)
  OBVIOUS
<1> USE DEF IInv
<1>0. \A d \in Deliveries : delivery[d] \in Row /\ calls[d] \in Nat
                            /\ delivery[d].retryCount \in Nat /\ delivery[d].retryIn \in Nat
  BY RowFields
<1>1. ASSUME NEW w \in Workers, NEW e \in Deliveries, Claim(w, e) PROVE Promise!Next
  <2>1. /\ delivery[e].status \in Leasable /\ delivery'[e].status = "LEASED"
        /\ delivery'[e].retryCount = delivery[e].retryCount
        /\ \A d \in Deliveries : d # e => delivery'[d] = delivery[d]
        /\ calls' = calls
    BY <1>1 DEF Claim, CanLease, TypeOK, historyVars
  <2>2. calls[e] = delivery[e].retryCount
    BY <2>1 DEF CountInv
  <2>3. PhaseAt(e) = "waiting" /\ PhaseAt(e)' = "claimed"
    BY <1>0, <2>1, <2>2 DEF PhaseAt, Leasable
  <2>4. \A d \in Deliveries : d # e => PhaseAt(d)' = PhaseAt(d)
    BY <2>1 DEF PhaseAt
  <2> QED  BY <2>1, <2>3, <2>4, PhaseMove DEF Promise!Next, Promise!Claim
<1>2. ASSUME NEW w \in Workers, ReleaseNotDue(w) PROVE Promise!Next
  <2> PICK e \in Deliveries : e = job[w]
    BY <1>2 DEF ReleaseNotDue, HolderOwnsRow
  <2>1. /\ seen[w] = delivery[e]
        /\ delivery[e].status = "LEASED"
        /\ calls[e] = delivery[e].retryCount /\ calls' = calls
        /\ delivery'[e].status = "RETRY_SCHEDULED"
        /\ \A d \in Deliveries : d # e => delivery'[d] = delivery[d]
    <3>1. seen[w] \in Row /\ pc[w] = "loaded"
      BY <1>2 DEF ReleaseNotDue, TypeOK
    <3>2. "RETRY_SCHEDULED" \in DeliveryStatus
      BY DEF DeliveryStatus
    <3>3. /\ seen[w].retryCount \in 0..(MaxRetries + 1) /\ seen[w].retryIn \in Nat
          /\ UpdateDeliveryStatus(job[w], seen[w].version, "RETRY_SCHEDULED",
                                  seen[w].retryCount, seen[w].retryIn)
      BY <1>2, <3>1 DEF ReleaseNotDue, Row
    <3>4. /\ delivery'[e].status = "RETRY_SCHEDULED" /\ seen[w] = delivery[e]
          /\ delivery[e].status = "LEASED"
          /\ \A d \in Deliveries : d # e => delivery'[d] = delivery[d]
      <4>1. /\ delivery[job[w]].status = "LEASED" /\ seen[w] = delivery[job[w]]
            /\ delivery'[job[w]] = [status |-> "RETRY_SCHEDULED", leaseIn |-> 0,
                  retryCount |-> seen[w].retryCount, retryIn |-> seen[w].retryIn,
                  version |-> delivery[job[w]].version + 1]
            /\ \A d \in Deliveries : d # job[w] => delivery'[d] = delivery[d]
        BY <3>1, <3>2, <3>3, HolderUpdate
      <4> QED  BY <4>1
    <3> QED  BY <1>2, <3>1, <3>4 DEF ReleaseNotDue, HolderCountInv, historyVars
  <2>2. PhaseAt(e) = "claimed" /\ PhaseAt(e)' = "waiting"
    BY <1>0, <2>1 DEF PhaseAt, Leasable
  <2>3. \A d \in Deliveries : d # e => PhaseAt(d)' = PhaseAt(d)
    BY <2>1 DEF PhaseAt
  <2> QED  BY <2>1, <2>2, <2>3, PhaseMove DEF Promise!Next, Promise!Release
<1>3. ASSUME NEW w \in Workers, Send(w) PROVE Promise!Next
  <2> PICK e \in Deliveries : e = job[w]
    BY <1>3 DEF Send, HolderOwnsRow
  <2>1. /\ delivery' = delivery
        /\ delivery[e].status = "LEASED"
        /\ calls[e] = delivery[e].retryCount
        /\ calls' = [calls EXCEPT ![e] = @ + 1]
    BY <1>3 DEF Send, HolderOwnsRow, HolderCountInv, rowVars
  <2>2. calls[e] <= MaxRetries
    BY <2>1 DEF CountInv
  <2>3. PhaseAt(e) = "claimed" /\ PhaseAt(e)' = "called"
    BY <1>0, <2>1 DEF PhaseAt, Leasable, TypeOK
  <2>4. \A d \in Deliveries : d # e => PhaseAt(d)' = PhaseAt(d)
    BY <2>1 DEF PhaseAt, TypeOK
  <2> QED  BY <2>1, <2>2, <2>3, <2>4, PhaseMove DEF Promise!Next, Promise!Call
<1>4. ASSUME NEW w \in Workers, FinishSuccess(w) PROVE Promise!Next
  <2> PICK e \in Deliveries : e = job[w]
    BY <1>4 DEF FinishSuccess, HolderOwnsRow
  <2>1. /\ delivery[e].status = "LEASED"
        /\ calls[e] = delivery[e].retryCount + 1 /\ calls' = calls
        /\ delivery'[e].status = "SUCCEEDED"
        /\ \A d \in Deliveries : d # e => delivery'[d] = delivery[d]
    <3>1. delivery[e] \in Row /\ pc[w] = "logged"
      BY <1>4 DEF FinishSuccess, TypeOK, HolderOwnsRow
    <3>2. "SUCCEEDED" \in DeliveryStatus
      BY DEF DeliveryStatus
    <3>3. /\ delivery[e].retryCount \in 0..(MaxRetries + 1) /\ delivery[e].retryIn \in Nat
          /\ UpdateDeliveryStatus(job[w], seen[w].version, "SUCCEEDED",
                                  delivery[e].retryCount, delivery[e].retryIn)
      BY <1>4, <3>1 DEF FinishSuccess, Row
    <3>4. /\ delivery'[e].status = "SUCCEEDED" /\ delivery[e].status = "LEASED"
          /\ \A d \in Deliveries : d # e => delivery'[d] = delivery[d]
      <4>1. /\ delivery[job[w]].status = "LEASED" /\ seen[w] = delivery[job[w]]
            /\ delivery'[job[w]] = [status |-> "SUCCEEDED", leaseIn |-> 0,
                  retryCount |-> delivery[e].retryCount, retryIn |-> delivery[e].retryIn,
                  version |-> delivery[job[w]].version + 1]
            /\ \A d \in Deliveries : d # job[w] => delivery'[d] = delivery[d]
        BY <3>1, <3>2, <3>3, HolderUpdate
      <4> QED  BY <4>1
    <3> QED  BY <1>4, <3>1, <3>4 DEF FinishSuccess, HolderCountInv, historyVars
  <2>2. PhaseAt(e) = "called" /\ PhaseAt(e)' = "delivered"
    BY <1>0, <2>1 DEF PhaseAt, Leasable
  <2>3. \A d \in Deliveries : d # e => PhaseAt(d)' = PhaseAt(d)
    BY <2>1 DEF PhaseAt
  <2> QED  BY <2>1, <2>2, <2>3, PhaseMove DEF Promise!Next, Promise!Deliver
<1>5. ASSUME NEW w \in Workers, FinishFailure(w) PROVE Promise!Next
  <2> PICK e \in Deliveries : e = job[w]
    BY <1>5 DEF FinishFailure, HolderOwnsRow
  <2>1. /\ delivery[e].status = "LEASED"
        /\ calls[e] = delivery[e].retryCount + 1 /\ calls' = calls
        /\ \A d \in Deliveries : d # e => delivery'[d] = delivery[d]
    <3>1. delivery[e].status = "LEASED" /\ calls[e] = delivery[e].retryCount + 1
      BY <1>5 DEF FinishFailure, HolderOwnsRow, HolderCountInv
    <3> QED  BY <1>5, <3>1 DEF FinishFailure, UpdateDeliveryStatus, TypeOK
  <2>2. delivery'[e].status \in {"RETRY_SCHEDULED", "PERMANENT_FAILURE"}
    <3>1. seen[w] = delivery[e]
      BY <1>5 DEF FinishFailure, HolderOwnsRow
    <3> QED  BY <1>5, <3>1 DEF FinishFailure, UpdateDeliveryStatus, TypeOK
  <2>3. PhaseAt(e) = "called"
    BY <1>0, <2>1 DEF PhaseAt, Leasable
  <2>4. \A d \in Deliveries : d # e => PhaseAt(d)' = PhaseAt(d)
    BY <2>1 DEF PhaseAt
  <2>5. CASE delivery'[e].status = "PERMANENT_FAILURE"
    <3>1. PhaseAt(e)' = "failed"
      BY <2>5 DEF PhaseAt, Leasable
    <3> QED  BY <2>1, <2>3, <2>4, <3>1, PhaseMove DEF Promise!Next, Promise!GiveUp
  <2>6. CASE delivery'[e].status = "RETRY_SCHEDULED"
    <3>1. PhaseAt(e)' = "waiting"
      BY <2>6 DEF PhaseAt, Leasable
    <3>2. calls[e] <= MaxRetries
      BY <2>1, <2>6 DEF CountInv, Leasable
    <3> QED  BY <2>1, <2>3, <2>4, <3>1, <3>2, PhaseMove DEF Promise!Next, Promise!Reschedule
  <2> QED  BY <2>2, <2>5, <2>6
<1>6. CASE \/ \E w \in Workers : Load(w) \/ LogAttempt(w) \/ Crash(w)
           \/ UNCHANGED vars
  <2>1. delivery' = delivery /\ calls' = calls
    BY <1>6 DEF Load, LogAttempt, CreateDeliveryAttempt, Crash, vars, rowVars, historyVars
  <2>2. \A d \in Deliveries : PhaseAt(d)' = PhaseAt(d)
    BY <2>1 DEF PhaseAt
  <2> QED  BY <2>1, <2>2, PhaseKept DEF Promise!vars
<1>7. CASE Tick
  <2>1. /\ calls' = calls
        /\ \A d \in Deliveries : delivery'[d].status = delivery[d].status
                                 /\ delivery'[d].retryCount = delivery[d].retryCount
    BY <1>7 DEF Tick, Aged
  <2>2. \A d \in Deliveries : PhaseAt(d)' = PhaseAt(d)
    BY <2>1 DEF PhaseAt
  <2> QED  BY <2>1, <2>2, PhaseKept DEF Promise!vars
<1> QED  BY <1>1, <1>2, <1>3, <1>4, <1>5, <1>6, <1>7 DEF Next, Step

\* The outbox implements DeliveryPromise.
THEOREM Refinement == Spec => PromiseKept
<1>1. Init => Promise!Init
  BY DEF Init, Promise!Init, phase, PhaseAt, CreatedDelivery, Leasable
<1> QED  BY <1>1, StepRefines, Invariance, PTL DEF Spec, PromiseKept, Promise!Spec

-------------------------------------------------------------------------------
(* The attempt log                                                            *)

\* The first n entries of a log are the failed attempts 1, ..., n.
FailuresLogged(log, n) == \A i \in 1..n :
    log[i].attemptNumber = i /\ log[i].status = "FAILED"

\* The log of a row no call is working on.
RowLogInv == \A d \in Deliveries :
    /\ delivery[d].status \in Leasable \cup {"PERMANENT_FAILURE"} =>
          /\ Len(attempts[d]) = delivery[d].retryCount
          /\ FailuresLogged(attempts[d], delivery[d].retryCount)
    /\ delivery[d].status = "SUCCEEDED" =>
          /\ Len(attempts[d]) = delivery[d].retryCount + 1
          /\ FailuresLogged(attempts[d], delivery[d].retryCount)
          /\ attempts[d][delivery[d].retryCount + 1] =
                [attemptNumber |-> delivery[d].retryCount + 1, status |-> "SUCCEEDED"]

\* The log of the row of a running call.
CallLogInv == \A w \in Workers :
    /\ pc[w] # "idle" =>
          FailuresLogged(attempts[job[w]], delivery[job[w]].retryCount)
    /\ pc[w] \in {"claimed", "loaded", "sent"} =>
          Len(attempts[job[w]]) = delivery[job[w]].retryCount
    /\ pc[w] = "logged" =>
          /\ Len(attempts[job[w]]) = delivery[job[w]].retryCount + 1
          /\ attempts[job[w]][delivery[job[w]].retryCount + 1] =
                [attemptNumber |-> delivery[job[w]].retryCount + 1,
                 status |-> IF result[w] = "success" THEN "SUCCEEDED" ELSE "FAILED"]

LogInv == RowLogInv /\ CallLogInv

\* One more failed attempt.
LEMMA OneMoreFailure ==
    ASSUME NEW log, NEW n \in Nat, FailuresLogged(log, n),
           log[n + 1] = [attemptNumber |-> n + 1, status |-> "FAILED"]
    PROVE  FailuresLogged(log, n + 1)
<1>1. \A i \in 1..(n + 1) : i \in 1..n \/ i = n + 1
  OBVIOUS
<1> QED  BY <1>1 DEF FailuresLogged

LEMMA NextLogInv == IInv /\ LogInv /\ [Next]_vars => LogInv'
<1> SUFFICES ASSUME IInv, LogInv, [Next]_vars PROVE LogInv'
  OBVIOUS
<1> USE DEF IInv
<1>0. /\ \A d \in Deliveries : delivery[d] \in Row /\ delivery[d].retryCount \in Nat
      /\ \A w \in Workers : pc[w] \in PC /\ (pc[w] # "idle" => job[w] \in Deliveries)
  BY OutboxAssumption DEF TypeOK, HolderOwnsRow, Row
<1>1. ASSUME NEW w \in Workers, NEW e \in Deliveries, Claim(w, e) PROVE LogInv'
  <2>1. /\ delivery[e].status \in Leasable /\ delivery'[e].status = "LEASED"
        /\ delivery'[e].retryCount = delivery[e].retryCount
        /\ \A d \in Deliveries : d # e => delivery'[d] = delivery[d]
        /\ attempts' = attempts /\ result' = result
        /\ pc'[w] = "claimed" /\ job'[w] = e
        /\ \A v \in Workers : v # w => pc'[v] = pc[v] /\ job'[v] = job[v]
    BY <1>1 DEF Claim, CanLease, TypeOK
  <2>2. \A v \in Workers : pc[v] # "idle" => job[v] # e
    BY <2>1 DEF HolderOwnsRow, Leasable
  <2>3. /\ Len(attempts[e]) = delivery[e].retryCount
        /\ FailuresLogged(attempts[e], delivery[e].retryCount)
    BY <2>1 DEF LogInv, RowLogInv, CallLogInv
  <2>4. RowLogInv'
    BY <2>1 DEF LogInv, RowLogInv, Leasable
  <2>5. CallLogInv'
    <3> SUFFICES ASSUME NEW v \in Workers
                 PROVE  /\ pc'[v] # "idle" =>
                              FailuresLogged(attempts[job'[v]], delivery'[job'[v]].retryCount)
                        /\ pc'[v] \in {"claimed", "loaded", "sent"} =>
                              Len(attempts[job'[v]]) = delivery'[job'[v]].retryCount
                        /\ pc'[v] = "logged" =>
                              /\ Len(attempts[job'[v]]) = delivery'[job'[v]].retryCount + 1
                              /\ attempts[job'[v]][delivery'[job'[v]].retryCount + 1] =
                                    [attemptNumber |-> delivery'[job'[v]].retryCount + 1,
                                     status |-> IF result[v] = "success" THEN "SUCCEEDED"
                                                ELSE "FAILED"]
      BY <2>1 DEF CallLogInv
    <3>1. CASE v = w
      BY <2>1, <2>3, <3>1
    <3>2. CASE v # w
      <4>1. pc'[v] = pc[v] /\ job'[v] = job[v]
        BY <2>1, <3>2
      <4>2. pc[v] # "idle" => delivery'[job[v]] = delivery[job[v]]
        BY <1>0, <2>1, <2>2
      <4> QED  BY <4>1, <4>2 DEF LogInv, CallLogInv
    <3> QED  BY <3>1, <3>2
  <2> QED  BY <2>4, <2>5 DEF LogInv
<1>2. ASSUME NEW w \in Workers, Load(w) \/ Send(w) PROVE LogInv'
  <2>1. /\ delivery' = delivery /\ attempts' = attempts /\ job' = job
        /\ pc[w] \in {"claimed", "loaded"} /\ pc'[w] \in {"loaded", "sent"}
        /\ \A v \in Workers : v # w => pc'[v] = pc[v] /\ result'[v] = result[v]
    BY <1>2 DEF Load, Send, TypeOK, rowVars
  <2> QED  BY <1>0, <2>1 DEF LogInv, RowLogInv, CallLogInv
<1>3. ASSUME NEW w \in Workers, LogAttempt(w) PROVE LogInv'
  <2> DEFINE entry == [attemptNumber |-> AttemptNumber(seen[w]),
                       status |-> IF result[w] = "success" THEN "SUCCEEDED" ELSE "FAILED"]
             rc == delivery[job[w]].retryCount
  <2>1. /\ job[w] \in Deliveries /\ delivery[job[w]].status = "LEASED"
        /\ seen[w] = delivery[job[w]]
        /\ attempts[job[w]] \in Seq(Attempt)
        /\ \A v \in Workers : v # w /\ pc[v] # "idle" => job[v] # job[w]
        /\ delivery' = delivery /\ job' = job /\ result' = result
        /\ pc'[w] = "logged" /\ \A v \in Workers : v # w => pc'[v] = pc[v]
        /\ pc[w] = "sent"
    BY <1>3 DEF LogAttempt, CreateDeliveryAttempt, HolderOwnsRow, TypeOK
  <2>2. rc \in Nat /\ Len(attempts[job[w]]) = rc /\ FailuresLogged(attempts[job[w]], rc)
    BY <1>0, <2>1 DEF LogInv, RowLogInv, CallLogInv
  <2>3. /\ attempts'[job[w]] = Append(attempts[job[w]], entry)
        /\ \A d \in Deliveries : d # job[w] => attempts'[d] = attempts[d]
    BY <1>3, <2>1 DEF LogAttempt, CreateDeliveryAttempt, TypeOK
  <2>4. entry = [attemptNumber |-> rc + 1,
                 status |-> IF result[w] = "success" THEN "SUCCEEDED" ELSE "FAILED"]
    BY <2>1 DEF AttemptNumber
  <2>5. /\ Len(attempts'[job[w]]) = rc + 1
        /\ attempts'[job[w]][rc + 1] = entry
        /\ \A i \in 1..rc : attempts'[job[w]][i] = attempts[job[w]][i]
    <3> HIDE DEF entry
    <3> QED  BY <2>1, <2>2, <2>3
  <2>6. FailuresLogged(attempts'[job[w]], rc)
    BY <2>2, <2>5 DEF FailuresLogged
  <2>7. RowLogInv'
    BY <2>1, <2>3 DEF LogInv, RowLogInv, Leasable
  <2>8. CallLogInv'
    <3> HIDE DEF entry
    <3> SUFFICES ASSUME NEW v \in Workers
                 PROVE  /\ pc'[v] # "idle" =>
                              FailuresLogged(attempts'[job[v]], delivery[job[v]].retryCount)
                        /\ pc'[v] \in {"claimed", "loaded", "sent"} =>
                              Len(attempts'[job[v]]) = delivery[job[v]].retryCount
                        /\ pc'[v] = "logged" =>
                              /\ Len(attempts'[job[v]]) = delivery[job[v]].retryCount + 1
                              /\ attempts'[job[v]][delivery[job[v]].retryCount + 1] =
                                    [attemptNumber |-> delivery[job[v]].retryCount + 1,
                                     status |-> IF result[v] = "success" THEN "SUCCEEDED"
                                                ELSE "FAILED"]
      BY <2>1 DEF CallLogInv
    <3>1. CASE v = w
      BY <2>1, <2>4, <2>5, <2>6, <3>1
    <3>2. CASE v # w
      BY <1>0, <2>1, <2>3, <3>2 DEF LogInv, CallLogInv
    <3> QED  BY <3>1, <3>2
  <2> QED  BY <2>7, <2>8 DEF LogInv
<1>4. ASSUME NEW w \in Workers, pc[w] # "idle", CallEnds(w), attempts' = attempts,
             \A d \in Deliveries : d # job[w] => delivery'[d] = delivery[d],
             \/ delivery'[job[w]] = delivery[job[w]]
             \/ /\ pc[w] = "loaded"
                /\ delivery'[job[w]].status = "RETRY_SCHEDULED"
                /\ delivery'[job[w]].retryCount = delivery[job[w]].retryCount
             \/ /\ pc[w] = "logged" /\ result[w] = "success"
                /\ delivery'[job[w]].status = "SUCCEEDED"
                /\ delivery'[job[w]].retryCount = delivery[job[w]].retryCount
             \/ /\ pc[w] = "logged" /\ result[w] # "success"
                /\ delivery'[job[w]].status \in {"RETRY_SCHEDULED", "PERMANENT_FAILURE"}
                /\ delivery'[job[w]].retryCount = delivery[job[w]].retryCount + 1
      PROVE  LogInv'
  <2> DEFINE rc == delivery[job[w]].retryCount
  <2>1. /\ pc'[w] = "idle"
        /\ \A v \in Workers : v # w =>
              pc'[v] = pc[v] /\ job'[v] = job[v] /\ result'[v] = result[v]
        /\ \A v \in Workers : v # w /\ pc[v] # "idle" => job[v] # job[w]
        /\ job[w] \in Deliveries /\ delivery[job[w]].status = "LEASED" /\ rc \in Nat
    BY <1>0, <1>4 DEF CallEnds, TypeOK, HolderOwnsRow
  <2>2. FailuresLogged(attempts[job[w]], rc)
    BY <1>4 DEF LogInv, RowLogInv, CallLogInv
  <2>3. pc[w] = "logged" /\ result[w] # "success" => FailuresLogged(attempts[job[w]], rc + 1)
    BY <2>1, <2>2, OneMoreFailure DEF LogInv, RowLogInv, CallLogInv
  <2>4. \A v \in Workers : v # w /\ pc[v] # "idle" => delivery'[job[v]] = delivery[job[v]]
    BY <1>0, <1>4, <2>1
  <2>5. ASSUME NEW d \in Deliveries
        PROVE  /\ delivery'[d].status \in Leasable \cup {"PERMANENT_FAILURE"} =>
                    /\ Len(attempts[d]) = delivery'[d].retryCount
                    /\ FailuresLogged(attempts[d], delivery'[d].retryCount)
               /\ delivery'[d].status = "SUCCEEDED" =>
                    /\ Len(attempts[d]) = delivery'[d].retryCount + 1
                    /\ FailuresLogged(attempts[d], delivery'[d].retryCount)
                    /\ attempts[d][delivery'[d].retryCount + 1] =
                         [attemptNumber |-> delivery'[d].retryCount + 1, status |-> "SUCCEEDED"]
    <3>1. CASE d # job[w]
      BY <1>4, <3>1 DEF LogInv, RowLogInv, CallLogInv
    <3>2. CASE d = job[w]
      BY <1>4, <2>1, <2>2, <2>3, <3>2 DEF LogInv, RowLogInv, CallLogInv, Leasable
    <3> QED  BY <3>1, <3>2
  <2>6. RowLogInv'
    BY <1>4, <2>5 DEF RowLogInv
  <2>7. CallLogInv'
    <3>1. ASSUME NEW v \in Workers, pc'[v] # "idle"
          PROVE  /\ pc[v] # "idle" /\ pc'[v] = pc[v] /\ job'[v] = job[v]
                 /\ result'[v] = result[v] /\ delivery'[job[v]] = delivery[job[v]]
      BY <2>1, <2>4, <3>1
    <3> QED  BY <1>4, <3>1 DEF LogInv, CallLogInv
  <2> QED  BY <2>6, <2>7 DEF LogInv
<1>5. ASSUME NEW w \in Workers, ReleaseNotDue(w) PROVE LogInv'
  BY <1>4, <1>5 DEF ReleaseNotDue, HolderOwnsRow, UpdateDeliveryStatus, TypeOK
<1>6. ASSUME NEW w \in Workers, FinishSuccess(w) PROVE LogInv'
  BY <1>4, <1>6 DEF FinishSuccess, HolderOwnsRow, UpdateDeliveryStatus, TypeOK
<1>7. ASSUME NEW w \in Workers, FinishFailure(w) PROVE LogInv'
  <2>1. /\ pc[w] = "logged" /\ result[w] # "success" /\ CallEnds(w) /\ attempts' = attempts
        /\ job[w] \in Deliveries /\ seen[w] = delivery[job[w]]
    BY <1>7 DEF FinishFailure, HolderOwnsRow
  <2>2. /\ \A d \in Deliveries : d # job[w] => delivery'[d] = delivery[d]
        /\ delivery'[job[w]].status \in {"RETRY_SCHEDULED", "PERMANENT_FAILURE"}
        /\ delivery'[job[w]].retryCount = delivery[job[w]].retryCount + 1
    BY <1>7, <2>1 DEF FinishFailure, UpdateDeliveryStatus, TypeOK
  <2> QED  BY <1>4, <2>1, <2>2
<1>8. ASSUME NEW w \in Workers, Crash(w) PROVE LogInv'
  BY <1>0, <1>4, <1>8 DEF Crash, rowVars
<1>9. CASE Tick
  <2>1. /\ attempts' = attempts /\ pc' = pc /\ job' = job /\ result' = result
        /\ \A d \in Deliveries : delivery'[d].status = delivery[d].status
                                 /\ delivery'[d].retryCount = delivery[d].retryCount
    BY <1>9 DEF Tick, Aged
  <2> QED  BY <1>0, <2>1 DEF LogInv, RowLogInv, CallLogInv
<1>10. CASE UNCHANGED vars
  BY <1>10 DEF vars, rowVars, workerVars, LogInv, RowLogInv, CallLogInv
<1> QED  BY <1>1, <1>2, <1>3, <1>5, <1>6, <1>7, <1>8, <1>9, <1>10 DEF Next, Step

\* The attempt log of a row that is in no worker's hands is complete.
THEOREM AuditIsComplete == Spec => []AuditComplete
<1>1. Init => LogInv
  BY OutboxAssumption DEF Init, LogInv, RowLogInv, CallLogInv, CreatedDelivery, Leasable, FailuresLogged
<1>2. Spec => []LogInv
  BY <1>1, NextLogInv, Invariance, PTL DEF Spec
<1>3. IInv /\ LogInv => AuditComplete
  <2> SUFFICES ASSUME IInv, LogInv, NEW d \in Deliveries, delivery[d].status # "LEASED"
               PROVE  /\ Len(attempts[d]) = calls[d]
                      /\ \A i \in 1..Len(attempts[d]) :
                            /\ attempts[d][i].attemptNumber = i
                            /\ (attempts[d][i].status = "SUCCEEDED") <=>
                                  (delivery[d].status = "SUCCEEDED" /\ i = Len(attempts[d]))
    BY DEF AuditComplete
  <2>1. delivery[d].status \in DeliveryStatus /\ delivery[d].retryCount \in Nat
    BY RowFields DEF IInv
  <2>2. CASE delivery[d].status = "SUCCEEDED"
    <3>1. \A i \in 1..(delivery[d].retryCount + 1) :
              i \in 1..delivery[d].retryCount \/ i = delivery[d].retryCount + 1
      BY <2>1
    <3>2. /\ Len(attempts[d]) = delivery[d].retryCount + 1
          /\ calls[d] = delivery[d].retryCount + 1
          /\ \A i \in 1..delivery[d].retryCount :
                attempts[d][i].attemptNumber = i /\ attempts[d][i].status = "FAILED"
          /\ attempts[d][delivery[d].retryCount + 1].attemptNumber = delivery[d].retryCount + 1
          /\ attempts[d][delivery[d].retryCount + 1].status = "SUCCEEDED"
      <4>1. calls[d] = delivery[d].retryCount + 1
        BY <2>2 DEF IInv, CountInv
      <4>2. /\ Len(attempts[d]) = delivery[d].retryCount + 1
            /\ FailuresLogged(attempts[d], delivery[d].retryCount)
            /\ attempts[d][delivery[d].retryCount + 1] =
                  [attemptNumber |-> delivery[d].retryCount + 1, status |-> "SUCCEEDED"]
        BY <2>2 DEF LogInv, RowLogInv
      <4> QED  BY <4>1, <4>2 DEF FailuresLogged
    <3> QED  BY <2>1, <2>2, <3>1, <3>2
  <2>3. CASE delivery[d].status \in Leasable \cup {"PERMANENT_FAILURE"}
    <3>1. calls[d] = delivery[d].retryCount
      BY <2>3 DEF IInv, CountInv
    <3>2. /\ Len(attempts[d]) = delivery[d].retryCount
          /\ FailuresLogged(attempts[d], delivery[d].retryCount)
      BY <2>3 DEF LogInv, RowLogInv
    <3> QED  BY <2>3, <3>1, <3>2 DEF FailuresLogged, Leasable
  <2> QED  BY <2>1, <2>2, <2>3 DEF DeliveryStatus, Leasable
<1> QED  BY <1>2, <1>3, Invariance, PTL

===============================================================================

--------------------------- MODULE DeliveryPromise ---------------------------
(* What the outbox promises of each notification delivery, whoever works on   *)
(* it: at most one invocation of the channel provider is in flight, it is made *)
(* only for a claimed delivery, at most MaxRetries + 1 are made in all, and a  *)
(* delivery that reached a terminal phase is never touched again.             *)
(*                                                                            *)
(* NotificationOutbox implements this specification.                          *)
EXTENDS Naturals

CONSTANTS
    Deliveries,     \* rows of NotificationDelivery
    MaxRetries      \* NotificationDelivery.maxRetries

VARIABLES
    phase,          \* where each delivery is
    calls           \* provider invocations made for each delivery

vars == <<phase, calls>>

Phases == {"waiting", "claimed", "called", "delivered", "failed"}

Init ==
    /\ phase = [d \in Deliveries |-> "waiting"]
    /\ calls = [d \in Deliveries |-> 0]

Move(d, from, to) ==
    /\ phase[d] = from
    /\ phase' = [phase EXCEPT ![d] = to]

Claim(d)   == Move(d, "waiting", "claimed") /\ UNCHANGED calls
Release(d) == Move(d, "claimed", "waiting") /\ UNCHANGED calls

Call(d) ==
    /\ Move(d, "claimed", "called")
    /\ calls[d] <= MaxRetries
    /\ calls' = [calls EXCEPT ![d] = @ + 1]

Deliver(d) == Move(d, "called", "delivered") /\ UNCHANGED calls
GiveUp(d)  == Move(d, "called", "failed") /\ UNCHANGED calls

Reschedule(d) ==
    /\ Move(d, "called", "waiting")
    /\ calls[d] <= MaxRetries
    /\ UNCHANGED calls

Next == \E d \in Deliveries :
    Claim(d) \/ Release(d) \/ Call(d) \/ Deliver(d) \/ GiveUp(d) \/ Reschedule(d)

Spec == Init /\ [][Next]_vars
==============================================================================

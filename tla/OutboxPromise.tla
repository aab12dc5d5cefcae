--------------------------- MODULE OutboxPromise ---------------------------
(***************************************************************************)
(* What internal/outbox promises to the service that inserts events and to *)
(* the readers of the topic, without claims, leases, attempts or workers:  *)
(* only an accepted event is delivered, a confirmed event has been         *)
(* delivered, and confirmation and abandonment are final.  A delivery may  *)
(* still follow an abandonment; repeated deliveries are not visible here.  *)
(***************************************************************************)
CONSTANT Events

VARIABLES
    phase,      \* "absent", "pending", "confirmed" or "abandoned"
    delivered   \* events with a record on the topic

promiseVars == <<phase, delivered>>

Init ==
    /\ phase = [e \in Events |-> "absent"]
    /\ delivered = {}

Accept(e) ==
    /\ phase[e] = "absent"
    /\ phase' = [phase EXCEPT ![e] = "pending"]
    /\ UNCHANGED delivered

Deliver(e) ==
    /\ phase[e] # "absent"
    /\ delivered' = delivered \cup {e}
    /\ UNCHANGED phase

Confirm(e) ==
    /\ phase[e] = "pending"
    /\ e \in delivered
    /\ phase' = [phase EXCEPT ![e] = "confirmed"]
    /\ UNCHANGED delivered

Abandon(e) ==
    /\ phase[e] = "pending"
    /\ phase' = [phase EXCEPT ![e] = "abandoned"]
    /\ UNCHANGED delivered

Next == \E e \in Events : Accept(e) \/ Deliver(e) \/ Confirm(e) \/ Abandon(e)

Spec == Init /\ [][Next]_promiseVars
=============================================================================

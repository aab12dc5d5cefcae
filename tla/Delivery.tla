------------------------------ MODULE Delivery ------------------------------
(***************************************************************************)
(* What a client of the service sees of an event, without outbox, topic or *)
(* consumers: it is accepted with the change that caused it, and then it   *)
(* is written to the audit at most once.  Nothing else is ever audited,    *)
(* and an audit row stays.                                                 *)
(***************************************************************************)
EXTENDS Integers

CONSTANT Events

VARIABLES
    accepted,  \* events whose transaction is committed
    rows       \* audit rows of each event

deliveryVars == <<accepted, rows>>

Init ==
    /\ accepted = {}
    /\ rows = [e \in Events |-> 0]

Accept(e) ==
    /\ e \notin accepted
    /\ accepted' = accepted \cup {e}
    /\ UNCHANGED rows

Audit(e) ==
    /\ e \in accepted
    /\ rows[e] = 0
    /\ rows' = [rows EXCEPT ![e] = 1]
    /\ UNCHANGED accepted

Next == \E e \in Events : Accept(e) \/ Audit(e)

Spec == Init /\ [][Next]_deliveryVars
=============================================================================

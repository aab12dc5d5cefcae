------------------------------ MODULE MCOutbox ------------------------------
(* An instance of Outbox for TLC. *)
EXTENDS Outbox

CONSTANTS w1, w2, e1, e2, e3

MCWorkers == {w1, w2}
MCEvents == {e1, e2, e3}
\* e3 is the oldest; e1 and e2 tie, which ORDER BY may break either way.
MCCreatedAt == [e \in MCEvents |-> IF e = e3 THEN 0 ELSE 1]
=============================================================================

----------------------------- MODULE MCPipeline -----------------------------
(* An instance of Pipeline for TLC. *)
EXTENDS Pipeline

CONSTANTS w1, w2, e1, c1, c2

MCEvents == {e1}
MCWorkers == {w1, w2}
MCConsumers == {c1, c2}
MCCreatedAt == [e \in Events |-> 0]
=============================================================================

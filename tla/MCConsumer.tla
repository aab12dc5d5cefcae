----------------------------- MODULE MCConsumer -----------------------------
(* Instances of Consumer for TLC. *)
EXTENDS Consumer

CONSTANTS c1, c2, good1, good2, bad

OneConsumer   == {c1}
TwoConsumers  == {c1, c2}
GoodEvents    == {good1, good2}
MixedEvents   == {good1, bad}
BadEvents     == {bad}
NoEvents      == {}
TwoRecords    == 0..2
ThreeRecords  == 0..3
=============================================================================

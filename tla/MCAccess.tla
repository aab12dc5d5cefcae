------------------------------ MODULE MCAccess ------------------------------
(* An instance of Access for TLC. *)
EXTENDS Access

CONSTANTS u1, u2, s1, c1

MCUsers    == {u1, u2}
MCSessions == {s1}
MCCalls    == {c1}
=============================================================================

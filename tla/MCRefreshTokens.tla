-------------------------- MODULE MCRefreshTokens --------------------------
(* Instances of RefreshTokens for TLC. *)
EXTENDS RefreshTokens, TLC

CONSTANTS u1, u2, r1, r2, r3

OneUser  == {u1}
TwoUsers == {u1, u2}
TwoRequests   == {r1, r2}
ThreeRequests == {r1, r2, r3}
=============================================================================

--------------------------- MODULE MCRateLimiter ---------------------------
(* An instance of RateLimiter for TLC. *)
EXTENDS RateLimiter

CONSTANTS ann, Ann, bob, ip1, ip2

MCClients   == {ip1, ip2}
MCSpellings == {ann, Ann, bob}
MCNormal    == [s \in MCSpellings |-> IF s = Ann THEN ann ELSE s]

\* Login is limited as configured, registration has a window that is refused,
\* and refresh has no limit.
MCLimit  == [r \in Routes |-> CASE r = "login" -> 2 [] r = "register" -> 1 [] OTHER -> 0]
MCWindow == [r \in Routes |-> CASE r = "login" -> 2 [] r = "register" -> 0 [] OTHER -> 1]
=============================================================================

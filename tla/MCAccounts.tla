----------------------------- MODULE MCAccounts -----------------------------
(* Instances of Accounts for TLC. *)
EXTENDS Accounts, TLC

CONSTANTS ann, Ann, bob, r1, r2

\* Ann is another spelling of ann.
MCSpellings == {ann, Ann, bob}
MCNormal    == [s \in MCSpellings |-> IF s = Ann THEN ann ELSE s]
MCRequests  == {r1, r2}
=============================================================================

------------------------------ MODULE Rotation ------------------------------
(***************************************************************************)
(* What the auth service promises about refresh tokens, without requests,  *)
(* transactions or locks: a token is issued to an account that exists, is  *)
(* exchanged for a new one or revoked in one step, and disappears with its *)
(* account.  An exchanged token is revoked by the exchange.                *)
(***************************************************************************)
CONSTANTS Users, Tokens, None

VARIABLES
    account,   \* "absent", "present" or "deleted"
    token,     \* "unused", "live", "revoked" or "gone"
    owner,     \* account a token belongs to
    parent     \* token that was exchanged for this one

rotationVars == <<account, token, owner, parent>>

Init ==
    /\ account = [u \in Users |-> "absent"]
    /\ token = [t \in Tokens |-> "unused"]
    /\ owner = [t \in Tokens |-> None]
    /\ parent = [t \in Tokens |-> None]

Open(u, n) ==
    /\ account[u] = "absent"
    /\ token[n] = "unused"
    /\ account' = [account EXCEPT ![u] = "present"]
    /\ token' = [token EXCEPT ![n] = "live"]
    /\ owner' = [owner EXCEPT ![n] = u]
    /\ UNCHANGED parent

Issue(u, n) ==
    /\ account[u] = "present"
    /\ token[n] = "unused"
    /\ token' = [token EXCEPT ![n] = "live"]
    /\ owner' = [owner EXCEPT ![n] = u]
    /\ UNCHANGED <<account, parent>>

Exchange(t, n) ==
    /\ token[t] = "live"
    /\ token[n] = "unused"
    /\ account[owner[t]] = "present"
    /\ token' = [token EXCEPT ![t] = "revoked", ![n] = "live"]
    /\ owner' = [owner EXCEPT ![n] = owner[t]]
    /\ parent' = [parent EXCEPT ![n] = t]
    /\ UNCHANGED account

Revoke(t) ==
    /\ token[t] = "live"
    /\ token' = [token EXCEPT ![t] = "revoked"]
    /\ UNCHANGED <<account, owner, parent>>

Close(u) ==
    /\ account[u] = "present"
    /\ account' = [account EXCEPT ![u] = "deleted"]
    /\ token' = [t \in Tokens |-> IF owner[t] = u THEN "gone" ELSE token[t]]
    /\ UNCHANGED <<owner, parent>>

Next ==
    \/ \E u \in Users, n \in Tokens : Open(u, n) \/ Issue(u, n)
    \/ \E t, n \in Tokens : Exchange(t, n)
    \/ \E t \in Tokens : Revoke(t)
    \/ \E u \in Users : Close(u)

Spec == Init /\ [][Next]_rotationVars
=============================================================================

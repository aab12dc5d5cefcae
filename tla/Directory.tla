----------------------------- MODULE Directory -----------------------------
(***************************************************************************)
(* What the user service promises about accounts, without requests,        *)
(* transactions or an index: an account joins under an address that nobody *)
(* has, in one step with its profile and with the event that announces it, *)
(* changes to an address that nobody else has, and leaves for good, its    *)
(* profile with it and its event not.                                      *)
(***************************************************************************)
EXTENDS Naturals

CONSTANTS
    Addresses,  \* in their normal spelling
    Kinds,      \* of requests that create accounts
    Profiled,   \* kinds whose accounts have a profile
    Ids,
    None

VARIABLES
    address,   \* of each account that is there, None for the others
    kind,      \* what has created an account, None before
    profiles,  \* accounts with a profile
    announced  \* events of each account

directoryVars == <<address, kind, profiles, announced>>

Init ==
    /\ address = [i \in Ids |-> None]
    /\ kind = [i \in Ids |-> None]
    /\ profiles = {}
    /\ announced = [i \in Ids |-> 0]

FreeFor(a, i) == \A j \in Ids \ {i} : address[j] # a

Join(i, a, k) ==
    /\ kind[i] = None
    /\ FreeFor(a, i)
    /\ address' = [address EXCEPT ![i] = a]
    /\ kind' = [kind EXCEPT ![i] = k]
    /\ profiles' = IF k \in Profiled THEN profiles \cup {i} ELSE profiles
    /\ announced' = [announced EXCEPT ![i] = 1]

Change(i, a) ==
    /\ address[i] # None
    /\ FreeFor(a, i)
    /\ address' = [address EXCEPT ![i] = a]
    /\ UNCHANGED <<kind, profiles, announced>>

Leave(i) ==
    /\ address[i] # None
    /\ address' = [address EXCEPT ![i] = None]
    /\ profiles' = profiles \ {i}
    /\ UNCHANGED <<kind, announced>>

Next == \E i \in Ids :
    \/ Leave(i)
    \/ \E a \in Addresses : Change(i, a) \/ \E k \in Kinds : Join(i, a, k)

Spec == Init /\ [][Next]_directoryVars
=============================================================================

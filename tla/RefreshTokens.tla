--------------------------- MODULE RefreshTokens ---------------------------
(***************************************************************************)
(* The refresh tokens of internal/auth: Register, Login, Refresh, Logout   *)
(* and the deletion of a user, as requests that run at the same time on    *)
(* the tables users and refresh_tokens.                                    *)
(*                                                                         *)
(* Transactions are READ COMMITTED: each statement sees what is committed  *)
(* when it starts.  Two things make a statement wait.  An update of a      *)
(* token waits for the open transaction that has updated it, and the       *)
(* deletion of a user waits for open transactions that have inserted a     *)
(* token of that user, whose foreign key locks the user's row.  The tables *)
(* hold committed rows only; what an open transaction has written is kept  *)
(* with its request.                                                       *)
(***************************************************************************)
EXTENDS Naturals, FiniteSets

CONSTANTS
    Users,      \* accounts
    MaxTokens,  \* bound: tokens ever inserted
    Requests,   \* requests that may be served at the same time
    None,       \* no token, no user
    MaxFaults   \* bound: errors of the database and lost answers

Tokens == 1..MaxTokens

ASSUME NoneAssumption  == None \notin Users /\ None \notin Tokens
ASSUME BoundAssumption == MaxTokens \in Nat /\ MaxFaults \in Nat

VARIABLES
    account,   \* row of users: "absent", "present" or "deleted"
    token,     \* row of refresh_tokens: "unused", "live", "revoked" or "gone"
    owner,     \* user_id of a token
    parent,    \* token that Refresh has exchanged for this one
    session,   \* first token of the chain of exchanges this one belongs to
    expired,   \* tokens past their expires_at
    held,      \* tokens clients have received
    pc,        \* where a request is
    old,       \* token the client has presented
    new,       \* token the open transaction has inserted
    who,       \* user the request has loaded
    faults     \* faults so far

history == <<parent, session>>
rows    == <<account, token, owner, history>>
request == <<pc, old, new, who>>
vars    == <<rows, expired, held, request, faults>>

Places  == {"idle", "found", "loaded", "issued", "revoked", "leaving", "login"}
Ended   == {"revoked", "gone"}

Fault == faults < MaxFaults /\ faults' = faults + 1

Init ==
    /\ account = [u \in Users |-> "absent"]
    /\ token = [t \in Tokens |-> "unused"]
    /\ owner = [t \in Tokens |-> None]
    /\ parent = [t \in Tokens |-> None]
    /\ session = [t \in Tokens |-> t]
    /\ expired = {}
    /\ held = {}
    /\ pc = [r \in Requests |-> "idle"]
    /\ old = [r \in Requests |-> None]
    /\ new = [r \in Requests |-> None]
    /\ who = [r \in Requests |-> None]
    /\ faults = 0

-----------------------------------------------------------------------------
\* A value Generate has not given before; which one makes no difference.
Unused(n) == token[n] = "unused" /\ \A r \in Requests : new[r] # n
Generate(n) == Unused(n) /\ \A m \in Tokens : Unused(m) => n <= m

\* Bound: every request that may insert a token finds an unused one.
Inserting == {r \in Requests : pc[r] \notin {"idle", "leaving"}}
Room == Cardinality({t \in Tokens : token[t] # "unused"}) + Cardinality(Inserting) < MaxTokens

\* The request is answered; WithinTx rolls an open transaction back.
Finish(r) ==
    /\ pc' = [pc EXCEPT ![r] = "idle"]
    /\ old' = [old EXCEPT ![r] = None]
    /\ new' = [new EXCEPT ![r] = None]
    /\ who' = [who EXCEPT ![r] = None]

Goto(r, place) ==
    /\ pc' = [pc EXCEPT ![r] = place]
    /\ UNCHANGED <<old, new, who>>

\* Another open transaction has updated the row of t.
Locked(r, t) == \E q \in Requests \ {r} : pc[q] = "revoked" /\ old[q] = t

-----------------------------------------------------------------------------
(* Register and Login *)

\* The commit of Register's transaction: the account and its first token.
Register(r, u, n) ==
    /\ pc[r] = "idle"
    /\ account[u] = "absent"
    /\ Room
    /\ Generate(n)
    /\ account' = [account EXCEPT ![u] = "present"]
    /\ token' = [token EXCEPT ![n] = "live"]
    /\ owner' = [owner EXCEPT ![n] = u]
    /\ held' = held \cup {n}
    /\ UNCHANGED <<history, expired, request, faults>>

\* The transaction is committed, but its answer is lost: the account and its
\* token are there, and the client gets an error.
RegisterLost(r, u, n) ==
    /\ Fault
    /\ pc[r] = "idle"
    /\ account[u] = "absent"
    /\ Room
    /\ Generate(n)
    /\ account' = [account EXCEPT ![u] = "present"]
    /\ token' = [token EXCEPT ![n] = "live"]
    /\ owner' = [owner EXCEPT ![n] = u]
    /\ UNCHANGED <<history, expired, held, request>>

\* FindByEmail finds the account and the password is right.
LoginFind(r, u) ==
    /\ pc[r] = "idle"
    /\ account[u] = "present"
    /\ Room
    /\ pc' = [pc EXCEPT ![r] = "login"]
    /\ who' = [who EXCEPT ![r] = u]
    /\ UNCHANGED <<rows, expired, held, old, new, faults>>

\* Variant: the token's user_id has no foreign key.
LoginIssueUnchecked(r, n) ==
    /\ pc[r] = "login"
    /\ Generate(n)
    /\ token' = [token EXCEPT ![n] = "live"]
    /\ owner' = [owner EXCEPT ![n] = who[r]]
    /\ held' = held \cup {n}
    /\ Finish(r)
    /\ UNCHANGED <<account, history, expired, faults>>
\* issueTokenPair without a transaction.
LoginIssue(r, n) ==
    /\ pc[r] = "login"
    /\ account[who[r]] = "present"
    /\ Generate(n)
    /\ token' = [token EXCEPT ![n] = "live"]
    /\ owner' = [owner EXCEPT ![n] = who[r]]
    /\ held' = held \cup {n}
    /\ Finish(r)
    /\ UNCHANGED <<account, history, expired, faults>>

\* The user was deleted meanwhile: the insert violates the foreign key.
LoginOrphan(r) ==
    /\ pc[r] = "login"
    /\ account[who[r]] # "present"
    /\ Finish(r)
    /\ UNCHANGED <<rows, expired, held, faults>>

\* The insert is executed, but its answer is lost: nobody holds the new token.
LoginIssueLost(r, n) ==
    /\ Fault
    /\ pc[r] = "login"
    /\ account[who[r]] = "present"
    /\ Generate(n)
    /\ token' = [token EXCEPT ![n] = "live"]
    /\ owner' = [owner EXCEPT ![n] = who[r]]
    /\ Finish(r)
    /\ UNCHANGED <<account, history, expired, held>>

\* The insert fails, or the process ends before it.
LoginError(r) ==
    /\ Fault
    /\ pc[r] = "login"
    /\ Finish(r)
    /\ UNCHANGED <<rows, expired, held>>

-----------------------------------------------------------------------------
(* Refresh, one transaction *)

\* FindRefreshTokenByHash and IsActive.
RefreshFind(r, t) ==
    /\ pc[r] = "idle"
    /\ token[t] = "live" /\ t \notin expired
    /\ Room
    /\ pc' = [pc EXCEPT ![r] = "found"]
    /\ old' = [old EXCEPT ![r] = t]
    /\ UNCHANGED <<rows, expired, held, new, who, faults>>

\* No such token, or it is revoked or expired.
RefreshReject(r, t) ==
    /\ pc[r] = "idle"
    /\ token[t] # "live" \/ t \in expired
    /\ UNCHANGED vars

\* FindByID of the token's user.
RefreshLoad(r) ==
    /\ pc[r] = "found"
    /\ IF account[owner[old[r]]] = "present"
       THEN /\ pc' = [pc EXCEPT ![r] = "loaded"]
            /\ who' = [who EXCEPT ![r] = owner[old[r]]]
            /\ UNCHANGED <<old, new>>
       ELSE Finish(r)
    /\ UNCHANGED <<rows, expired, held, faults>>

\* CreateRefreshToken: the foreign key holds, and locks the user's row.
RefreshIssue(r, n) ==
    /\ pc[r] = "loaded"
    /\ account[who[r]] = "present"
    /\ Generate(n)
    /\ pc' = [pc EXCEPT ![r] = "issued"]
    /\ new' = [new EXCEPT ![r] = n]
    /\ UNCHANGED <<rows, expired, held, old, who, faults>>

\* The user was deleted after FindByID.
RefreshOrphan(r) ==
    /\ pc[r] = "loaded"
    /\ account[who[r]] # "present"
    /\ Finish(r)
    /\ UNCHANGED <<rows, expired, held, faults>>

\* Variant: the update does not ask for revoked_at is null.
RevokeOldAlways(r) ==
    /\ pc[r] = "issued"
    /\ ~Locked(r, old[r])
    /\ Goto(r, "revoked")
    /\ UNCHANGED <<rows, expired, held, faults>>
\* Variant: an update that finds no row is tried again.
RevokeOldRetry(r) ==
    /\ pc[r] = "issued"
    /\ ~Locked(r, old[r])
    /\ token[old[r]] = "live"
    /\ Goto(r, "revoked")
    /\ UNCHANGED <<rows, expired, held, faults>>
\* RevokeRefreshToken of the old token.  If another request has revoked it, no
\* row is updated, and the error rolls the new token back.
RevokeOld(r) ==
    /\ pc[r] = "issued"
    /\ ~Locked(r, old[r])
    /\ IF token[old[r]] = "live" THEN Goto(r, "revoked") ELSE Finish(r)
    /\ UNCHANGED <<rows, expired, held, faults>>

\* Variant: the new row has no user.
ExchangedNoUser(r) ==
    /\ token' = [token EXCEPT ![old[r]] = "revoked", ![new[r]] = "live"]
    /\ parent' = [parent EXCEPT ![new[r]] = old[r]]
    /\ session' = [session EXCEPT ![new[r]] = session[old[r]]]
    /\ UNCHANGED <<account, owner>>
\* What the transaction writes becomes visible.
Exchanged(r) ==
    /\ token' = [token EXCEPT ![old[r]] = "revoked", ![new[r]] = "live"]
    /\ owner' = [owner EXCEPT ![new[r]] = who[r]]
    /\ parent' = [parent EXCEPT ![new[r]] = old[r]]
    /\ session' = [session EXCEPT ![new[r]] = session[old[r]]]
    /\ UNCHANGED account

RefreshCommit(r) ==
    /\ pc[r] = "revoked"
    /\ Exchanged(r)
    /\ held' = held \cup {new[r]}
    /\ Finish(r)
    /\ UNCHANGED <<expired, faults>>

\* The commit is executed, but its answer is lost: the client gets an error.
RefreshCommitLost(r) ==
    /\ Fault
    /\ pc[r] = "revoked"
    /\ Exchanged(r)
    /\ Finish(r)
    /\ UNCHANGED <<expired, held>>

\* A statement fails, or the process ends.
RefreshError(r) ==
    /\ Fault
    /\ pc[r] \in {"found", "loaded", "issued", "revoked"}
    /\ Finish(r)
    /\ UNCHANGED <<rows, expired, held>>

-----------------------------------------------------------------------------
(* Logout, two statements without a transaction *)

\* The token is there and not revoked; it may be expired.
LogoutFind(r, t) ==
    /\ pc[r] = "idle"
    /\ token[t] = "live"
    /\ pc' = [pc EXCEPT ![r] = "leaving"]
    /\ old' = [old EXCEPT ![r] = t]
    /\ UNCHANGED <<rows, expired, held, new, who, faults>>

\* An unknown or revoked token: success, and nothing to do.
LogoutNothing(r, t) ==
    /\ pc[r] = "idle"
    /\ token[t] # "live"
    /\ UNCHANGED vars

LogoutRevoke(r) ==
    /\ pc[r] = "leaving"
    /\ ~Locked(r, old[r])
    /\ token[old[r]] = "live"
    /\ token' = [token EXCEPT ![old[r]] = "revoked"]
    /\ Finish(r)
    /\ UNCHANGED <<account, owner, history, expired, held, faults>>

\* The token was revoked or deleted meanwhile: no row is updated, and the
\* client is answered with an internal error.
LogoutMissed(r) ==
    /\ pc[r] = "leaving"
    /\ ~Locked(r, old[r])
    /\ token[old[r]] # "live"
    /\ Finish(r)
    /\ UNCHANGED <<rows, expired, held, faults>>

\* A statement fails; the update may have been executed.
LogoutError(r) ==
    /\ Fault
    /\ pc[r] = "leaving"
    /\ \/ UNCHANGED token
       \/ /\ token[old[r]] = "live" /\ ~Locked(r, old[r])
          /\ token' = [token EXCEPT ![old[r]] = "revoked"]
    /\ Finish(r)
    /\ UNCHANGED <<account, owner, history, expired, held>>

-----------------------------------------------------------------------------
(* Deletion of a user, and time *)

\* Variant: tokens stay when their user is deleted.
DeleteUserKeepingTokens(u) ==
    /\ account[u] = "present"
    /\ \A r \in Requests : pc[r] \in {"issued", "revoked"} => who[r] # u
    /\ account' = [account EXCEPT ![u] = "deleted"]
    /\ UNCHANGED <<token, owner, history, expired, held, request, faults>>
\* One statement; on delete cascade takes the tokens along.
DeleteUser(u) ==
    /\ account[u] = "present"
    /\ \A r \in Requests : pc[r] \in {"issued", "revoked"} => who[r] # u
    /\ account' = [account EXCEPT ![u] = "deleted"]
    /\ token' = [t \in Tokens |-> IF owner[t] = u THEN "gone" ELSE token[t]]
    /\ UNCHANGED <<owner, history, expired, held, request, faults>>

Expire(t) ==
    /\ token[t] # "unused"
    /\ t \notin expired
    /\ expired' = expired \cup {t}
    /\ UNCHANGED <<rows, held, request, faults>>

-----------------------------------------------------------------------------
\* Anybody may present anything; an active token only who has received it.
Arrive(r) ==
    \/ \E u \in Users : LoginFind(r, u) \/ \E n \in Tokens : Register(r, u, n)
    \/ \E t \in held : RefreshFind(r, t) \/ LogoutFind(r, t)
    \/ \E t \in Tokens : RefreshReject(r, t) \/ LogoutNothing(r, t)
Serve(r) ==
    \/ RefreshLoad(r)
    \/ RefreshOrphan(r)
    \/ RevokeOld(r)
    \/ RefreshCommit(r)
    \/ LogoutRevoke(r)
    \/ LogoutMissed(r)
    \/ LoginOrphan(r)
    \/ \E n \in Tokens : LoginIssue(r, n) \/ RefreshIssue(r, n)
Trouble(r) ==
    \/ LoginError(r)
    \/ RefreshError(r)
    \/ RefreshCommitLost(r)
    \/ LogoutError(r)
    \/ \E n \in Tokens : LoginIssueLost(r, n) \/ \E u \in Users : RegisterLost(r, u, n)

Next ==
    \/ \E r \in Requests : Arrive(r) \/ Serve(r) \/ Trouble(r)
    \/ \E u \in Users : DeleteUser(u)
    \/ \E t \in Tokens : Expire(t)

Spec == Init /\ [][Next]_vars

\* The server goes on with a request it has accepted.
FairSpec == Spec /\ \A r \in Requests : WF_vars(Serve(r))
-----------------------------------------------------------------------------
(* Properties *)

\* Types; what a request holds agrees with where it is.
TypeOK ==
    /\ account \in [Users -> {"absent", "present", "deleted"}]
    /\ token \in [Tokens -> {"unused", "live"} \cup Ended]
    /\ owner \in [Tokens -> Users \cup {None}]
    /\ parent \in [Tokens -> Tokens \cup {None}]
    /\ session \in [Tokens -> Tokens]
    /\ expired \subseteq Tokens
    /\ held \subseteq Tokens
    /\ pc \in [Requests -> Places]
    /\ old \in [Requests -> Tokens \cup {None}]
    /\ new \in [Requests -> Tokens \cup {None}]
    /\ who \in [Requests -> Users \cup {None}]
    /\ faults \in 0..MaxFaults
    /\ \A t \in Tokens : owner[t] = None <=> token[t] = "unused"
    /\ \A r \in Requests :
          /\ old[r] # None <=> pc[r] \notin {"idle", "login"}
          /\ old[r] # None => token[old[r]] # "unused"
          /\ new[r] # None <=> pc[r] \in {"issued", "revoked"}
          /\ who[r] # None <=> pc[r] \in {"loaded", "issued", "revoked", "login"}

\* However many requests present the same token at the same time, it is
\* exchanged for at most one new token.
ExchangedOnce ==
    \A m, n \in Tokens : parent[m] # None /\ parent[m] = parent[n] => m = n

\* A login and all the exchanges that follow from it have one live token: no
\* race of Refresh and Logout leaves two.
OneLiveTokenPerSession ==
    \A m, n \in Tokens :
        token[m] = "live" /\ token[n] = "live" /\ session[m] = session[n] => m = n

\* No live token outlives its user, whenever the user is deleted between the
\* statements of Login and Refresh.
NoOrphanedToken ==
    \A t \in Tokens : token[t] = "live" => account[owner[t]] = "present"

\* A client never holds a token the database does not know: what an answer
\* carries has been committed.
HeldIsStored == \A t \in held : token[t] # "unused"

\* A revoked token stays revoked, and no exchange of it is committed any more,
\* not even by a request that found it live.
RevokedIsFinal ==
    [][\A t \in Tokens : token[t] \in Ended =>
           /\ token'[t] \in Ended
           /\ \A n \in Tokens : parent'[n] = t => parent[n] = t]_vars

\* No request waits for ever for the row locks of another.
EventuallyAnswered == \A r \in Requests : pc[r] # "idle" ~> pc[r] = "idle"

\* "Logout_IsIdempotent": a logout that meets no fault succeeds, also if the
\* token is revoked by somebody else.
LogoutIsIdempotent == [][\A r \in Requests : ~LogoutMissed(r)]_vars

-----------------------------------------------------------------------------
(* Refinement *)

Promise == INSTANCE Rotation

\* Whatever runs at the same time, users of the service see tokens that are
\* issued, exchanged and revoked in single steps.
RotatesInOneStep == Promise!Spec
=============================================================================

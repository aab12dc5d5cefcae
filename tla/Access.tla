------------------------------- MODULE Access -------------------------------
(***************************************************************************)
(* Who may do what: access tokens (internal/auth/token.go), the HTTP       *)
(* middleware and routes (internal/auth/middleware.go, user/routes.go),    *)
(* and the gRPC interceptor and checks (internal/grpcapi).                 *)
(*                                                                         *)
(* A token carries the user and the role that the table held when the user *)
(* was read.  It is not stored and cannot be revoked: requests are decided *)
(* by the token alone until it expires, whatever becomes of the row.       *)
(*                                                                         *)
(* Of all tokens of one user and role only the one that lives longest is   *)
(* kept: it is accepted whenever another one is.                           *)
(***************************************************************************)
EXTENDS Integers

CONSTANTS
    Users,       \* users.id
    Nobody,      \* a request without a token
    Sessions,    \* logins and refreshes that may run at a time
    Calls,       \* API calls that may run at a time
    AccessTTL,   \* TokenManager.ttl
    IssueTime,   \* longest time from reading the user to signing its token
    ServeTime,   \* longest time from accepting a token to the call's effect
    MaxChanges   \* bound: role changes, made in the database directly

ASSUME UserAssumption == Nobody \notin Users
ASSUME TimeAssumption ==
    /\ AccessTTL \in Nat \ {0}
    /\ IssueTime \in Nat
    /\ ServeTime \in Nat
ASSUME BoundAssumption == MaxChanges \in Nat

VARIABLES
    role,     \* role column; "NONE" before the row, "GONE" after it
    since,    \* time since the row held a role, at most Far
    life,     \* time until the tokens of a user and a role have expired
    session,  \* a login or refresh: the user and the role it has read
    call,     \* a call whose token was accepted
    changes   \* role changes so far

table == <<role, since>>
vars  == <<table, life, session, call, changes>>

Roles    == {"USER", "ADMIN"}
RowState == Roles \cup {"NONE", "GONE"}
Far      == AccessTTL + IssueTime + ServeTime

\* Operations of the HTTP API and of the gRPC API on users.
HTTPOps  == {"list", "byEmail", "create", "delete", "get", "update", "me"}
GRPCOps  == {"list", "get"}
Requests == {<<"http", op>> : op \in HTTPOps} \cup {<<"grpc", op>> : op \in GRPCOps}
NoSession == [user |-> Nobody, role |-> "NONE", age |-> 0]
NoCall    == [op |-> "none", user |-> Nobody, id |-> Nobody, age |-> 0]
Serving(c) == call[c] # NoCall

\* The row of u now says r.
SetRow(u, r) ==
    /\ role' = [role EXCEPT ![u] = r]
    /\ since' = [since EXCEPT ![u] = [x \in Roles |-> IF x = r THEN 0 ELSE @[x]]]

Init ==
    /\ role = [u \in Users |-> "NONE"]
    /\ since = [u \in Users |-> [r \in Roles |-> Far]]
    /\ life = [u \in Users |-> [r \in Roles |-> 0]]
    /\ session = [s \in Sessions |-> NoSession]
    /\ call = [c \in Calls |-> NoCall]
    /\ changes = 0

-----------------------------------------------------------------------------
(* Tokens *)

\* TokenManager.Generate
Generate(u, r) == life' = [life EXCEPT ![u][r] = AccessTTL]

\* Register: the row and the tokens, with the role a new row has, in one
\* transaction.
Register(u) ==
    /\ role[u] = "NONE"
    /\ SetRow(u, "USER")
    /\ Generate(u, "USER")
    /\ UNCHANGED <<session, call, changes>>

\* Variant: the role is taken from a token that is still accepted.
ReadFromToken(s, u) ==
    /\ session[s] = NoSession
    /\ role[u] \in Roles
    /\ \E r \in Roles : /\ r = role[u] \/ life[u][r] > 0
                        /\ session' = [session EXCEPT ![s] = [user |-> u, role |-> r, age |-> 0]]
    /\ UNCHANGED <<table, life, call, changes>>
\* Login and Refresh read the user; a password check or a token's own checks
\* that fail end them here.
ReadUser(s, u) ==
    /\ session[s] = NoSession
    /\ role[u] \in Roles
    /\ session' = [session EXCEPT ![s] = [user |-> u, role |-> role[u], age |-> 0]]
    /\ UNCHANGED <<table, life, call, changes>>

\* issueTokenPairWithStore: the access token is signed, then the refresh token
\* is stored; its reference to the user fails if the row is gone, and then the
\* access token is not given out.
Issue(s) ==
    /\ session[s] # NoSession
    /\ IF role[session[s].user] \in Roles
       THEN Generate(session[s].user, session[s].role)
       ELSE UNCHANGED life
    /\ session' = [session EXCEPT ![s] = NoSession]
    /\ UNCHANGED <<table, call, changes>>

-----------------------------------------------------------------------------
(* Decisions *)

\* What Parse accepts: the signature is the service's own, the token lives.
Accepted(u, r) == u \in Users /\ life[u][r] > 0

\* MiddleWare.RequireRole and RequireSelfOrRole, with RoleAdmin.
RequireRole(u, r) == Accepted(u, r) /\ r = "ADMIN"
RequireSelfOrRole(u, r, id) == Accepted(u, r) /\ (r = "ADMIN" \/ u = id)

\* Variant: the route that creates users is not wrapped.
HTTPAllowsUnwrapped(op, u, r, id) ==
    CASE op = "me"                -> Accepted(u, r) /\ id = u
      [] op \in {"get", "update"} -> RequireSelfOrRole(u, r, id)
      [] op = "create"            -> TRUE
      [] OTHER                    -> RequireRole(u, r)
\* RegisterRoutes of internal/user, and GET /auth/me, which asks for a token only
\* and is about its own user.
HTTPAllows(op, u, r, id) ==
    CASE op = "me"                -> Accepted(u, r) /\ id = u
      [] op \in {"get", "update"} -> RequireSelfOrRole(u, r, id)
      [] OTHER                    -> RequireRole(u, r)

\* The principal the interceptor leaves to the handler; a request without a
\* token reaches the handler without one.
Principal(u, r) == Accepted(u, r) /\ r \in Roles

\* Variant: the handler relies on the interceptor.
GRPCAllowsUnchecked(op, u, r, id) ==
    IF op = "get" THEN Principal(u, r) /\ (r = "ADMIN" \/ u = id)
    ELSE u = Nobody \/ Accepted(u, r)
\* Variant: GetUser is for administrators.
GRPCAllowsAdmin(op, u, r, id) == Principal(u, r) /\ r = "ADMIN"
\* GetUser and ListUsers: requirePrincipal, then requireSelfOrRole or requireRole.
GRPCAllows(op, u, r, id) ==
    /\ Principal(u, r)
    /\ r = "ADMIN" \/ (op = "get" /\ u = id)

Allows(q, u, r, id) ==
    IF q[1] = "http" THEN HTTPAllows(q[2], u, r, id) ELSE GRPCAllows(q[2], u, r, id)

\* A request is decided; one that is refused has no effect.
Decide(c, q, u, r, id) ==
    /\ call[c] = NoCall
    /\ Allows(q, u, r, id)
    /\ call' = [call EXCEPT ![c] = [op |-> q[2], user |-> u, id |-> id, age |-> 0]]
    /\ UNCHANGED <<table, life, session, changes>>

\* The call takes effect: DELETE removes the row, POST inserts one with role
\* USER; the update does not touch the role, and the others read.
Serve(c) ==
    /\ Serving(c)
    /\ LET u == call[c].id IN
       CASE call[c].op = "delete" /\ role[u] \in Roles -> SetRow(u, "GONE")
         [] call[c].op = "create" /\ role[u] = "NONE"  -> SetRow(u, "USER")
         [] OTHER -> UNCHANGED table
    /\ call' = [call EXCEPT ![c] = NoCall]
    /\ UNCHANGED <<life, session, changes>>

-----------------------------------------------------------------------------
(* The operator and time *)

\* "update users set role = ..." in the database; there is no other way.
ChangeRole(u, r) ==
    /\ changes < MaxChanges
    /\ changes' = changes + 1
    /\ role[u] \in Roles \ {r}
    /\ SetRow(u, r)
    /\ UNCHANGED <<life, session, call>>

\* WithExpirationRequired
Expire == life' = [u \in Users |-> [r \in Roles |-> IF life[u][r] > 0 THEN life[u][r] - 1 ELSE 0]]

Tick ==
    /\ \A s \in Sessions : session[s] # NoSession => session[s].age < IssueTime
    /\ \A c \in Calls : Serving(c) => call[c].age < ServeTime
    /\ since' = [u \in Users |-> [r \in Roles |->
                    IF role[u] = r THEN 0 ELSE IF since[u][r] < Far THEN since[u][r] + 1 ELSE Far]]
    /\ Expire
    /\ session' = [s \in Sessions |-> IF session[s] = NoSession THEN NoSession
                                      ELSE [session[s] EXCEPT !.age = @ + 1]]
    /\ call' = [c \in Calls |-> IF Serving(c) THEN [call[c] EXCEPT !.age = @ + 1] ELSE NoCall]
    /\ UNCHANGED <<role, changes>>

-----------------------------------------------------------------------------
Next ==
    \/ \E u \in Users : Register(u) \/ \E r \in Roles : ChangeRole(u, r)
    \/ \E s \in Sessions : Issue(s) \/ \E u \in Users : ReadUser(s, u)
    \/ \E c \in Calls : \/ Serve(c)
                        \/ \E q \in Requests, u \in Users \cup {Nobody}, r \in Roles, id \in Users :
                               Decide(c, q, u, r, id)
    \/ Tick

Spec == Init /\ [][Next]_vars

\* Time passes, and what was begun is finished.  Nothing is promised of
\* requests, logins or role changes.
Fairness ==
    /\ WF_vars(Tick)
    /\ \A s \in Sessions : WF_vars(Issue(s))
    /\ \A c \in Calls : WF_vars(Serve(c))

FairSpec == Spec /\ Fairness

-----------------------------------------------------------------------------
(* Properties *)

\* Types; ages and times to live stay within their bounds, since agrees with the
\* table, and every call that is served has a user.
TypeOK ==
    /\ role \in [Users -> RowState]
    /\ since \in [Users -> [Roles -> 0..Far]]
    /\ \A u \in Users : role[u] \in Roles => since[u][role[u]] = 0
    /\ life \in [Users -> [Roles -> 0..AccessTTL]]
    /\ session \in [Sessions -> [user : Users, role : Roles, age : 0..IssueTime] \cup {NoSession}]
    /\ call \in [Calls -> [op : HTTPOps, user : Users, id : Users, age : 0..ServeTime] \cup {NoCall}]
    /\ changes \in 0..MaxChanges

\* Who had a role of R in the table within the lifetime of an access token and
\* the time of the two requests it takes to get and to use it.
Recently(u, R) == u \in Users /\ \E r \in R : since[u][r] < Far

\* Whoever a call serves was recently an administrator, or was recently a user
\* and is served on its own row.  A token outlives a withdrawn role and a
\* deleted row by no more than that.
AuthorityIsRecent ==
    \A c \in Calls : Serving(c) =>
        \/ Recently(call[c].user, {"ADMIN"})
        \/ /\ Recently(call[c].user, Roles)
           /\ call[c].op \in {"get", "update", "me"}
           /\ call[c].user = call[c].id

\* The two APIs decide alike: what a token may read over gRPC is what it may
\* read over HTTP.
SameDecision ==
    \A op \in HTTPOps \cap GRPCOps, u \in Users \cup {Nobody}, r \in Roles, id \in Users :
        HTTPAllows(op, u, r, id) <=> GRPCAllows(op, u, r, id)

\* Once roles have stopped changing, every accepted token says what the table
\* says, and no token of a deleted user is accepted any more.
EventuallyCurrent ==
    <>[](\A u \in Users, r \in Roles : life[u][r] > 0 => role[u] = r)
=============================================================================

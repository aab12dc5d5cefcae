---------------------------- MODULE AccessProofs ----------------------------
(***************************************************************************)
(* Proofs about Access, for all users, lifetimes and delays.               *)
(*                                                                         *)
(* The bound on stale authority adds up along the way of a role: what a    *)
(* login has read is as old as the login at most, what a token says is     *)
(* older by the part of its life that has passed, and what a call relies   *)
(* on is older by the age of the call.                                     *)
(***************************************************************************)
EXTENDS Access, TLAPS

\* A login or refresh holds a role that was in the table since it began.
SessionInv == \A s \in Sessions :
    session[s] # NoSession => since[session[s].user][session[s].role] <= session[s].age

\* A token's role was in the table when its login or refresh read it.
TokenInv == \A u \in Users, r \in Roles :
    life[u][r] > 0 => since[u][r] + life[u][r] <= AccessTTL + IssueTime

\* The role a call was accepted for, and how old it may be.
CallHas(c, r) ==
    /\ since[call[c].user][r] < AccessTTL + IssueTime + call[c].age
    /\ \/ r = "ADMIN"
       \/ call[c].op \in {"get", "update", "me"} /\ call[c].user = call[c].id
CallInv == \A c \in Calls : Serving(c) => \E r \in Roles : CallHas(c, r)

Inv == TypeOK /\ SessionInv /\ TokenInv /\ CallInv

-----------------------------------------------------------------------------
\* A session and a call that are there have their fields.
LEMMA Fields ==
    ASSUME TypeOK
    PROVE  /\ \A s \in Sessions : session[s] # NoSession =>
                  /\ session[s].user \in Users
                  /\ session[s].role \in Roles
                  /\ session[s].age \in 0..IssueTime
           /\ \A c \in Calls : Serving(c) =>
                  /\ call[c].op \in HTTPOps
                  /\ call[c].user \in Users
                  /\ call[c].id \in Users
                  /\ call[c].age \in 0..ServeTime
  BY DEF TypeOK, Serving

\* Whatever a row is set to, no role's age grows.
LEMMA SetRowKeepsTypes ==
    ASSUME TypeOK, NEW u \in Users, NEW r \in RowState, SetRow(u, r)
    PROVE  /\ role' \in [Users -> RowState]
           /\ since' \in [Users -> [Roles -> 0..Far]]
           /\ \A v \in Users : role'[v] \in Roles => since'[v][role'[v]] = 0
           /\ \A v \in Users, x \in Roles : since'[v][x] <= since[v][x]
<1>1. Far \in Nat
  BY TimeAssumption DEF Far
<1>2. since'[u] = [x \in Roles |-> IF x = r THEN 0 ELSE since[u][x]]
  BY DEF SetRow, TypeOK
<1>3. \A v \in Users : v # u => since'[v] = since[v] /\ role'[v] = role[v]
  BY DEF SetRow, TypeOK
<1>4. role'[u] = r
  BY DEF SetRow, TypeOK
<1>5. \A v \in Users : since'[v] \in [Roles -> 0..Far]
  BY <1>1, <1>2, <1>3 DEF TypeOK
<1>6. since' \in [Users -> [Roles -> 0..Far]] /\ role' \in [Users -> RowState]
  BY <1>5 DEF SetRow, TypeOK
<1>7. \A v \in Users : role'[v] \in Roles => since'[v][role'[v]] = 0
  BY <1>2, <1>3, <1>4 DEF TypeOK
<1>8. \A v \in Users, x \in Roles : since'[v][x] <= since[v][x]
  BY <1>1, <1>2, <1>3 DEF TypeOK
<1> QED
  BY <1>6, <1>7, <1>8

\* Tokens are renewed for a whole lifetime.
LEMMA GenerateKeepsTypes ==
    ASSUME TypeOK, NEW u \in Users, NEW r \in Roles, Generate(u, r)
    PROVE  /\ life' \in [Users -> [Roles -> 0..AccessTTL]]
           /\ life'[u][r] = AccessTTL
           /\ \A v \in Users, x \in Roles : v # u \/ x # r => life'[v][x] = life[v][x]
<1>1. life'[u] = [life[u] EXCEPT ![r] = AccessTTL] /\ \A v \in Users : v # u => life'[v] = life[v]
  BY DEF Generate, TypeOK
<1>2. AccessTTL \in 0..AccessTTL /\ life[u] \in [Roles -> 0..AccessTTL]
  BY TimeAssumption DEF TypeOK
<1> QED
  BY <1>1, <1>2 DEF Generate, TypeOK

-----------------------------------------------------------------------------
(* Type correctness *)

\* Every step keeps the types.
LEMMA TypeStep == TypeOK /\ [Next]_vars => TypeOK'
<1> SUFFICES ASSUME TypeOK, [Next]_vars PROVE TypeOK'
  OBVIOUS
<1> USE TimeAssumption, BoundAssumption
<1>a. Roles \subseteq RowState /\ "USER" \in Roles /\ "GONE" \in RowState
  BY DEF Roles, RowState
<1>1. ASSUME NEW u \in Users, Register(u) PROVE TypeOK'
  <2>1. SetRow(u, "USER") /\ Generate(u, "USER")
    BY <1>1 DEF Register
  <2> QED
    BY <1>1, <1>a, <2>1, SetRowKeepsTypes, GenerateKeepsTypes DEF Register, TypeOK
<1>2. ASSUME NEW u \in Users, NEW r \in Roles, ChangeRole(u, r) PROVE TypeOK'
  BY <1>2, <1>a, SetRowKeepsTypes DEF ChangeRole, TypeOK
<1>3. ASSUME NEW s \in Sessions, Issue(s) PROVE TypeOK'
  <2>1. session[s].user \in Users /\ session[s].role \in Roles
    BY <1>3, Fields DEF Issue
  <2>2. life' \in [Users -> [Roles -> 0..AccessTTL]]
    BY <1>3, <2>1, GenerateKeepsTypes DEF Issue, TypeOK
  <2> QED
    BY <1>3, <2>2 DEF Issue, table, TypeOK
<1>4. ASSUME NEW s \in Sessions, NEW u \in Users, ReadUser(s, u) PROVE TypeOK'
  BY <1>4 DEF ReadUser, table, TypeOK
<1>5. ASSUME NEW c \in Calls, Serve(c) PROVE TypeOK'
  <2>1. call[c].id \in Users
    BY <1>5, Fields DEF Serve
  <2>2. /\ role' \in [Users -> RowState]
        /\ since' \in [Users -> [Roles -> 0..Far]]
        /\ \A v \in Users : role'[v] \in Roles => since'[v][role'[v]] = 0
    BY <1>5, <1>a, <2>1, SetRowKeepsTypes DEF Serve, table, TypeOK
  <2> QED
    BY <1>5, <2>2 DEF Serve, TypeOK
<1>6. ASSUME NEW c \in Calls, NEW q \in Requests, NEW u \in Users \cup {Nobody},
             NEW r \in Roles, NEW id \in Users, Decide(c, q, u, r, id)
      PROVE  TypeOK'
  <2>1. u \in Users
    BY <1>6 DEF Decide, Allows, HTTPAllows, GRPCAllows, RequireRole, RequireSelfOrRole,
       Principal, Accepted
  <2>2. q[2] \in HTTPOps
    BY DEF Requests, HTTPOps, GRPCOps
  <2> QED
    BY <1>6, <2>1, <2>2 DEF Decide, table, TypeOK
<1>7. CASE Tick
  <2>1. Far \in Nat
    BY DEF Far
  <2>2. since' \in [Users -> [Roles -> 0..Far]]
    BY <1>7, <2>1 DEF Tick, TypeOK
  <2>3. \A u \in Users : role'[u] \in Roles => since'[u][role'[u]] = 0
    BY <1>7 DEF Tick, TypeOK
  <2>4. life' \in [Users -> [Roles -> 0..AccessTTL]]
    BY <1>7 DEF Tick, Expire, TypeOK
  <2>5. \A s \in Sessions : session'[s] \in
            [user : Users, role : Roles, age : 0..IssueTime] \cup {NoSession}
    <3> TAKE s \in Sessions
    <3>1. CASE session[s] = NoSession
      BY <1>7, <3>1 DEF Tick
    <3>2. CASE session[s] # NoSession
      <4>1. session[s] \in [user : Users, role : Roles, age : 0..IssueTime]
        BY <3>2 DEF TypeOK
      <4>2. session'[s] = [session[s] EXCEPT !.age = @ + 1] /\ session[s].age < IssueTime
        BY <1>7, <3>2 DEF Tick
      <4>3. session[s].age + 1 \in 0..IssueTime
        BY <4>1, <4>2
      <4> QED
        BY <4>1, <4>2, <4>3
    <3> QED
      BY <3>1, <3>2
  <2>6. \A c \in Calls : call'[c] \in
            [op : HTTPOps, user : Users, id : Users, age : 0..ServeTime] \cup {NoCall}
    <3> TAKE c \in Calls
    <3>1. CASE ~Serving(c)
      BY <1>7, <3>1 DEF Tick
    <3>2. CASE Serving(c)
      <4>1. call[c] \in [op : HTTPOps, user : Users, id : Users, age : 0..ServeTime]
        BY <3>2 DEF TypeOK, Serving
      <4>2. call'[c] = [call[c] EXCEPT !.age = @ + 1] /\ call[c].age < ServeTime
        BY <1>7, <3>2 DEF Tick
      <4>3. call[c].age + 1 \in 0..ServeTime
        BY <4>1, <4>2
      <4> QED
        BY <4>1, <4>2, <4>3
    <3> QED
      BY <3>1, <3>2
  <2> QED
    BY <1>7, <2>2, <2>3, <2>4, <2>5, <2>6 DEF Tick, TypeOK
<1>8. CASE UNCHANGED vars
  BY <1>8 DEF vars, table, TypeOK
<1> QED
  BY <1>1, <1>2, <1>3, <1>4, <1>5, <1>6, <1>7, <1>8 DEF Next

\* Initially there are no rows, tokens or calls.
LEMMA TypeCorrectInit == Init => TypeOK
<1> SUFFICES ASSUME Init PROVE TypeOK
  OBVIOUS
<1>1. Far \in Nat /\ "NONE" \in RowState /\ "NONE" \notin Roles
  BY TimeAssumption DEF Far, RowState, Roles
<1> QED
  BY <1>1, TimeAssumption, BoundAssumption DEF Init, TypeOK

\* The types hold throughout every behaviour, for all users and lifetimes.
THEOREM TypeCorrect == Spec => []TypeOK
  BY TypeCorrectInit, TypeStep, PTL DEF Spec

-----------------------------------------------------------------------------
(* The age of authority *)

\* A step that changes no session, token or call, and makes no role older.
LEMMA YoungerRoles ==
    ASSUME Inv, TypeOK', UNCHANGED <<session, life, call>>,
           \A v \in Users, x \in Roles : since'[v][x] <= since[v][x]
    PROVE  Inv'
<1> USE TimeAssumption
<1>1. \A v \in Users, x \in Roles : since'[v][x] \in Int /\ since[v][x] \in Int
  BY DEF Inv, TypeOK, Far
<1>2. SessionInv'
  BY <1>1, Fields DEF Inv, SessionInv
<1>3. TokenInv'
  <2> SUFFICES ASSUME NEW u \in Users, NEW r \in Roles, life[u][r] > 0
               PROVE  since'[u][r] + life[u][r] <= AccessTTL + IssueTime
    BY DEF TokenInv
  <2>1. life[u][r] \in Int /\ since[u][r] + life[u][r] <= AccessTTL + IssueTime
    BY DEF Inv, TypeOK, TokenInv
  <2> QED
    BY <1>1, <2>1
<1>4. CallInv'
  <2> SUFFICES ASSUME NEW c \in Calls, Serving(c)
               PROVE  \E r \in Roles : CallHas(c, r)'
    BY DEF CallInv, Serving
  <2>1. PICK r \in Roles : CallHas(c, r)
    BY DEF Inv, CallInv
  <2>2. call[c].user \in Users /\ call[c].age \in 0..ServeTime
    BY Fields DEF Inv
  <2>3. CallHas(c, r)'
    BY <1>1, <2>1, <2>2 DEF CallHas
  <2> QED
    BY <2>3
<1> QED
  BY <1>2, <1>3, <1>4 DEF Inv

\* Every step keeps the ages in their bounds.
LEMMA InvStep == Inv /\ [Next]_vars => Inv'
<1> SUFFICES ASSUME Inv, [Next]_vars PROVE Inv'
  OBVIOUS
<1> USE TimeAssumption
<1>a. TypeOK /\ TypeOK' /\ SessionInv /\ TokenInv /\ CallInv
  BY TypeStep DEF Inv
<1>b. Roles \subseteq RowState /\ "USER" \in Roles /\ "GONE" \in RowState
  BY DEF Roles, RowState
<1>c. \A u \in Users, r \in Roles : /\ since[u][r] \in Nat /\ since'[u][r] \in Nat
                                    /\ life[u][r] \in Nat /\ life'[u][r] \in Nat
  BY <1>a DEF TypeOK, Far
<1>1. ASSUME NEW u \in Users, Register(u) PROVE Inv'
  <2>1. /\ since' \in [Users -> [Roles -> 0..Far]]
        /\ \A v \in Users, x \in Roles : since'[v][x] <= since[v][x]
    BY <1>1, <1>a, <1>b, SetRowKeepsTypes DEF Register
  <2>2. /\ life'[u]["USER"] = AccessTTL
        /\ \A v \in Users, x \in Roles : v # u \/ x # "USER" => life'[v][x] = life[v][x]
    BY <1>1, <1>a, <1>b, GenerateKeepsTypes DEF Register
  <2>3. since'[u]["USER"] = 0
    BY <1>1, <1>a, <1>b DEF Register, SetRow, TypeOK
  <2>4. UNCHANGED <<session, call>>
    BY <1>1 DEF Register
  <2>5. SessionInv'
    BY <1>a, <1>c, <2>1, <2>4, Fields DEF SessionInv
  <2>6. TokenInv'
    <3> SUFFICES ASSUME NEW v \in Users, NEW x \in Roles, life'[v][x] > 0
                 PROVE  since'[v][x] + life'[v][x] <= AccessTTL + IssueTime
      BY DEF TokenInv
    <3>1. CASE v = u /\ x = "USER"
      BY <2>2, <2>3, <3>1
    <3>2. CASE v # u \/ x # "USER"
      <4>1. life'[v][x] = life[v][x]
        BY <2>2, <3>2
      <4>2. since[v][x] + life[v][x] <= AccessTTL + IssueTime
        BY <1>a, <4>1 DEF TokenInv
      <4> QED
        BY <1>c, <2>1, <4>1, <4>2
    <3> QED
      BY <3>1, <3>2
  <2>7. CallInv'
    <3> SUFFICES ASSUME NEW c \in Calls, Serving(c)
                 PROVE  \E r \in Roles : CallHas(c, r)'
      BY <2>4 DEF CallInv, Serving
    <3>1. PICK r \in Roles : CallHas(c, r)
      BY <1>a DEF CallInv
    <3>2. call[c].user \in Users /\ call[c].age \in 0..ServeTime
      BY <1>a, Fields
    <3>3. CallHas(c, r)'
      BY <1>c, <2>1, <2>4, <3>1, <3>2 DEF CallHas
    <3> QED
      BY <3>3
  <2> QED
    BY <1>a, <2>5, <2>6, <2>7 DEF Inv
<1>2. ASSUME NEW u \in Users, NEW r \in Roles, ChangeRole(u, r) PROVE Inv'
  BY <1>2, <1>a, <1>b, SetRowKeepsTypes, YoungerRoles DEF ChangeRole
<1>3. ASSUME NEW s \in Sessions, Issue(s) PROVE Inv'
  <2> DEFINE u == session[s].user
             r == session[s].role
  <2>1. u \in Users /\ r \in Roles /\ session[s].age \in 0..IssueTime
    BY <1>3, <1>a, Fields DEF Issue
  <2>2. since' = since /\ call' = call /\ session' = [session EXCEPT ![s] = NoSession]
    BY <1>3 DEF Issue, table
  <2>3. \A t \in Sessions : session'[t] # NoSession => session'[t] = session[t]
    BY <2>2, <1>a DEF TypeOK
  <2>4. SessionInv'
    BY <1>a, <2>2, <2>3 DEF SessionInv
  <2>5. since[u][r] <= IssueTime
    BY <1>3, <1>a, <1>c, <2>1 DEF Issue, SessionInv
  <2>6. \A v \in Users, x \in Roles :
            life'[v][x] = life[v][x] \/ (v = u /\ x = r /\ life'[v][x] = AccessTTL)
    BY <1>3, <1>a, <2>1, GenerateKeepsTypes DEF Issue
  <2>7. TokenInv'
    <3> SUFFICES ASSUME NEW v \in Users, NEW x \in Roles, life'[v][x] > 0
                 PROVE  since[v][x] + life'[v][x] <= AccessTTL + IssueTime
      BY <2>2 DEF TokenInv
    <3>1. CASE life'[v][x] = life[v][x]
      BY <1>a, <3>1 DEF TokenInv
    <3>2. CASE v = u /\ x = r /\ life'[v][x] = AccessTTL
      BY <1>c, <2>1, <2>5, <3>2
    <3> QED
      BY <2>6, <3>1, <3>2
  <2>8. CallInv'
    BY <1>a, <2>2 DEF CallInv, CallHas, Serving
  <2> QED
    BY <1>a, <2>4, <2>7, <2>8 DEF Inv
<1>4. ASSUME NEW s \in Sessions, NEW u \in Users, ReadUser(s, u) PROVE Inv'
  <2>1. since' = since /\ call' = call /\ life' = life
    BY <1>4 DEF ReadUser, table
  <2>2. since[u][role[u]] = 0
    BY <1>4, <1>a DEF ReadUser, TypeOK
  <2>3. \A t \in Sessions : session'[t] = IF t = s THEN [user |-> u, role |-> role[u], age |-> 0]
                                          ELSE session[t]
    BY <1>4, <1>a DEF ReadUser, TypeOK
  <2>4. SessionInv'
    BY <1>a, <2>1, <2>2, <2>3 DEF SessionInv
  <2> QED
    BY <1>a, <2>1, <2>4 DEF Inv, TokenInv, CallInv, CallHas, Serving
<1>5. ASSUME NEW c \in Calls, Serve(c) PROVE Inv'
  <2>1. call[c].id \in Users
    BY <1>5, <1>a, Fields DEF Serve
  <2>2. \A v \in Users, x \in Roles : since'[v][x] <= since[v][x]
    BY <1>5, <1>a, <1>b, <1>c, <2>1, SetRowKeepsTypes DEF Serve, table
  <2>3. /\ UNCHANGED <<session, life>>
        /\ \A d \in Calls : call'[d] # NoCall => call'[d] = call[d]
    BY <1>5, <1>a DEF Serve, TypeOK
  <2>4. SessionInv'
    BY <1>a, <1>c, <2>2, <2>3, Fields DEF SessionInv
  <2>5. TokenInv'
    <3> SUFFICES ASSUME NEW v \in Users, NEW x \in Roles, life[v][x] > 0
                 PROVE  since'[v][x] + life[v][x] <= AccessTTL + IssueTime
      BY <2>3 DEF TokenInv
    <3>1. since[v][x] + life[v][x] <= AccessTTL + IssueTime
      BY <1>a DEF TokenInv
    <3> QED
      BY <1>c, <2>2, <3>1
  <2>6. CallInv'
    <3> SUFFICES ASSUME NEW d \in Calls, Serving(d)'
                 PROVE  \E r \in Roles : CallHas(d, r)'
      BY DEF CallInv
    <3>1. call'[d] = call[d] /\ Serving(d)
      BY <2>3 DEF Serving
    <3>2. PICK r \in Roles : CallHas(d, r)
      BY <1>a, <3>1 DEF CallInv
    <3>3. call[d].user \in Users /\ call[d].age \in 0..ServeTime
      BY <1>a, <3>1, Fields
    <3>4. CallHas(d, r)'
      BY <1>c, <2>2, <3>1, <3>2, <3>3 DEF CallHas
    <3> QED
      BY <3>4
  <2> QED
    BY <1>a, <2>4, <2>5, <2>6 DEF Inv
<1>6. ASSUME NEW c \in Calls, NEW q \in Requests, NEW u \in Users \cup {Nobody},
             NEW r \in Roles, NEW id \in Users, Decide(c, q, u, r, id)
      PROVE  Inv'
  <2>1. /\ u \in Users /\ life[u][r] > 0
        /\ r = "ADMIN" \/ (q[2] \in {"get", "update", "me"} /\ u = id)
    BY <1>6 DEF Decide, Allows, HTTPAllows, GRPCAllows, RequireRole, RequireSelfOrRole,
       Principal, Accepted
  <2>2. since[u][r] < AccessTTL + IssueTime + 0
    <3>1. since[u][r] + life[u][r] <= AccessTTL + IssueTime
      BY <1>a, <2>1 DEF TokenInv
    <3> QED
      BY <1>c, <2>1, <3>1
  <2>3. /\ UNCHANGED <<since, session, life>>
        /\ \A d \in Calls : call'[d] = IF d = c THEN [op |-> q[2], user |-> u, id |-> id, age |-> 0]
                                        ELSE call[d]
    BY <1>6, <1>a DEF Decide, table, TypeOK
  <2>4. CallInv'
    <3> SUFFICES ASSUME NEW d \in Calls, Serving(d)'
                 PROVE  \E x \in Roles : CallHas(d, x)'
      BY DEF CallInv
    <3>1. CASE d = c
      <4>1. call'[d] = [op |-> q[2], user |-> u, id |-> id, age |-> 0]
        BY <2>3, <3>1
      <4>2. CallHas(d, r)'
        BY <2>1, <2>2, <2>3, <4>1 DEF CallHas
      <4> QED
        BY <4>2
    <3>2. CASE d # c
      <4>1. call'[d] = call[d] /\ Serving(d)
        BY <2>3, <3>2 DEF Serving
      <4>2. PICK x \in Roles : CallHas(d, x)
        BY <1>a, <4>1 DEF CallInv
      <4>3. CallHas(d, x)'
        BY <2>3, <4>1, <4>2 DEF CallHas
      <4> QED
        BY <4>3
    <3> QED
      BY <3>1, <3>2
  <2> QED
    BY <1>a, <2>3, <2>4 DEF Inv, SessionInv, TokenInv
<1>7. CASE Tick
  <2>1. \A u \in Users, r \in Roles : since'[u][r] <= since[u][r] + 1
    <3> SUFFICES ASSUME NEW u \in Users, NEW r \in Roles
                 PROVE  since'[u][r] <= since[u][r] + 1
      OBVIOUS
    <3>1. since[u][r] \in 0..Far /\ Far \in Nat
      BY <1>a DEF TypeOK, Far
    <3>2. since'[u][r] = IF role[u] = r THEN 0
                         ELSE IF since[u][r] < Far THEN since[u][r] + 1 ELSE Far
      BY <1>7 DEF Tick
    <3> QED
      BY <3>1, <3>2
  <2>2. \A u \in Users, r \in Roles : life'[u][r] = IF life[u][r] > 0 THEN life[u][r] - 1 ELSE 0
    BY <1>7 DEF Tick, Expire
  <2>3. \A s \in Sessions : session'[s] # NoSession =>
            /\ session[s] # NoSession
            /\ session'[s] = [session[s] EXCEPT !.age = @ + 1]
    BY <1>7 DEF Tick
  <2>4. \A c \in Calls : Serving(c)' =>
            /\ Serving(c)
            /\ call'[c] = [call[c] EXCEPT !.age = @ + 1]
    BY <1>7 DEF Tick, Serving
  <2>5. SessionInv'
    <3> SUFFICES ASSUME NEW s \in Sessions, session'[s] # NoSession
                 PROVE  since'[session'[s].user][session'[s].role] <= session'[s].age
      BY DEF SessionInv
    <3>1. /\ session[s] \in [user : Users, role : Roles, age : 0..IssueTime]
          /\ since[session[s].user][session[s].role] <= session[s].age
      BY <1>a, <2>3 DEF TypeOK, SessionInv
    <3>2. /\ session'[s].user = session[s].user
          /\ session'[s].role = session[s].role
          /\ session'[s].age = session[s].age + 1
      BY <2>3, <3>1
    <3>3. session[s].user \in Users /\ session[s].role \in Roles /\ session[s].age \in Int
      BY <3>1
    <3> QED
      BY <1>c, <2>1, <3>1, <3>2, <3>3
  <2>6. TokenInv'
    <3> SUFFICES ASSUME NEW u \in Users, NEW r \in Roles, life'[u][r] > 0
                 PROVE  since'[u][r] + life'[u][r] <= AccessTTL + IssueTime
      BY DEF TokenInv
    <3>1. life[u][r] > 0 /\ life'[u][r] = life[u][r] - 1
      BY <1>c, <2>2
    <3>2. since[u][r] + life[u][r] <= AccessTTL + IssueTime
      BY <1>a, <3>1 DEF TokenInv
    <3> QED
      BY <1>c, <2>1, <3>1, <3>2
  <2>7. CallInv'
    <3> SUFFICES ASSUME NEW c \in Calls, Serving(c)'
                 PROVE  \E r \in Roles : CallHas(c, r)'
      BY DEF CallInv
    <3>1. PICK r \in Roles : CallHas(c, r)
      BY <1>a, <2>4 DEF CallInv
    <3>2. call[c] \in [op : HTTPOps, user : Users, id : Users, age : 0..ServeTime]
      BY <1>a, <2>4 DEF TypeOK, Serving
    <3>3. /\ call'[c].user = call[c].user /\ call'[c].id = call[c].id
          /\ call'[c].op = call[c].op /\ call'[c].age = call[c].age + 1
      BY <2>4, <3>2
    <3>4. call[c].user \in Users /\ call[c].age \in Int
      BY <3>2
    <3>5. CallHas(c, r)'
      BY <1>c, <2>1, <3>1, <3>3, <3>4 DEF CallHas
    <3> QED
      BY <3>5
  <2> QED
    BY <1>a, <2>5, <2>6, <2>7 DEF Inv
<1>8. CASE UNCHANGED vars
  BY <1>8, <1>a DEF vars, table, Inv, SessionInv, TokenInv, CallInv, CallHas, Serving
<1> QED
  BY <1>1, <1>2, <1>3, <1>4, <1>5, <1>6, <1>7, <1>8 DEF Next

\* The bounds hold throughout every behaviour.
LEMMA InvHolds == Spec => []Inv
<1>1. Init => Inv
  <2>1. Init => TypeOK
    BY TypeCorrectInit
  <2> QED
    BY <2>1 DEF Init, Inv, SessionInv, TokenInv, CallInv, Serving
<1> QED
  BY <1>1, InvStep, PTL DEF Spec

\* A call is served for a role its user had in the table within the lifetime of a
\* token and the two delays, for all their values: a withdrawn role and a deleted
\* row end by then what their tokens allow.
THEOREM AuthorityBound == Spec => []AuthorityIsRecent
<1>1. Inv => AuthorityIsRecent
  <2> SUFFICES ASSUME Inv, NEW c \in Calls, Serving(c)
               PROVE  \/ Recently(call[c].user, {"ADMIN"})
                      \/ /\ Recently(call[c].user, Roles)
                         /\ call[c].op \in {"get", "update", "me"}
                         /\ call[c].user = call[c].id
    BY DEF AuthorityIsRecent
  <2>1. PICK r \in Roles : CallHas(c, r)
    BY DEF Inv, CallInv
  <2>2. call[c].user \in Users /\ call[c].age \in 0..ServeTime
    BY Fields DEF Inv
  <2>3. since[call[c].user][r] \in Nat
    BY <2>2, TimeAssumption DEF Inv, TypeOK, Far
  <2>4. since[call[c].user][r] < Far
    BY <2>1, <2>2, <2>3, TimeAssumption DEF CallHas, Far
  <2> QED
    BY <2>1, <2>2, <2>4 DEF CallHas, Recently
<1> QED
  BY <1>1, InvHolds, PTL

\* The gRPC API allows a token to read what the HTTP API allows it to read, in
\* every state.
THEOREM DecisionsAgree == Spec => []SameDecision
<1>1. SameDecision
  <2> SUFFICES ASSUME NEW op \in HTTPOps \cap GRPCOps, NEW u \in Users \cup {Nobody},
                      NEW r \in Roles, NEW id \in Users
               PROVE  HTTPAllows(op, u, r, id) <=> GRPCAllows(op, u, r, id)
    BY DEF SameDecision
  <2>1. op \in {"list", "get"}
    BY DEF GRPCOps
  <2>2. CASE op = "list"
    BY <2>2 DEF HTTPAllows, GRPCAllows, RequireRole, Principal
  <2>3. CASE op = "get"
    BY <2>3 DEF HTTPAllows, GRPCAllows, RequireSelfOrRole, Principal
  <2> QED
    BY <2>1, <2>2, <2>3
<1> QED
  BY <1>1, PTL
=============================================================================

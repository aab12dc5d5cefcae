------------------------------ MODULE Accounts ------------------------------
(***************************************************************************)
(* The accounts of internal/user and internal/auth: Register, CreateUser,  *)
(* CreateUserWithProfile, UpdateUser and DeleteUser as requests that run   *)
(* at the same time on users, user_profiles and outbox_events.             *)
(*                                                                         *)
(* The three creations are transactions of the same shape: ExistsByEmail,  *)
(* the insert of the user, for two of them the insert of what belongs to   *)
(* the user (profile, first refresh token), the insert of the outbox row,  *)
(* and the commit.  They are READ COMMITTED; the unique index on email     *)
(* makes an insert or update wait for an open transaction that has         *)
(* inserted the same address.  The tables hold committed rows only.        *)
(***************************************************************************)
EXTENDS Naturals, FiniteSets

CONSTANTS
    Spellings,  \* addresses as clients write them
    Normal,     \* what TrimSpace and ToLower make of an address
    MaxUsers,   \* bound: accounts ever inserted
    Requests,   \* requests that may be served at the same time
    None,       \* no address, no account
    MaxFaults   \* bound: errors of the database and lost answers

Ids       == 1..MaxUsers
Creations == {"register", "create", "profile"}

ASSUME NoneAssumption   == None \notin Spellings /\ None \notin Ids /\ None \notin Creations
ASSUME NormalAssumption == /\ Normal \in [Spellings -> Spellings]
                           /\ \A s \in Spellings : Normal[Normal[s]] = Normal[s]
ASSUME BoundAssumption  == MaxUsers \in Nat /\ MaxFaults \in Nat

VARIABLES
    email,     \* email column of users; None where there is no row
    origin,    \* request that has created an account, None before
    profile,   \* accounts with a row in user_profiles
    events,    \* outbox rows of an account
    pc,        \* where a request is
    op,        \* kind of request
    mail,      \* normalised address of the request
    id,        \* account the request inserts or updates
    faults     \* faults so far

rows    == <<email, origin, profile, events>>
request == <<pc, op, mail, id>>
vars    == <<rows, request, faults>>

Inside    == {"inserted", "extended", "announced"}   \* the user's row is inserted
Places    == {"idle", "checked", "reading", "ready"} \cup Inside

Fault == faults < MaxFaults /\ faults' = faults + 1

Init ==
    /\ email = [i \in Ids |-> None]
    /\ origin = [i \in Ids |-> None]
    /\ profile = {}
    /\ events = [i \in Ids |-> 0]
    /\ pc = [r \in Requests |-> "idle"]
    /\ op = [r \in Requests |-> None]
    /\ mail = [r \in Requests |-> None]
    /\ id = [r \in Requests |-> None]
    /\ faults = 0

-----------------------------------------------------------------------------
Taken(e) == \E i \in Ids : email[i] = e
TakenByOther(e, i) == \E j \in Ids \ {i} : email[j] = e

\* An open transaction has inserted the address: the unique index makes r wait.
Busy(r) == \E q \in Requests \ {r} : pc[q] \in Inside /\ mail[q] = mail[r]

\* The next value of the sequence; which one makes no difference.
Unused(i) == origin[i] = None /\ \A r \in Requests : id[r] # i
NextId(i) == Unused(i) /\ \A j \in Ids : Unused(j) => i <= j

\* Bound: every creation finds an unused id.
Creating == {r \in Requests : pc[r] \in {"checked"} \cup Inside}
Room == Cardinality({i \in Ids : origin[i] # None}) + Cardinality(Creating) < MaxUsers

\* The request is answered; WithinTx rolls an open transaction back.
Finish(r) ==
    /\ pc' = [pc EXCEPT ![r] = "idle"]
    /\ op' = [op EXCEPT ![r] = None]
    /\ mail' = [mail EXCEPT ![r] = None]
    /\ id' = [id EXCEPT ![r] = None]

Goto(r, place) ==
    /\ pc' = [pc EXCEPT ![r] = place]
    /\ UNCHANGED <<op, mail, id>>

-----------------------------------------------------------------------------
(* Register, CreateUser, CreateUserWithProfile *)

\* The transaction begins with ExistsByEmail, which finds nothing.
CreateCheck(r, k, s) ==
    /\ pc[r] = "idle"
    /\ Room
    /\ ~Taken(Normal[s])
    /\ pc' = [pc EXCEPT ![r] = "checked"]
    /\ op' = [op EXCEPT ![r] = k]
    /\ mail' = [mail EXCEPT ![r] = Normal[s]]
    /\ UNCHANGED <<rows, id, faults>>

\* ExistsByEmail finds the address: 409.
CreateKnown(r, s) ==
    /\ pc[r] = "idle"
    /\ Taken(Normal[s])
    /\ UNCHANGED vars

\* Variant: the id of the inserted row is not read back.
CreateInsertNoId(r, i) ==
    /\ pc[r] = "checked"
    /\ ~Busy(r) /\ ~Taken(mail[r])
    /\ NextId(i)
    /\ pc' = [pc EXCEPT ![r] = "inserted"]
    /\ UNCHANGED <<rows, op, mail, id, faults>>
\* Create, the insert into users.
CreateInsert(r, i) ==
    /\ pc[r] = "checked"
    /\ ~Busy(r) /\ ~Taken(mail[r])
    /\ NextId(i)
    /\ pc' = [pc EXCEPT ![r] = "inserted"]
    /\ id' = [id EXCEPT ![r] = i]
    /\ UNCHANGED <<rows, op, mail, faults>>

\* The address was committed after ExistsByEmail; Register and
\* CreateUserWithProfile map the violation of the index to a 409 ...
CreateConflict(r) ==
    /\ pc[r] = "checked" /\ op[r] \in {"register", "profile"}
    /\ ~Busy(r) /\ Taken(mail[r])
    /\ Finish(r)
    /\ UNCHANGED <<rows, faults>>

\* ... and CreateUser wraps it, which makes it an internal error.
CreateUnmapped(r) ==
    /\ pc[r] = "checked" /\ op[r] = "create"
    /\ ~Busy(r) /\ Taken(mail[r])
    /\ Finish(r)
    /\ UNCHANGED <<rows, faults>>

\* CreateProfile, or the first token of Register.
CreateExtend(r) ==
    /\ pc[r] = "inserted" /\ op[r] # "create"
    /\ Goto(r, "extended")
    /\ UNCHANGED <<rows, faults>>

\* Variant: the outbox row is inserted outside the transaction.
CreateAnnounceOutside(r) ==
    /\ pc[r] = (IF op[r] = "create" THEN "inserted" ELSE "extended")
    /\ events' = [events EXCEPT ![id[r]] = @ + 1]
    /\ Goto(r, "announced")
    /\ UNCHANGED <<email, origin, profile, faults>>
\* createOutboxEvent.
CreateAnnounce(r) ==
    /\ pc[r] = (IF op[r] = "create" THEN "inserted" ELSE "extended")
    /\ Goto(r, "announced")
    /\ UNCHANGED <<rows, faults>>

\* Variant: the profile is left out.
CreatedWithoutProfile(r) ==
    /\ email' = [email EXCEPT ![id[r]] = mail[r]]
    /\ origin' = [origin EXCEPT ![id[r]] = op[r]]
    /\ events' = [events EXCEPT ![id[r]] = @ + 1]
    /\ UNCHANGED profile
\* What the transaction has inserted becomes visible.
Created(r) ==
    /\ email' = [email EXCEPT ![id[r]] = mail[r]]
    /\ origin' = [origin EXCEPT ![id[r]] = op[r]]
    /\ profile' = IF op[r] = "profile" THEN profile \cup {id[r]} ELSE profile
    /\ events' = [events EXCEPT ![id[r]] = @ + 1]

\* The commit, whether or not its answer reaches the service.
CreateCommit(r) ==
    /\ pc[r] = "announced"
    /\ Created(r)
    /\ Finish(r)
    /\ UNCHANGED faults

-----------------------------------------------------------------------------
(* UpdateUser and DeleteUser, without transactions *)

\* Variant: the address is not normalised.
UpdateFindRaw(r, i, s) ==
    /\ pc[r] = "idle"
    /\ email[i] # None
    /\ pc' = [pc EXCEPT ![r] = IF email[i] = s THEN "ready" ELSE "reading"]
    /\ op' = [op EXCEPT ![r] = "update"]
    /\ mail' = [mail EXCEPT ![r] = s]
    /\ id' = [id EXCEPT ![r] = i]
    /\ UNCHANGED <<rows, faults>>
\* FindByID; an address that stays the same is not checked.
UpdateFind(r, i, s) ==
    /\ pc[r] = "idle"
    /\ email[i] # None
    /\ pc' = [pc EXCEPT ![r] = IF email[i] = Normal[s] THEN "ready" ELSE "reading"]
    /\ op' = [op EXCEPT ![r] = "update"]
    /\ mail' = [mail EXCEPT ![r] = Normal[s]]
    /\ id' = [id EXCEPT ![r] = i]
    /\ UNCHANGED <<rows, faults>>

\* FindByID finds nothing: 404.
UpdateUnknown(r, i) ==
    /\ pc[r] = "idle"
    /\ email[i] = None
    /\ UNCHANGED vars

\* ExistsByEmail; a row with the address, also one's own, makes a 409.
UpdateCheck(r) ==
    /\ pc[r] = "reading"
    /\ IF Taken(mail[r]) THEN Finish(r) ELSE Goto(r, "ready")
    /\ UNCHANGED <<rows, faults>>

\* Update, where id = $4.
UpdateRow(r) ==
    /\ pc[r] = "ready"
    /\ email[id[r]] # None
    /\ ~Busy(r) /\ ~TakenByOther(mail[r], id[r])
    /\ email' = [email EXCEPT ![id[r]] = mail[r]]
    /\ Finish(r)
    /\ UNCHANGED <<origin, profile, events, faults>>

\* The account was deleted after FindByID: 404.
UpdateGone(r) ==
    /\ pc[r] = "ready"
    /\ email[id[r]] = None
    /\ Finish(r)
    /\ UNCHANGED <<rows, faults>>

\* Variant: an update that violates the index is tried again.
UpdateUnmappedRetry(r) ==
    /\ pc[r] = "ready"
    /\ email[id[r]] # None
    /\ ~Busy(r) /\ TakenByOther(mail[r], id[r])
    /\ UNCHANGED vars
\* The update violates the index, and UpdateUser does not map the error either.
UpdateUnmapped(r) ==
    /\ pc[r] = "ready"
    /\ email[id[r]] # None
    /\ ~Busy(r) /\ TakenByOther(mail[r], id[r])
    /\ Finish(r)
    /\ UNCHANGED <<rows, faults>>

\* Delete; user_profiles follows by cascade, outbox_events does not.
DeleteUser(i) ==
    /\ email[i] # None
    /\ email' = [email EXCEPT ![i] = None]
    /\ profile' = profile \ {i}
    /\ UNCHANGED <<origin, events, request, faults>>

\* A statement fails, a timeout runs out, or the process ends.
RequestError(r) ==
    /\ Fault
    /\ pc[r] # "idle"
    /\ Finish(r)
    /\ UNCHANGED rows

-----------------------------------------------------------------------------
Arrive(r) == \E s \in Spellings :
    \/ \E k \in Creations : CreateCheck(r, k, s)
    \/ CreateKnown(r, s)
    \/ \E i \in Ids : UpdateFind(r, i, s) \/ UpdateUnknown(r, i)
Serve(r) ==
    \/ \E i \in Ids : CreateInsert(r, i)
    \/ CreateConflict(r) \/ CreateUnmapped(r)
    \/ CreateExtend(r) \/ CreateAnnounce(r) \/ CreateCommit(r)
    \/ UpdateCheck(r) \/ UpdateRow(r) \/ UpdateGone(r) \/ UpdateUnmapped(r)

Next ==
    \/ \E r \in Requests : Arrive(r) \/ Serve(r) \/ RequestError(r)
    \/ \E i \in Ids : DeleteUser(i)

Spec == Init /\ [][Next]_vars

\* The server goes on with a request it has accepted.
FairSpec == Spec /\ \A r \in Requests : WF_vars(Serve(r))

-----------------------------------------------------------------------------
(* Properties *)

\* Types; what a request holds agrees with where it is.
TypeOK ==
    /\ email \in [Ids -> Spellings \cup {None}]
    /\ origin \in [Ids -> Creations \cup {None}]
    /\ profile \subseteq Ids
    /\ events \in [Ids -> Nat]
    /\ pc \in [Requests -> Places]
    /\ op \in [Requests -> Creations \cup {"update", None}]
    /\ mail \in [Requests -> Spellings \cup {None}]
    /\ id \in [Requests -> Ids \cup {None}]
    /\ faults \in 0..MaxFaults
    /\ \A r \in Requests :
          /\ mail[r] # None <=> pc[r] # "idle"
          /\ id[r] # None <=> pc[r] \notin {"idle", "checked"}
          /\ op[r] \in Creations <=> pc[r] \in {"checked"} \cup Inside

\* No two accounts have addresses that differ in spelling only, whichever
\* requests checked before either had written.
EmailsUnique ==
    \A i, j \in Ids :
        email[i] # None /\ email[j] # None /\ Normal[email[i]] = Normal[email[j]] => i = j

\* The event of an account is written with it: one for every account that was
\* ever created, none for a creation that failed.
AnnouncedOnce ==
    \A i \in Ids : events[i] = IF origin[i] # None THEN 1 ELSE 0

\* Accounts are there as a whole: created with a profile if and only if they
\* have one, as long as they live.
AccountsAreWhole ==
    \A i \in Ids : i \in profile <=> origin[i] = "profile" /\ email[i] # None

\* A deleted account stays deleted, also for an update that had found it.
DeletedIsFinal ==
    [][\A i \in Ids : origin[i] # None /\ email[i] = None => email'[i] = None]_vars

\* No request waits for ever for the address of another.
EventuallyAnswered == \A r \in Requests : pc[r] # "idle" ~> pc[r] = "idle"

\* Whatever requests do between each other's statements, a client sees accounts
\* join, change and leave in single steps, with their profiles and events.
Promised == INSTANCE Directory WITH Addresses <- {s \in Spellings : Normal[s] = s},
                                    address <- email,
                                    Kinds <- Creations,
                                    Profiled <- {"profile"},
                                    kind <- origin,
                                    profiles <- profile,
                                    announced <- events
KeepsDirectory == Promised!Spec

\* docs/openapi.yml promises 409 EmailAlreadyExists for an address that is in
\* use, to CreateUser and UpdateUser as to the other requests.
ConflictIsAnswered == [][\A r \in Requests : ~CreateUnmapped(r) /\ ~UpdateUnmapped(r)]_vars
=============================================================================

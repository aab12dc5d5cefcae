----------------------------- MODULE UserCache -----------------------------
(***************************************************************************)
(* The cache of users in Redis, for one user: GetUser reads the key, on a  *)
(* miss the row, and stores what it has read with a time to live;          *)
(* UpdateUser and DeleteUser write the row and then delete the key.        *)
(* Nothing is atomic across the two stores, and errors of the cache are    *)
(* only logged.                                                            *)
(*                                                                         *)
(* A version stands for the contents of the row, deletion being the last.  *)
(* Of a cached or read copy the model keeps how long it has been behind    *)
(* the row.                                                                *)
(***************************************************************************)
EXTENDS Naturals

CONSTANTS
    Readers,    \* calls of GetUser at the same time
    Writers,    \* calls of UpdateUser and DeleteUser at the same time
    TTL,        \* user_ttl of the configuration
    ReadTime,   \* most time from reading the row to storing it
    MaxVersion, \* bound: changes of the row
    MaxFaults   \* bound: errors of Redis and processes that end

ASSUME TTLAssumption   == TTL \in Nat \ {0}
ASSUME ReadAssumption  == ReadTime \in Nat
ASSUME BoundAssumption == MaxVersion \in Nat \ {0} /\ MaxFaults \in Nat

VARIABLES
    row,       \* version of the row
    gone,      \* the row is deleted
    cached,    \* version under the key, 0 where there is none
    life,      \* time until the key expires
    lag,       \* time the cached version has been behind the row
    rowThen,   \* version of the row when the key was stored
    stage,     \* where a call of GetUser is
    copy,      \* version it has read
    held,      \* time since it has read it
    behind,    \* time that version has been behind the row
    pending,   \* version whose invalidation a writer has still to do, or 0
    missed,    \* last version whose invalidation was lost, or 0
    faults     \* faults so far

table  == <<row, gone>>
key    == <<cached, life, lag, rowThen>>
reads  == <<stage, copy, held, behind>>
writes == <<pending, missed>>
vars   == <<table, key, reads, writes, faults>>

Versions == 1..MaxVersion

Fault == faults < MaxFaults /\ faults' = faults + 1

Init ==
    /\ row = 1
    /\ gone = FALSE
    /\ cached = 0 /\ life = 0 /\ lag = 0 /\ rowThen = 0
    /\ stage = [r \in Readers |-> "idle"]
    /\ copy = [r \in Readers |-> 0]
    /\ held = [r \in Readers |-> 0]
    /\ behind = [r \in Readers |-> 0]
    /\ pending = [w \in Writers |-> 0]
    /\ missed = 0
    /\ faults = 0

-----------------------------------------------------------------------------
(* GetUser *)

\* Variant: a hit starts the time to live again.
GetHitRenewing(r) ==
    /\ stage[r] = "idle"
    /\ cached # 0
    /\ life' = TTL
    /\ UNCHANGED <<table, cached, lag, rowThen, reads, writes, faults>>
\* GET finds the key: the cached user is the answer.
GetHit(r) ==
    /\ stage[r] = "idle"
    /\ cached # 0
    /\ UNCHANGED vars

\* GET finds nothing.
GetMiss(r) ==
    /\ stage[r] = "idle"
    /\ cached = 0
    /\ stage' = [stage EXCEPT ![r] = "missed"]
    /\ UNCHANGED <<table, key, copy, held, behind, writes, faults>>

\* GET fails; the error is ignored.
GetError(r) ==
    /\ Fault
    /\ stage[r] = "idle"
    /\ stage' = [stage EXCEPT ![r] = "missed"]
    /\ UNCHANGED <<table, key, copy, held, behind, writes>>

\* Variant: a user that is not found is handed on to the cache.
FindOrNothing(r) ==
    /\ stage[r] = "missed"
    /\ stage' = [stage EXCEPT ![r] = "read"]
    /\ copy' = [copy EXCEPT ![r] = IF gone THEN 0 ELSE row]
    /\ UNCHANGED <<table, key, held, behind, writes, faults>>
\* FindByID; a user that is not found is not cached.
Find(r) ==
    /\ stage[r] = "missed"
    /\ stage' = [stage EXCEPT ![r] = IF gone THEN "idle" ELSE "read"]
    /\ copy' = [copy EXCEPT ![r] = IF gone THEN 0 ELSE row]
    /\ UNCHANGED <<table, key, held, behind, writes, faults>>

Forget(r) ==
    /\ stage' = [stage EXCEPT ![r] = "idle"]
    /\ copy' = [copy EXCEPT ![r] = 0]
    /\ held' = [held EXCEPT ![r] = 0]
    /\ behind' = [behind EXCEPT ![r] = 0]

\* Redis executes SET with the time to live, whether or not the answer arrives.
Store(r) ==
    /\ stage[r] = "read"
    /\ cached' = copy[r]
    /\ life' = TTL
    /\ lag' = behind[r]
    /\ rowThen' = row
    /\ Forget(r)
    /\ UNCHANGED <<table, writes, faults>>

\* SET is not executed, the read fails, or the process ends.
ReadError(r) ==
    /\ Fault
    /\ stage[r] # "idle"
    /\ Forget(r)
    /\ UNCHANGED <<table, key, writes>>

-----------------------------------------------------------------------------
(* UpdateUser, DeleteUser *)

\* Variant: the key is not deleted after the update.
WriteOnly(w, last) ==
    /\ pending[w] = 0
    /\ ~gone /\ row < MaxVersion
    /\ row' = row + 1
    /\ gone' = last
    /\ UNCHANGED <<key, reads, writes, faults>>
\* The row is updated, or deleted for good.
Write(w, last) ==
    /\ pending[w] = 0
    /\ ~gone /\ row < MaxVersion
    /\ row' = row + 1
    /\ gone' = last
    /\ pending' = [pending EXCEPT ![w] = row + 1]
    /\ UNCHANGED <<key, reads, missed, faults>>

NoKey == cached' = 0 /\ life' = 0 /\ lag' = 0 /\ rowThen' = 0

\* DEL of the key.
Invalidate(w) ==
    /\ pending[w] # 0
    /\ NoKey
    /\ pending' = [pending EXCEPT ![w] = 0]
    /\ UNCHANGED <<table, reads, missed, faults>>

\* DEL fails, which is only logged, or the process ends before it.
InvalidateLost(w) ==
    /\ Fault
    /\ pending[w] # 0
    /\ pending' = [pending EXCEPT ![w] = 0]
    /\ missed' = IF pending[w] > missed THEN pending[w] ELSE missed
    /\ UNCHANGED <<table, key, reads>>

-----------------------------------------------------------------------------
(* Time *)

\* Redis gives up a key for lack of memory, or is restarted.
Evict ==
    /\ Fault
    /\ cached # 0
    /\ NoKey
    /\ UNCHANGED <<table, reads, writes>>

\* Variant: the key is stored without a time to live.
ExpiryNever == UNCHANGED key
\* The key expires when its time to live is over.
Expiry ==
    IF life <= 1 THEN NoKey
    ELSE /\ life' = life - 1
         /\ lag' = IF cached # row THEN lag + 1 ELSE lag
         /\ UNCHANGED <<cached, rowThen>>

Tick ==
    /\ \A r \in Readers : stage[r] = "read" => held[r] < ReadTime
    /\ Expiry
    /\ held' = [r \in Readers |-> IF stage[r] = "read" THEN held[r] + 1 ELSE 0]
    /\ behind' = [r \in Readers |->
                    IF stage[r] = "read" /\ copy[r] # row THEN behind[r] + 1 ELSE behind[r]]
    /\ UNCHANGED <<table, stage, copy, writes, faults>>

-----------------------------------------------------------------------------
Read(r) == Find(r) \/ Store(r)
Get(r) == GetHit(r) \/ GetMiss(r) \/ GetError(r) \/ Read(r) \/ ReadError(r)
Change(w) == (\E last \in BOOLEAN : Write(w, last)) \/ Invalidate(w) \/ InvalidateLost(w)

Next ==
    \/ \E r \in Readers : Get(r)
    \/ \E w \in Writers : Change(w)
    \/ Evict
    \/ Tick

Spec == Init /\ [][Next]_vars

\* Calls that have begun go on, and time passes.
FairSpec ==
    /\ Spec
    /\ \A r \in Readers : WF_vars(Read(r))
    /\ \A w \in Writers : WF_vars(Invalidate(w))
    /\ WF_vars(Tick)

-----------------------------------------------------------------------------
(* Properties *)

\* Types; versions never come from the future.
TypeOK ==
    /\ row \in Versions /\ gone \in BOOLEAN
    /\ cached \in 0..row /\ life \in 0..TTL /\ lag \in Nat /\ rowThen \in 0..row
    /\ cached = 0 <=> life = 0
    /\ stage \in [Readers -> {"idle", "missed", "read"}]
    /\ copy \in [Readers -> 0..row]
    /\ held \in [Readers -> 0..ReadTime] /\ behind \in [Readers -> Nat]
    /\ \A r \in Readers : copy[r] # 0 <=> stage[r] = "read"
    /\ pending \in [Writers -> 0..row] /\ missed \in 0..row
    /\ faults \in 0..MaxFaults

\* What GetUser answers from the cache was the row's contents at most one time
\* to live and one read ago, whatever fails and however calls overlap: user_ttl
\* bounds staleness, also for a key that is read all the time.
StalenessIsBounded == cached # 0 => lag <= TTL + ReadTime

\* The cache is behind the row only while an invalidation is under way, after
\* one was lost, or because a read that the write has overtaken stored late.
StaleHasCause ==
    cached # 0 /\ cached # row =>
        \/ rowThen > cached
        \/ \E w \in Writers : pending[w] > cached
        \/ missed > cached

\* After the last change the cache forgets what is older, for good.
EventuallyFresh == <>[](cached \in {0, row})
=============================================================================

------------------------------- MODULE Outbox -------------------------------
(***************************************************************************)
(* The transactional outbox of internal/outbox: the table outbox_events,   *)
(* the workers that claim its rows in batches, publish them to Kafka and   *)
(* mark the outcome, and the broker as seen from the producer.             *)
(*                                                                         *)
(* Several processes of the service run one worker each on the same table. *)
(* A claim is a lease: FetchBatch stamps locked_at, and a row whose stamp  *)
(* is older than LockTimeout may be claimed again.  Nothing in             *)
(* MarkProcessed or MarkFailed names the claimant, so a worker that        *)
(* outlives its lease still marks the row.                                 *)
(*                                                                         *)
(* Time is kept as differences.  lockAge is the time since locked_at and   *)
(* left is the time until the deadline of processCtx; both are exact for   *)
(* every comparison the code makes.                                        *)
(***************************************************************************)
EXTENDS Integers, FiniteSets

CONSTANTS
    Events,          \* rows the service may insert
    Workers,         \* one outbox worker per running process
    CreatedAt,       \* created_at of each row
    BatchSize,       \* WorkerConfig.BatchSize
    MaxAttempts,     \* WorkerConfig.MaxAttempts
    LockTimeout,     \* WorkerConfig.LockTimeout
    ProcessTimeout,  \* WorkerConfig.ProcessTimeout
    ClockSkew,       \* largest distance of a process clock from the database's
    MaxFaults        \* bound: crashes, interruptions, errors and delays

ASSUME FiniteAssumption == IsFiniteSet(Workers) /\ IsFiniteSet(Events)
ASSUME OrderAssumption  == CreatedAt \in [Events -> Int]
\* The validate tags of WorkerConfig: each value is positive on its own.
ASSUME ConfigAssumption ==
    /\ BatchSize \in Nat \ {0}
    /\ MaxAttempts \in Nat \ {0}
    /\ LockTimeout \in Nat \ {0}
    /\ ProcessTimeout \in Nat \ {0}
ASSUME BoundAssumption  == ClockSkew \in Nat /\ MaxFaults \in Nat

VARIABLES
    status,    \* status column; "ABSENT" until the row's insert commits
    attempts,  \* attempts column
    lockAge,   \* time since locked_at, NoLock when locked_at is null
    copies,    \* records of the event on the Kafka topic
    inflight,  \* records given up by Publish that the broker may still append
    work,      \* what a worker has done with each event of its batch
    left,      \* time until the deadline of a worker's processCtx
    running,   \* life of a worker's process
    faults     \* faults so far

vars == <<status, attempts, lockAge, copies, inflight, work, left, running, faults>>
row  == <<status, attempts, lockAge>>
broker == <<copies, inflight>>

NoLock == -1
MaxAge == LockTimeout + ClockSkew + 1   \* older stamps compare the same way

Statuses == {"ABSENT", "NEW", "PROCESSING", "PROCESSED", "FAILED"}
Settled  == {"PROCESSED", "FAILED"}
Stages   == {"none", "fetched", "published", "refused"}
Lives    == {"up", "stopping", "down"}

-----------------------------------------------------------------------------
Held(w)    == {e \in Events : work[w][e] # "none"}
Marking(w) == {e \in Events : work[w][e] \in {"published", "refused"}}
Idle       == \A w \in Workers : Held(w) = {}

Fault == faults < MaxFaults /\ faults' = faults + 1

Init ==
    /\ status   = [e \in Events |-> "ABSENT"]
    /\ attempts = [e \in Events |-> 0]
    /\ lockAge  = [e \in Events |-> NoLock]
    /\ copies   = [e \in Events |-> 0]
    /\ inflight = [e \in Events |-> 0]
    /\ work     = [w \in Workers |-> [e \in Events |-> "none"]]
    /\ left     = [w \in Workers |-> 0]
    /\ running  = [w \in Workers |-> "up"]
    /\ faults   = 0

-----------------------------------------------------------------------------
\* PostgresRepository.Create, at the commit of the transaction it is part of.
Create(e) ==
    /\ status[e] = "ABSENT"
    /\ status' = [status EXCEPT ![e] = "NEW"]
    /\ UNCHANGED <<attempts, lockAge, copies, inflight, work, left, running, faults>>

-----------------------------------------------------------------------------
(* FetchBatch *)

\* Variant: the age of the claim is not looked at.
EligibleIgnoringLease(lead) ==
    {e \in Events : status[e] \in {"NEW", "PROCESSING"}}
\* Variant: expired claims are not taken up again.
EligibleOnlyNew(lead) == {e \in Events : status[e] = "NEW"}
\* Rows the sub-select finds when the process clock leads the database by lead.
Eligible(lead) ==
    {e \in Events : \/ status[e] = "NEW"
                    \/ status[e] = "PROCESSING" /\ lockAge[e] > LockTimeout - lead}

\* Rows FOR UPDATE SKIP LOCKED may pass over: another session is updating them.
RowLocks(w) == UNION {Marking(v) : v \in Workers \ {w}}

\* ORDER BY created_at LIMIT BatchSize
IsBatch(B, candidates) ==
    /\ B \subseteq candidates
    /\ Cardinality(B) <= BatchSize
    /\ B = candidates \/ Cardinality(B) = BatchSize
    /\ \A b \in B, c \in candidates \ B : CreatedAt[b] <= CreatedAt[c]

\* Variant: taking up an expired claim is not counted.
ClaimCountingNewOnly(B) ==
    /\ status'   = [e \in Events |-> IF e \in B THEN "PROCESSING" ELSE status[e]]
    /\ attempts' = [e \in Events |-> IF e \in B /\ status[e] = "NEW"
                                     THEN attempts[e] + 1 ELSE attempts[e]]
    /\ lockAge'  = [e \in Events |-> IF e \in B THEN 0 ELSE lockAge[e]]
\* set status = 'PROCESSING', locked_at = now(), attempts = attempts + 1
Claim(B) ==
    /\ status'   = [e \in Events |-> IF e \in B THEN "PROCESSING" ELSE status[e]]
    /\ attempts' = [e \in Events |-> IF e \in B THEN attempts[e] + 1 ELSE attempts[e]]
    /\ lockAge'  = [e \in Events |-> IF e \in B THEN 0 ELSE lockAge[e]]

ClaimSome(w, B) ==
    /\ running[w] = "up"
    /\ Held(w) = {}
    /\ B # {}
    /\ \E lead \in (-ClockSkew)..ClockSkew, skipped \in SUBSET RowLocks(w) :
           IsBatch(B, Eligible(lead) \ skipped)
    /\ Claim(B)

\* The batch reaches the worker.  processCtx started a little earlier, so
\* ProcessTimeout is the most time the worker can have left.
FetchBatch(w, B) ==
    /\ ClaimSome(w, B)
    /\ work' = [work EXCEPT ![w] = [e \in Events |-> IF e \in B THEN "fetched" ELSE "none"]]
    /\ left' = [left EXCEPT ![w] = ProcessTimeout]
    /\ UNCHANGED <<broker, running, faults>>

\* The update is executed, but its rows do not arrive: a scan error, a lost
\* connection or the query timeout.  ProcessOnce returns the error.
FetchLost(w, B) ==
    /\ Fault
    /\ ClaimSome(w, B)
    /\ UNCHANGED <<broker, work, left, running>>

-----------------------------------------------------------------------------
(* processEvent.  The order RETURNING gives the rows in is not specified:   *)
(* the next event is any that is still waiting in the batch.                *)

Turn(w, e) == work[w][e] = "fetched" /\ Marking(w) = {}

\* ProduceSync is acknowledged before the deadline.
PublishOk(w, e) ==
    /\ Turn(w, e)
    /\ left[w] > 0
    /\ copies' = [copies EXCEPT ![e] = @ + 1]
    /\ work' = [work EXCEPT ![w][e] = "published"]
    /\ UNCHANGED <<row, inflight, left, running, faults>>

\* ProduceSync gives an error; the broker may have, or get, the record all the
\* same.
PublishError(w, e) ==
    /\ Fault
    /\ Turn(w, e)
    /\ left[w] > 0
    /\ work' = [work EXCEPT ![w][e] = "refused"]
    /\ inflight' \in {inflight, [inflight EXCEPT ![e] = @ + 1]}
    /\ UNCHANGED <<row, copies, left, running>>

\* processCtx is over: ProduceSync gives its error at once.
PublishExpired(w, e) ==
    /\ Turn(w, e)
    /\ left[w] = 0
    /\ work' = [work EXCEPT ![w][e] = "refused"]
    /\ UNCHANGED <<row, broker, left, running, faults>>

\* The broker appends a record whose producer has given it up.
Land(e) ==
    /\ inflight[e] > 0
    /\ inflight' = [inflight EXCEPT ![e] = @ - 1]
    /\ copies' = [copies EXCEPT ![e] = @ + 1]
    /\ UNCHANGED <<row, work, left, running, faults>>

\* The worker is done with e; after the last event Run cancels processCtx.
Release(w, e) ==
    /\ work' = [work EXCEPT ![w][e] = "none"]
    /\ left' = [left EXCEPT ![w] = IF Held(w) = {e} THEN 0 ELSE @]

\* Variant: the error of Publish is ignored.
MarkProcessedUnpublished(w, e) ==
    /\ work[w][e] \in {"published", "refused"}
    /\ left[w] > 0
    /\ IF status[e] = "PROCESSING"
       THEN /\ status'  = [status EXCEPT ![e] = "PROCESSED"]
            /\ lockAge' = [lockAge EXCEPT ![e] = NoLock]
       ELSE UNCHANGED <<status, lockAge>>
    /\ Release(w, e)
    /\ UNCHANGED <<attempts, broker, running, faults>>
\* Variant: locked_at is not reset.
MarkProcessedKeepingLock(w, e) ==
    /\ work[w][e] = "published"
    /\ left[w] > 0
    /\ IF status[e] = "PROCESSING"
       THEN status'  = [status EXCEPT ![e] = "PROCESSED"]
       ELSE UNCHANGED status
    /\ Release(w, e)
    /\ UNCHANGED <<attempts, lockAge, broker, running, faults>>
\* MarkProcessed.  No row matches unless the row is PROCESSING, whoever claimed
\* it; the worker logs the error and goes on.
MarkProcessed(w, e) ==
    /\ work[w][e] = "published"
    /\ left[w] > 0
    /\ IF status[e] = "PROCESSING"
       THEN /\ status'  = [status EXCEPT ![e] = "PROCESSED"]
            /\ lockAge' = [lockAge EXCEPT ![e] = NoLock]
       ELSE UNCHANGED <<status, lockAge>>
    /\ Release(w, e)
    /\ UNCHANGED <<attempts, broker, running, faults>>

\* MarkFailed, with the same condition on the row.
MarkFailed(w, e) ==
    /\ work[w][e] = "refused"
    /\ left[w] > 0
    /\ IF status[e] = "PROCESSING"
       THEN /\ status'  = [status EXCEPT ![e] =
                            IF attempts[e] >= MaxAttempts THEN "FAILED" ELSE "NEW"]
            /\ lockAge' = [lockAge EXCEPT ![e] = NoLock]
       ELSE UNCHANGED <<status, lockAge>>
    /\ Release(w, e)
    /\ UNCHANGED <<attempts, broker, running, faults>>

\* Either mark ends in an error without touching the row.  (A mark that is
\* executed and whose answer is lost changes what the mark itself changes.)
MarkError(w, e) ==
    /\ Fault
    /\ work[w][e] \in {"published", "refused"}
    /\ left[w] > 0
    /\ Release(w, e)
    /\ UNCHANGED <<row, broker, running>>

\* Either mark under a processCtx that is over: it never reaches the database.
MarkExpired(w, e) ==
    /\ work[w][e] \in {"published", "refused"}
    /\ left[w] = 0
    /\ Release(w, e)
    /\ UNCHANGED <<row, broker, running, faults>>

-----------------------------------------------------------------------------
(* Life of the processes, and time *)

\* The context of Run is cancelled, and processCtx with it.
Shutdown(w) ==
    /\ Fault
    /\ running[w] = "up"
    /\ running' = [running EXCEPT ![w] = "stopping"]
    /\ left' = [left EXCEPT ![w] = 0]
    /\ UNCHANGED <<row, broker, work>>

\* Run returns once ProcessOnce has walked through what is left of the batch.
Stop(w) ==
    /\ running[w] = "stopping"
    /\ Held(w) = {}
    /\ running' = [running EXCEPT ![w] = "down"]
    /\ UNCHANGED <<row, broker, work, left, faults>>

\* The process is killed with its batch in hand.
Crash(w) ==
    /\ Fault
    /\ running[w] # "down"
    /\ running' = [running EXCEPT ![w] = "down"]
    /\ work' = [work EXCEPT ![w] = [e \in Events |-> "none"]]
    /\ left' = [left EXCEPT ![w] = 0]
    /\ UNCHANGED <<row, broker>>

Start(w) ==
    /\ running[w] = "down"
    /\ running' = [running EXCEPT ![w] = "up"]
    /\ UNCHANGED <<row, broker, work, left, faults>>

Advance ==
    /\ lockAge' = [e \in Events |-> IF lockAge[e] \in 0..(MaxAge - 1)
                                    THEN lockAge[e] + 1 ELSE lockAge[e]]
    /\ left' = [w \in Workers |-> IF left[w] > 0 THEN left[w] - 1 ELSE 0]
    /\ UNCHANGED <<status, attempts, broker, work, running>>

\* Time passes while every worker waits for its ticker.
Tick == Idle /\ Advance /\ UNCHANGED faults

\* Time passes while some worker is busy: a slow broker, database or process.
Delay == ~Idle /\ Fault /\ Advance

-----------------------------------------------------------------------------
Fetch(w) == \E B \in SUBSET Events : FetchBatch(w, B)
Handle(w) == \E e \in Events :
    \/ PublishOk(w, e)
    \/ PublishExpired(w, e)
    \/ MarkProcessed(w, e)
    \/ MarkFailed(w, e)
    \/ MarkExpired(w, e)
Trouble(w) ==
    \/ Shutdown(w)
    \/ Crash(w)
    \/ \E B \in SUBSET Events : FetchLost(w, B)
    \/ \E e \in Events : PublishError(w, e) \/ MarkError(w, e)

Next ==
    \/ \E e \in Events : Create(e) \/ Land(e)
    \/ \E w \in Workers : Fetch(w) \/ Handle(w) \/ Trouble(w) \/ Stop(w) \/ Start(w)
    \/ Tick
    \/ Delay

Spec == Init /\ [][Next]_vars

\* Run loops until it is cancelled and a process that ends is started again;
\* the clock runs.  Nothing is promised of Create, Land or any fault.
Fairness ==
    /\ \A w \in Workers : WF_vars(Fetch(w)) /\ WF_vars(Handle(w))
                          /\ WF_vars(Stop(w)) /\ WF_vars(Start(w))
    /\ WF_vars(Tick)

FairSpec == Spec /\ Fairness

-----------------------------------------------------------------------------
(* Properties *)

\* The columns and the workers' local state keep their types, and locked_at is
\* set exactly while a row is PROCESSING: FetchBatch relies on it to find
\* expired claims.
TypeOK ==
    /\ status \in [Events -> Statuses]
    /\ attempts \in [Events -> Nat]
    /\ lockAge \in [Events -> (NoLock)..MaxAge]
    /\ \A e \in Events : lockAge[e] = NoLock <=> status[e] # "PROCESSING"
    /\ copies \in [Events -> Nat]
    /\ inflight \in [Events -> Nat]
    /\ work \in [Workers -> [Events -> Stages]]
    /\ left \in [Workers -> 0..ProcessTimeout]
    /\ running \in [Workers -> Lives]
    /\ faults \in 0..MaxFaults

\* No event is lost: a row is PROCESSED only if its record is on the topic,
\* whichever worker marked it and however many leases expired before.
ProcessedWasPublished ==
    \A e \in Events : status[e] = "PROCESSED" => copies[e] > 0

\* Duplicates are paid for: however workers crash, stall or steal each other's
\* claims, the topic never has more records of an event than the row's
\* attempts column counts.
CopiesWithinAttempts ==
    \A e \in Events : copies[e] <= attempts[e]

\* A row is given up (FAILED) only after MaxAttempts claims.
FailedOnlyWhenExhausted ==
    \A e \in Events : status[e] = "FAILED" => attempts[e] >= MaxAttempts

\* Every claim of an event beyond the first is the consequence of a fault of
\* its own; with no fault an event is claimed, hence published, once.
ReclaimsNeedFaults ==
    \A e \in Events : attempts[e] <= faults + 1

\* A worker that still has time left on an event of its batch.
Active(w, e) == work[w][e] # "none" /\ left[w] > 0

\* Two workers never work on the same event within their deadlines.
NoSharedEvent ==
    \A w, v \in Workers, e \in Events :
        Active(w, e) /\ Active(v, e) => w = v

\* The row a worker marks before its deadline is PROCESSING under its own
\* claim: the condition status = 'PROCESSING' of the mark never misses.
ActiveOwnsRow ==
    \A w \in Workers, e \in Events :
        Active(w, e) => status[e] = "PROCESSING"

\* PROCESSED and FAILED are final, late marks of other workers included.
SettledIsFinal ==
    [][\A e \in Events : status[e] \in Settled => status'[e] = status[e]]_vars

\* Every committed event is settled in the end: no crash, lost batch, lost
\* answer or expired deadline leaves a row PROCESSING for good.
EventuallySettled ==
    \A e \in Events : status[e] = "NEW" ~> status[e] \in Settled

-----------------------------------------------------------------------------
(* Refinement *)

Phase == [e \in Events |-> CASE status[e] = "ABSENT"    -> "absent"
                             [] status[e] = "PROCESSED" -> "confirmed"
                             [] status[e] = "FAILED"    -> "abandoned"
                             [] OTHER                   -> "pending"]
Delivered == {e \in Events : copies[e] > 0}

Promise == INSTANCE OutboxPromise WITH phase <- Phase, delivered <- Delivered

\* The outbox keeps the promise of OutboxPromise: leases, retries and late marks
\* are invisible to whoever only sees accepted, delivered and final events.
KeepsPromise == Promise!Spec
=============================================================================

------------------------------ MODULE Consumer ------------------------------
(***************************************************************************)
(* The Kafka consumers of internal/kafkaconsumer on one partition of the   *)
(* topic, and the two tables their transactions write: the idempotency     *)
(* table processed_kafka_events and user_audit_events (internal/audit).    *)
(*                                                                         *)
(* Records of one event share their key, so one partition shows every      *)
(* interaction of duplicates.  Every process of the service runs a         *)
(* consumer of the same group.  The group assigns the partition to one of  *)
(* them, but a consumer that loses the partition goes on with the records  *)
(* it has polled: Run gives the client no rebalance callback and does not  *)
(* block rebalances while it processes.                                    *)
(*                                                                         *)
(* Offsets are counted from 1, and a committed or read position is the     *)
(* number of records before it.                                            *)
(***************************************************************************)
EXTENDS Integers, Sequences

CONSTANTS
    Events,     \* events the outbox may publish
    Bad,        \* events that eventFromRecord, Router or the handler reject
    Consumers,  \* consumers of the group
    Nobody,     \* the partition is not assigned
    Lengths,    \* bound: lengths the partition's log may have
    MaxMoves,   \* bound: assignments of the partition
    MaxFaults   \* bound: errors of Kafka and of the database

ASSUME DataAssumption  == Bad \subseteq Events /\ Nobody \notin Consumers
ASSUME BoundAssumption == Lengths \subseteq Nat /\ MaxMoves \in Nat /\ MaxFaults \in Nat

VARIABLES
    log,        \* the events of the partition's records
    committed,  \* committed position of the group
    owner,      \* consumer the partition is assigned to
    position,   \* where a consumer's next poll reads from
    batch,      \* offsets a consumer has polled and not finished: [cur, last]
    stage,      \* where processRecord is with record batch.cur
    processed,  \* event_id of the rows of processed_kafka_events
    audit,      \* rows of user_audit_events for each event
    skipped,    \* offsets some consumer has gone past without processing them
    moves,      \* assignments so far
    faults      \* faults so far

tables == <<processed, audit>>
vars == <<log, committed, owner, position, batch, stage, tables, skipped, moves, faults>>

Stages == {"idle", "check", "handle", "inserted", "ack"}
NoBatch == [cur |-> 0, last |-> 0]

Event(c) == log[batch[c].cur]
Fault == faults < MaxFaults /\ faults' = faults + 1

Init ==
    /\ log = <<>>
    /\ committed = 0
    /\ owner = Nobody
    /\ position = [c \in Consumers |-> 0]
    /\ batch = [c \in Consumers |-> NoBatch]
    /\ stage = [c \in Consumers |-> "idle"]
    /\ processed = {}
    /\ audit = [e \in Events |-> 0]
    /\ skipped = {}
    /\ moves = 0
    /\ faults = 0

-----------------------------------------------------------------------------
(* The topic and the group *)

\* The outbox publishes an event, for the first time or once more.
Append1(e) ==
    /\ Len(log) + 1 \in Lengths
    /\ log' = Append(log, e)
    /\ UNCHANGED <<committed, owner, position, batch, stage, tables, skipped, moves, faults>>

\* Variant: the new owner starts at the end of the log.
AssignAtEnd(c) ==
    /\ moves < MaxMoves
    /\ owner # c
    /\ owner' = c
    /\ position' = [position EXCEPT ![c] = Len(log)]
    /\ moves' = moves + 1
    /\ UNCHANGED <<log, committed, batch, stage, tables, skipped, faults>>
\* The group assigns the partition; its new owner reads from the committed
\* position.  The old owner, if it lives, keeps the records it has polled.
Assign(c) ==
    /\ moves < MaxMoves
    /\ owner # c
    /\ owner' = c
    /\ position' = [position EXCEPT ![c] = committed]
    /\ moves' = moves + 1
    /\ UNCHANGED <<log, committed, batch, stage, tables, skipped, faults>>

\* The process ends, or Run's context is cancelled: an open transaction is
\* rolled back and the consumer leaves the group.
Leave(c) ==
    /\ moves < MaxMoves    \* bound: the partition can be assigned again
    /\ owner = c \/ stage[c] # "idle"
    /\ owner' = IF owner = c THEN Nobody ELSE owner
    /\ batch' = [batch EXCEPT ![c] = NoBatch]
    /\ stage' = [stage EXCEPT ![c] = "idle"]
    /\ UNCHANGED <<log, committed, position, tables, skipped, moves, faults>>

-----------------------------------------------------------------------------
(* Run and processFetches *)

CanPoll(c, n) ==
    /\ owner = c
    /\ stage[c] = "idle"
    /\ n \in (position[c] + 1)..Len(log)

\* PollFetches returns the records up to n.
Poll(c, n) ==
    /\ CanPoll(c, n)
    /\ batch' = [batch EXCEPT ![c] = [cur |-> position[c] + 1, last |-> n]]
    /\ stage' = [stage EXCEPT ![c] = "check"]
    /\ position' = [position EXCEPT ![c] = n]
    /\ UNCHANGED <<log, committed, owner, tables, skipped, moves, faults>>

\* PollFetches finds nothing new and waits.
PollNothing(c) ==
    /\ owner = c
    /\ stage[c] = "idle"
    /\ position[c] = Len(log)
    /\ UNCHANGED vars

\* PollFetches returns the records together with an error of another partition:
\* Run logs the error and polls again, past the records.
PollError(c, n) ==
    /\ Fault
    /\ CanPoll(c, n)
    /\ position' = [position EXCEPT ![c] = n]
    /\ skipped' = skipped \cup (position[c] + 1)..n
    /\ UNCHANGED <<log, committed, owner, batch, stage, tables, moves>>

\* processRecord gives an error: the rest of the partition's records is left,
\* and the client does not go back to them.
GiveUp(c) ==
    /\ skipped' = skipped \cup batch[c].cur..batch[c].last
    /\ batch' = [batch EXCEPT ![c] = NoBatch]
    /\ stage' = [stage EXCEPT ![c] = "idle"]

-----------------------------------------------------------------------------
(* processRecord *)

\* eventFromRecord, Router.Handle and the handler's checks of content type,
\* message, version and payload.  A bad record fails every time, and nothing of
\* its transaction stays.
Reject(c) ==
    /\ stage[c] = "check"
    /\ Event(c) \in Bad
    /\ GiveUp(c)
    /\ UNCHANGED <<log, committed, owner, position, tables, moves, faults>>

\* Variant: the idempotency table is not consulted.
WasProcessedNever(c) ==
    /\ stage[c] = "check"
    /\ Event(c) \notin Bad
    /\ stage' = [stage EXCEPT ![c] = "handle"]
    /\ UNCHANGED <<log, committed, owner, position, batch, tables, skipped, moves, faults>>
\* The transaction begins with WasProcessed, which sees committed rows only.
WasProcessed(c) ==
    /\ stage[c] = "check"
    /\ Event(c) \notin Bad
    /\ stage' = [stage EXCEPT ![c] = IF Event(c) \in processed THEN "ack" ELSE "handle"]
    /\ UNCHANGED <<log, committed, owner, position, batch, tables, skipped, moves, faults>>

\* Another transaction has inserted the event's audit row and is still open.
RowBusy(c) == \E d \in Consumers \ {c} : stage[d] = "inserted" /\ Event(d) = Event(c)

\* Variant: source_event_id is not unique.
HandleNotUnique(c) ==
    /\ stage[c] = "handle"
    /\ stage' = [stage EXCEPT ![c] = "inserted"]
    /\ UNCHANGED <<log, committed, owner, position, batch, tables, skipped, moves, faults>>
\* Handle inserts the audit row.  The unique index on source_event_id makes it
\* wait for an open transaction on the same event.
Handle(c) ==
    /\ stage[c] = "handle"
    /\ ~RowBusy(c)
    /\ audit[Event(c)] = 0
    /\ stage' = [stage EXCEPT ![c] = "inserted"]
    /\ UNCHANGED <<log, committed, owner, position, batch, tables, skipped, moves, faults>>

\* The row was committed after WasProcessed had looked: the insert violates the
\* index and the transaction is rolled back.
HandleConflict(c) ==
    /\ stage[c] = "handle"
    /\ ~RowBusy(c)
    /\ audit[Event(c)] > 0
    /\ GiveUp(c)
    /\ UNCHANGED <<log, committed, owner, position, tables, moves, faults>>

\* What the transaction writes: the audit row and, by MarkProcessed, the row of
\* the idempotency table.
Commit(e) ==
    /\ audit' = [audit EXCEPT ![e] = @ + 1]
    /\ processed' = processed \cup {e}

\* MarkProcessed, then the commit of WithinTx.
CommitTx(c) ==
    /\ stage[c] = "inserted"
    /\ Commit(Event(c))
    /\ stage' = [stage EXCEPT ![c] = "ack"]
    /\ UNCHANGED <<log, committed, owner, position, batch, skipped, moves, faults>>

\* The database gives an error, or processTimeout or queryTimeout runs out: the
\* transaction is rolled back.
TxError(c) ==
    /\ Fault
    /\ stage[c] \in {"check", "handle", "inserted"}
    /\ GiveUp(c)
    /\ UNCHANGED <<log, committed, owner, position, tables, moves>>

\* The commit is executed, but its answer is lost.
CommitLost(c) ==
    /\ Fault
    /\ stage[c] = "inserted"
    /\ Commit(Event(c))
    /\ GiveUp(c)
    /\ UNCHANGED <<log, committed, owner, position, moves>>

\* Variant: one record too many.
NextRecordLate(c) ==
    IF batch[c].cur <= batch[c].last
    THEN /\ batch' = [batch EXCEPT ![c].cur = @ + 1]
         /\ stage' = [stage EXCEPT ![c] = "check"]
    ELSE /\ batch' = [batch EXCEPT ![c] = NoBatch]
         /\ stage' = [stage EXCEPT ![c] = "idle"]
\* On to the next record of the batch, or back to PollFetches.
NextRecord(c) ==
    IF batch[c].cur < batch[c].last
    THEN /\ batch' = [batch EXCEPT ![c].cur = @ + 1]
         /\ stage' = [stage EXCEPT ![c] = "check"]
    ELSE /\ batch' = [batch EXCEPT ![c] = NoBatch]
         /\ stage' = [stage EXCEPT ![c] = "idle"]

\* Variant: the whole poll is committed after its first record.
CommitRecordsOfBatch(c) ==
    /\ stage[c] = "ack"
    /\ committed' = batch[c].last
    /\ NextRecord(c)
    /\ UNCHANGED <<log, owner, position, tables, skipped, moves, faults>>
\* CommitRecords.  The broker takes the commit of any member of the group, so a
\* consumer that has lost the partition may move the position back.
CommitRecords(c) ==
    /\ stage[c] = "ack"
    /\ committed' = batch[c].cur
    /\ NextRecord(c)
    /\ UNCHANGED <<log, owner, position, tables, skipped, moves, faults>>

\* CommitRecords gives an error, executed or not.
CommitRecordsError(c) ==
    /\ Fault
    /\ stage[c] = "ack"
    /\ committed' \in {committed, batch[c].cur}
    /\ GiveUp(c)
    /\ UNCHANGED <<log, owner, position, tables, moves>>

\* A consumer the group has expelled may not commit any more.
CommitRefused(c) ==
    /\ stage[c] = "ack"
    /\ owner # c
    /\ GiveUp(c)
    /\ UNCHANGED <<log, committed, owner, position, tables, moves, faults>>

-----------------------------------------------------------------------------
Step(c) ==
    \/ Reject(c)
    \/ WasProcessed(c)
    \/ Handle(c)
    \/ HandleConflict(c)
    \/ CommitTx(c)
    \/ CommitRecords(c)
Read(c) == \E n \in 1..Len(log) : Poll(c, n)
Trouble(c) ==
    \/ \E n \in 1..Len(log) : PollError(c, n)
    \/ TxError(c)
    \/ CommitLost(c)
    \/ CommitRecordsError(c)
    \/ CommitRefused(c)

\* What the group and its consumers do, whatever fills the topic.
Work == \E c \in Consumers :
    Assign(c) \/ Leave(c) \/ Read(c) \/ PollNothing(c) \/ Step(c) \/ Trouble(c)

Next ==
    \/ \E e \in Events : Append1(e)
    \/ Work

Spec == Init /\ [][Next]_vars

\* The client polls, processRecord runs to its end, and the group does not
\* leave the partition unassigned.  Faults and departures are not promised.
Fairness ==
    /\ \A c \in Consumers : WF_vars(Read(c)) /\ WF_vars(Step(c))
    /\ WF_vars(owner = Nobody /\ \E c \in Consumers : Assign(c))

FairSpec == Spec /\ Fairness

-----------------------------------------------------------------------------
(* Properties *)

\* Types; a consumer's batch and stage agree, and lie within the log.
TypeOK ==
    /\ log \in Seq(Events)
    /\ committed \in 0..Len(log)
    /\ owner \in Consumers \cup {Nobody}
    /\ position \in [Consumers -> 0..Len(log)]
    /\ batch \in [Consumers -> [cur : Nat, last : Nat]]
    /\ stage \in [Consumers -> Stages]
    /\ \A c \in Consumers :
          IF stage[c] = "idle" THEN batch[c] = NoBatch
          ELSE 0 < batch[c].cur /\ batch[c].cur <= batch[c].last /\ batch[c].last <= Len(log)
    /\ processed \subseteq Events
    /\ audit \in [Events -> Nat]
    /\ skipped \subseteq 1..Len(log)
    /\ moves \in 0..MaxMoves
    /\ faults \in 0..MaxFaults

\* However often an event is delivered and whoever else works on it, it is
\* audited once.
AuditedOnce == \A e \in Events : audit[e] <= 1

\* The audit row and the idempotency row stand and fall together: a duplicate
\* is recognised if and only if the event was audited.
AuditMatchesProcessed == \A e \in Events : audit[e] > 0 <=> e \in processed

\* Nothing is audited that was not published, and no record that the handler
\* refuses: what reaches the audit has gone through the topic and every check.
AuditedIsPublished ==
    \A e \in Events : audit[e] > 0 => e \notin Bad /\ \E i \in DOMAIN log : log[i] = e

\* The audit is never taken back and never written again, whoever meets the event
\* once more.
AuditIsFinal == [][\A e \in Events : audit[e] > 0 => audit'[e] = audit[e]]_vars

\* Every committed offset is accounted for: its event was processed, or a
\* consumer has given up the record because of an error.
CommittedIsAccounted ==
    \A i \in 1..committed : log[i] \in processed \/ i \in skipped

\* "Kafka consumers process events idempotently and store audit records": a
\* committed offset is never read again, so its event must be in the audit.
CommittedIsAudited ==
    \A i \in 1..committed : audit[log[i]] > 0

\* Every record is processed or given up in the end: no crash, no rebalance and
\* no lost answer leaves one behind unread.
EventuallyAccounted ==
    \A i \in Lengths :
        i \in DOMAIN log ~> i \in skipped \/ (i \in DOMAIN log /\ log[i] \in processed)
=============================================================================

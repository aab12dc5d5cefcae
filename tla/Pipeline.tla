------------------------------ MODULE Pipeline ------------------------------
(***************************************************************************)
(* The way of an event from the transaction that inserts it to its audit   *)
(* row: the outbox (Outbox) publishes to one partition of the topic, and   *)
(* the consumers of the group (Consumer) read it.                          *)
(*                                                                         *)
(* A record is appended to the partition in the step in which the outbox   *)
(* counts one more copy; nothing else joins the two, and each component    *)
(* leaves the state of the other alone.  The service publishes well-formed *)
(* events only, so none is bad.                                            *)
(***************************************************************************)
EXTENDS Outbox, Sequences

CONSTANTS
    Consumers,  \* consumers of the group
    Nobody,     \* the partition is not assigned
    MaxMoves,   \* bound: assignments of the partition
    MaxTroubles \* bound: errors on the consumers' side

ASSUME GroupAssumption ==
    Nobody \notin Consumers /\ MaxMoves \in Nat /\ MaxTroubles \in Nat

VARIABLES
    log, committed, owner, position, batch, stage, processed, audit, skipped, moves,
    troubles, \* faults on the consumers' side so far
    readers   \* history: consumers the partition has been assigned to

\* The topic holds what the outbox appends and is not bounded here.
C == INSTANCE Consumer WITH Bad <- {}, Lengths <- Nat,
                              faults <- troubles, MaxFaults <- MaxTroubles

topicVars    == <<log, committed, owner, position, batch, stage, processed, audit, skipped, moves,
                  troubles>>
consumerOnly == <<committed, owner, position, batch, stage, processed, audit, skipped, moves,
                  troubles>>
pipelineVars == <<vars, topicVars, readers>>

PipelineInit == Init /\ C!Init /\ readers = {}

\* The record of the event whose copies the step counts.
AppendRecord ==
    IF copies' = copies THEN UNCHANGED log
    ELSE \E e \in Events : copies'[e] = copies[e] + 1 /\ log' = Append(log, e)

\* A step of the outbox, and one of the consumers.
Outward(A) == A /\ AppendRecord /\ UNCHANGED <<consumerOnly, readers>>
Inward(A)  == A /\ UNCHANGED vars /\ readers' = readers \cup ({owner'} \ {Nobody})

PipelineNext ==
    \/ Outward(Next)
    \/ Inward(C!Work)

PipelineSpec == PipelineInit /\ [][PipelineNext]_pipelineVars

\* The fairness of each component.
PipelineFairness ==
    /\ \A w \in Workers : /\ WF_pipelineVars(Outward(Fetch(w)))
                          /\ WF_pipelineVars(Outward(Handle(w)))
                          /\ WF_pipelineVars(Outward(Stop(w)))
                          /\ WF_pipelineVars(Outward(Start(w)))
    /\ WF_pipelineVars(Outward(Tick))
    /\ \A c \in Consumers : /\ WF_pipelineVars(Inward(C!Read(c)))
                            /\ WF_pipelineVars(Inward(C!Step(c)))
    /\ WF_pipelineVars(Inward(owner = Nobody /\ \E c \in Consumers : C!Assign(c)))

FairPipeline == PipelineSpec /\ PipelineFairness

-----------------------------------------------------------------------------
(* Properties *)

\* The whole service keeps the promise of Delivery: only committed events are
\* audited, each at most once, and an audit row stays, through every retry of
\* the outbox and every redelivery of the topic.
Accepted == {e \in Events : status[e] # "ABSENT"}
Promised == INSTANCE Delivery WITH accepted <- Accepted, rows <- audit
KeepsDelivery == Promised!Spec

\* Events that one of the two components has given up.
GivenUp == {e \in Events : \/ status[e] = "FAILED"
                           \/ \E i \in skipped : log[i] = e}

\* While one consumer reads the partition, nothing is given up without a fault:
\* no lease, restart of the consumer or redelivery costs an event its audit row.
DropNeedsFault ==
    GivenUp # {} => faults + troubles > 0 \/ \E c, d \in readers : c # d

\* Every committed event is audited in the end, or one of the components has
\* given it up: none is left in the table, on the topic or in a batch.
EventuallyAudited ==
    \A e \in Events : status[e] = "NEW" ~> audit[e] = 1 \/ e \in GivenUp
=============================================================================

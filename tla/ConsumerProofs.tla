--------------------------- MODULE ConsumerProofs ---------------------------
(***************************************************************************)
(* Theorems about Consumer, for every set of events and consumers and      *)
(* every bound.                                                            *)
(***************************************************************************)
EXTENDS Consumer, TLAPS

-----------------------------------------------------------------------------
(* Types *)

\* The stage and the batch of each consumer agree, within a log of length n.
BatchOK(st, b, n) ==
    IF st = "idle" THEN b = NoBatch ELSE 0 < b.cur /\ b.cur <= b.last /\ b.last <= n

\* Giving a batch up keeps the types of what it changes.
LEMMA GiveUpType ==
    ASSUME TypeOK, NEW c \in Consumers, stage[c] # "idle", GiveUp(c), log' = log
    PROVE  /\ batch' \in [Consumers -> [cur : Nat, last : Nat]]
           /\ stage' \in [Consumers -> Stages]
           /\ \A d \in Consumers : BatchOK(stage'[d], batch'[d], Len(log'))
           /\ skipped' \subseteq 1..Len(log')
<1>1. batch[c].cur \in Nat /\ batch[c].last \in Nat /\ 0 < batch[c].cur
      /\ batch[c].last <= Len(log) /\ Len(log) \in Nat
  BY DEF TypeOK
<1>2. batch[c].cur..batch[c].last \subseteq 1..Len(log)
  BY <1>1
<1>3. NoBatch \in [cur : Nat, last : Nat]
  BY DEF NoBatch
<1>4. \A d \in Consumers : BatchOK(stage[d], batch[d], Len(log))
  BY DEF TypeOK, BatchOK
<1>5. \A d \in Consumers : BatchOK(stage'[d], batch'[d], Len(log'))
  BY <1>4 DEF GiveUp, TypeOK, BatchOK
<1> QED BY <1>2, <1>3, <1>5 DEF GiveUp, TypeOK, Stages

\* Going on to the next record keeps the types of what it changes.
LEMMA NextRecordType ==
    ASSUME TypeOK, NEW c \in Consumers, stage[c] # "idle", NextRecord(c), log' = log
    PROVE  /\ batch' \in [Consumers -> [cur : Nat, last : Nat]]
           /\ stage' \in [Consumers -> Stages]
           /\ \A d \in Consumers : BatchOK(stage'[d], batch'[d], Len(log'))
<1>1. batch[c] \in [cur : Nat, last : Nat] /\ 0 < batch[c].cur /\ batch[c].last <= Len(log)
  BY DEF TypeOK
<1>2. \A d \in Consumers : BatchOK(stage[d], batch[d], Len(log))
  BY DEF TypeOK, BatchOK
<1>3. CASE batch[c].cur < batch[c].last
  <2> DEFINE b == [cur |-> batch[c].cur + 1, last |-> batch[c].last]
  <2>1. batch' = [batch EXCEPT ![c] = b] /\ stage' = [stage EXCEPT ![c] = "check"]
    BY <1>1, <1>3 DEF NextRecord, TypeOK
  <2>2. b \in [cur : Nat, last : Nat] /\ BatchOK("check", b, Len(log))
    BY <1>1, <1>3 DEF BatchOK
  <2> HIDE DEF b
  <2> QED BY <1>2, <2>1, <2>2 DEF TypeOK, Stages, BatchOK
<1>4. CASE ~(batch[c].cur < batch[c].last)
  <2>1. batch' = [batch EXCEPT ![c] = NoBatch] /\ stage' = [stage EXCEPT ![c] = "idle"]
    BY <1>4 DEF NextRecord
  <2>2. NoBatch \in [cur : Nat, last : Nat]
    BY DEF NoBatch
  <2> QED BY <1>2, <2>1, <2>2 DEF TypeOK, Stages, BatchOK
<1> QED BY <1>3, <1>4

\* A consumer that only moves on within processRecord keeps its batch's types.
LEMMA StageType ==
    ASSUME TypeOK, NEW c \in Consumers, NEW s \in Stages \ {"idle"}, stage[c] # "idle",
           stage' = [stage EXCEPT ![c] = s], batch' = batch, log' = log
    PROVE  /\ stage' \in [Consumers -> Stages]
           /\ \A d \in Consumers : BatchOK(stage'[d], batch'[d], Len(log'))
<1>1. \A d \in Consumers : BatchOK(stage[d], batch[d], Len(log))
  BY DEF TypeOK, BatchOK
<1> QED BY <1>1 DEF TypeOK, BatchOK

\* TypeOK in terms of BatchOK.
LEMMA TypeOKByParts ==
    ASSUME log' \in Seq(Events), committed' \in 0..Len(log'), owner' \in Consumers \cup {Nobody},
           position' \in [Consumers -> 0..Len(log')],
           batch' \in [Consumers -> [cur : Nat, last : Nat]], stage' \in [Consumers -> Stages],
           \A d \in Consumers : BatchOK(stage'[d], batch'[d], Len(log')),
           processed' \subseteq Events, audit' \in [Events -> Nat], skipped' \subseteq 1..Len(log'),
           moves' \in 0..MaxMoves, faults' \in 0..MaxFaults
    PROVE  TypeOK'
  BY DEF TypeOK, BatchOK

\* A consumer at work looks at an event of the log.
LEMMA EventInLog ==
    ASSUME TypeOK, NEW c \in Consumers, stage[c] # "idle"
    PROVE  batch[c].cur \in 1..Len(log) /\ Event(c) \in Events
<1>1. batch[c].cur \in 1..Len(log)
  BY DEF TypeOK
<1> QED BY <1>1 DEF Event, TypeOK

\* The commit of a transaction adds one row to each table.
LEMMA CommitType ==
    ASSUME TypeOK, NEW e \in Events, Commit(e)
    PROVE  processed' \subseteq Events /\ audit' \in [Events -> Nat]
  BY DEF Commit, TypeOK

\* The number of faults keeps its bound.
LEMMA FaultType ==
    ASSUME TypeOK, Fault
    PROVE  faults' \in 0..MaxFaults
  BY BoundAssumption DEF TypeOK, Fault

\* Every step keeps the types, and each batch within the log.
LEMMA TypeStep == TypeOK /\ [Next]_vars => TypeOK'
<1> SUFFICES ASSUME TypeOK, [Next]_vars PROVE TypeOK'
  OBVIOUS
<1> USE BoundAssumption
<1>0. \A d \in Consumers : BatchOK(stage[d], batch[d], Len(log))
  BY DEF TypeOK, BatchOK
<1>1. ASSUME NEW e \in Events, Append1(e) PROVE TypeOK'
  <2>1. log' \in Seq(Events) /\ Len(log') = Len(log) + 1 /\ Len(log) \in Nat
    BY <1>1 DEF Append1, TypeOK
  <2>2. \A d \in Consumers : BatchOK(stage'[d], batch'[d], Len(log'))
    BY <1>0, <1>1, <2>1 DEF Append1, TypeOK, BatchOK
  <2>3. /\ committed' \in 0..Len(log') /\ position' \in [Consumers -> 0..Len(log')]
        /\ skipped' \subseteq 1..Len(log')
    BY <1>1, <2>1 DEF Append1, TypeOK
  <2> QED BY <1>1, <2>1, <2>2, <2>3, TypeOKByParts DEF Append1, TypeOK, tables
<1>2. ASSUME NEW c \in Consumers, Assign(c) PROVE TypeOK'
  BY <1>0, <1>2, TypeOKByParts DEF Assign, TypeOK, tables
<1>3. ASSUME NEW c \in Consumers, Leave(c) PROVE TypeOK'
  <2>1. \A d \in Consumers : BatchOK(stage'[d], batch'[d], Len(log'))
    BY <1>0, <1>3 DEF Leave, TypeOK, BatchOK
  <2>2. NoBatch \in [cur : Nat, last : Nat]
    BY DEF NoBatch
  <2> QED BY <1>3, <2>1, <2>2, TypeOKByParts DEF Leave, TypeOK, Stages, tables
<1>4. ASSUME NEW c \in Consumers, NEW n \in 1..Len(log), Poll(c, n) PROVE TypeOK'
  <2> DEFINE b == [cur |-> position[c] + 1, last |-> n]
  <2>1. b \in [cur : Nat, last : Nat] /\ BatchOK("check", b, Len(log)) /\ n \in 0..Len(log)
    BY <1>4 DEF Poll, CanPoll, TypeOK, BatchOK
  <2>2. batch' = [batch EXCEPT ![c] = b] /\ stage' = [stage EXCEPT ![c] = "check"] /\ log' = log
    BY <1>4 DEF Poll
  <2> HIDE DEF b
  <2>3. \A d \in Consumers : BatchOK(stage'[d], batch'[d], Len(log'))
    BY <1>0, <2>1, <2>2 DEF TypeOK
  <2>4. batch' \in [Consumers -> [cur : Nat, last : Nat]] /\ stage' \in [Consumers -> Stages]
    BY <2>1, <2>2 DEF TypeOK, Stages
  <2> QED BY <1>4, <2>1, <2>3, <2>4, TypeOKByParts DEF Poll, TypeOK, tables
<1>5. ASSUME NEW c \in Consumers, NEW n \in 1..Len(log), PollError(c, n) PROVE TypeOK'
  <2>1. position[c] \in Nat /\ n \in 0..Len(log)
    BY <1>5 DEF TypeOK
  <2>2. skipped' \subseteq 1..Len(log)
    <3>1. (position[c] + 1)..n \subseteq 1..Len(log)
      BY <2>1
    <3> QED BY <1>5, <3>1 DEF PollError, TypeOK
  <2>3. position' \in [Consumers -> 0..Len(log)]
    BY <1>5, <2>1 DEF PollError, TypeOK
  <2>4. faults' \in 0..MaxFaults
    BY <1>5, FaultType DEF PollError
  <2> QED BY <1>0, <1>5, <2>2, <2>3, <2>4, TypeOKByParts DEF PollError, TypeOK, tables
<1>6. ASSUME NEW c \in Consumers, Reject(c) PROVE TypeOK'
  BY <1>6, GiveUpType, TypeOKByParts DEF Reject, TypeOK, tables
<1>7. ASSUME NEW c \in Consumers, WasProcessed(c) PROVE TypeOK'
  <2>1. PICK s \in {"ack", "handle"} : stage' = [stage EXCEPT ![c] = s]
    BY <1>7 DEF WasProcessed
  <2>2. s \in Stages \ {"idle"}
    BY DEF Stages
  <2> QED BY <1>7, <2>1, <2>2, StageType, TypeOKByParts DEF WasProcessed, TypeOK, tables
<1>8. ASSUME NEW c \in Consumers, Handle(c) PROVE TypeOK'
  <2>1. "inserted" \in Stages \ {"idle"}
    BY DEF Stages
  <2> QED BY <1>8, <2>1, StageType, TypeOKByParts DEF Handle, TypeOK, tables
<1>9. ASSUME NEW c \in Consumers, HandleConflict(c) PROVE TypeOK'
  BY <1>9, GiveUpType, TypeOKByParts DEF HandleConflict, TypeOK, tables
<1>10. ASSUME NEW c \in Consumers, CommitTx(c) PROVE TypeOK'
  <2>1. "ack" \in Stages \ {"idle"}
    BY DEF Stages
  <2>2. processed' \subseteq Events /\ audit' \in [Events -> Nat]
    BY <1>10, EventInLog, CommitType DEF CommitTx
  <2> QED BY <1>10, <2>1, <2>2, StageType, TypeOKByParts DEF CommitTx, TypeOK
<1>11. ASSUME NEW c \in Consumers, TxError(c) PROVE TypeOK'
  <2>1. stage[c] # "idle" /\ GiveUp(c) /\ log' = log /\ faults' \in 0..MaxFaults
    BY <1>11, FaultType DEF TxError
  <2> QED BY <1>11, <2>1, GiveUpType, TypeOKByParts DEF TxError, TypeOK, tables
<1>12. ASSUME NEW c \in Consumers, CommitLost(c) PROVE TypeOK'
  <2>1. processed' \subseteq Events /\ audit' \in [Events -> Nat]
    BY <1>12, EventInLog, CommitType DEF CommitLost
  <2>2. stage[c] # "idle" /\ GiveUp(c) /\ log' = log /\ faults' \in 0..MaxFaults
    BY <1>12, FaultType DEF CommitLost
  <2> QED BY <1>12, <2>1, <2>2, GiveUpType, TypeOKByParts DEF CommitLost, TypeOK
<1>13. ASSUME NEW c \in Consumers, CommitRecords(c) PROVE TypeOK'
  <2>1. committed' \in 0..Len(log)
    BY <1>13, EventInLog DEF CommitRecords
  <2> QED BY <1>13, <2>1, NextRecordType, TypeOKByParts DEF CommitRecords, TypeOK, tables
<1>14. ASSUME NEW c \in Consumers, CommitRecordsError(c) PROVE TypeOK'
  <2>1. committed' \in 0..Len(log)
    BY <1>14, EventInLog DEF CommitRecordsError, TypeOK
  <2>2. stage[c] # "idle" /\ GiveUp(c) /\ log' = log /\ faults' \in 0..MaxFaults
    BY <1>14, FaultType DEF CommitRecordsError
  <2> QED BY <1>14, <2>1, <2>2, GiveUpType, TypeOKByParts DEF CommitRecordsError, TypeOK, tables
<1>15. ASSUME NEW c \in Consumers, CommitRefused(c) PROVE TypeOK'
  BY <1>15, GiveUpType, TypeOKByParts DEF CommitRefused, TypeOK, tables
<1>16. CASE UNCHANGED vars
  BY <1>16 DEF vars, tables, TypeOK
<1> QED
  BY <1>1, <1>2, <1>3, <1>4, <1>5, <1>6, <1>7, <1>8, <1>9, <1>10, <1>11, <1>12, <1>13,
     <1>14, <1>15, <1>16
  DEF Next, Work, Read, Step, Trouble, PollNothing

\* The types hold throughout every behaviour.
THEOREM TypeCorrect == Spec => []TypeOK
<1>1. Init => TypeOK
  BY BoundAssumption DEF Init, TypeOK, Stages, NoBatch
<1> QED
  BY <1>1, TypeStep, PTL DEF Spec

-----------------------------------------------------------------------------
(* Once and only once *)

\* The consumer has inserted the event's audit row and not yet committed it.
Open(c, e) == stage[c] = "inserted" /\ Event(c) = e

\* The inductive form: an open insert is of an event that has no row yet, and
\* no two inserts of one event are open together.
AuditInv ==
    /\ AuditedOnce
    /\ AuditMatchesProcessed
    /\ \A c \in Consumers, e \in Events : Open(c, e) => audit[e] = 0
    /\ \A c, d \in Consumers, e \in Events : Open(c, e) /\ Open(d, e) => c = d

\* Records of the log are never changed.
LEMMA LogGrows ==
    ASSUME TypeOK, [Next]_vars
    PROVE  /\ Len(log') \in Nat /\ Len(log) <= Len(log')
           /\ \A i \in 1..Len(log) : log'[i] = log[i]
<1>1. ASSUME NEW e \in Events, Append1(e)
      PROVE  /\ Len(log') \in Nat /\ Len(log) <= Len(log')
             /\ \A i \in 1..Len(log) : log'[i] = log[i]
  BY <1>1 DEF Append1, TypeOK
<1>2. CASE UNCHANGED log
  BY <1>2 DEF TypeOK
<1> QED
  BY <1>1, <1>2
  DEF Next, Work, Assign, Leave, Read, Poll, PollNothing, PollError, Step, Reject, WasProcessed,
      Handle, HandleConflict, CommitTx, CommitRecords, Trouble, TxError, CommitLost,
      CommitRecordsError, CommitRefused, vars

\* An insert is opened by Handle only.
LEMMA OpenBefore ==
    ASSUME TypeOK, [Next]_vars, NEW c \in Consumers, NEW e \in Events, Open(c, e)', ~Handle(c)
    PROVE  Open(c, e)
<1>1. ASSUME stage[c] = "inserted", batch'[c] = batch[c] PROVE Open(c, e)
  BY <1>1, LogGrows, EventInLog DEF Open, Event
<1>2. ASSUME NEW d \in Consumers, GiveUp(d) \/ NextRecord(d)
      PROVE  stage[c] = "inserted" /\ batch'[c] = batch[c]
  BY <1>2 DEF GiveUp, NextRecord, Open, TypeOK
<1>3. ASSUME NEW d \in Consumers, Leave(d) \/ (\E n \in 1..Len(log) : Poll(d, n))
      PROVE  stage[c] = "inserted" /\ batch'[c] = batch[c]
  BY <1>3 DEF Leave, Poll, Open, TypeOK
<1>4. ASSUME NEW d \in Consumers, WasProcessed(d) \/ CommitTx(d)
      PROVE  stage[c] = "inserted" /\ batch'[c] = batch[c]
  BY <1>4 DEF WasProcessed, CommitTx, Open, TypeOK
<1>5. ASSUME NEW d \in Consumers, Handle(d)
      PROVE  stage[c] = "inserted" /\ batch'[c] = batch[c]
  <2>1. d # c
    BY <1>5
  <2> QED BY <1>5, <2>1 DEF Handle, Open, TypeOK
<1>6. CASE UNCHANGED <<stage, batch>>
  BY <1>1, <1>6 DEF Open
<1> QED
  BY <1>1, <1>2, <1>3, <1>4, <1>5, <1>6
  DEF Next, Work, Append1, Assign, Read, PollNothing, PollError, Step, Reject, HandleConflict,
      CommitRecords, Trouble, TxError, CommitLost, CommitRecordsError, CommitRefused, vars

\* The row a consumer inserts is committed before anybody else may open one.
LEMMA AuditStep == TypeOK /\ AuditInv /\ [Next]_vars => AuditInv'
<1> SUFFICES ASSUME TypeOK, AuditInv, [Next]_vars PROVE AuditInv'
  OBVIOUS
<1>1. ASSUME NEW c \in Consumers, CommitTx(c) \/ CommitLost(c) PROVE AuditInv'
  <2>0. PICK x \in Events : x = Event(c)
    BY <1>1, EventInLog DEF CommitTx, CommitLost
  <2>1. Open(c, x) /\ Commit(x)
    BY <1>1, <2>0 DEF CommitTx, CommitLost, Open
  <2>2. audit[x] = 0
    BY <2>1 DEF AuditInv
  <2>3. audit' = [audit EXCEPT ![x] = 1] /\ processed' = processed \cup {x}
    BY <2>1, <2>2 DEF Commit, TypeOK
  <2>4. stage'[c] # "inserted" /\ ~Handle(c)
    BY <1>1 DEF CommitTx, CommitLost, GiveUp, Handle, TypeOK
  <2>5. \A d \in Consumers : ~Handle(d)
    <3> SUFFICES ASSUME NEW d \in Consumers, Handle(d) PROVE FALSE
      OBVIOUS
    <3>1. UNCHANGED tables
      BY DEF Handle
    <3> QED BY <2>2, <2>3, <3>1, <2>1 DEF tables, TypeOK
  <2>6. \A d \in Consumers, e \in Events : Open(d, e)' => Open(d, e)
    BY <2>5, OpenBefore
  <2>7. \A d \in Consumers : ~Open(d, x)'
    BY <2>1, <2>4, <2>6 DEF AuditInv, Open
  <2>8. AuditedOnce' /\ AuditMatchesProcessed'
    BY <2>1, <2>3 DEF AuditInv, AuditedOnce, AuditMatchesProcessed, TypeOK
  <2>9. \A d \in Consumers, e \in Events : Open(d, e)' => audit'[e] = 0
    <3> SUFFICES ASSUME NEW d \in Consumers, NEW e \in Events, Open(d, e)' PROVE audit'[e] = 0
      OBVIOUS
    <3>1. e # x /\ audit[e] = 0
      BY <2>6, <2>7 DEF AuditInv
    <3> QED BY <2>3, <3>1 DEF TypeOK
  <2>10. \A b, d \in Consumers, e \in Events : Open(b, e)' /\ Open(d, e)' => b = d
    BY <2>6 DEF AuditInv
  <2> QED BY <2>8, <2>9, <2>10 DEF AuditInv
<1>2. ASSUME NEW c \in Consumers, Handle(c) PROVE AuditInv'
  <2>1. UNCHANGED tables /\ audit[Event(c)] = 0 /\ Event(c)' = Event(c) /\ ~RowBusy(c)
    BY <1>2 DEF Handle, Event
  <2>2. \A d \in Consumers \ {c} : ~Handle(d)
    BY <1>2 DEF Handle, TypeOK
  <2>3. \A d \in Consumers \ {c}, e \in Events : Open(d, e)' => Open(d, e)
    BY <2>2, OpenBefore
  <2>4. \A d \in Consumers, e \in Events : Open(d, e)' => audit'[e] = 0
    BY <2>1, <2>3 DEF AuditInv, Open, tables
  <2>5. \A b, d \in Consumers, e \in Events : Open(b, e)' /\ Open(d, e)' => b = d
    BY <2>1, <2>3 DEF AuditInv, Open, RowBusy
  <2> QED BY <2>1, <2>4, <2>5 DEF AuditInv, AuditedOnce, AuditMatchesProcessed, tables
<1>3. ASSUME UNCHANGED tables, \A c \in Consumers : ~Handle(c) PROVE AuditInv'
  BY <1>3, OpenBefore DEF AuditInv, AuditedOnce, AuditMatchesProcessed, tables
<1> QED
  BY <1>1, <1>2, <1>3
  DEF Next, Work, Append1, Assign, Leave, Read, Poll, PollNothing, PollError, Step, Reject,
      WasProcessed, HandleConflict, CommitRecords, Trouble, TxError,
      CommitRecordsError, CommitRefused, vars

\* The inductive invariant of this section.
LEMMA AuditInvariant == Spec => []AuditInv
<1>1. Init => AuditInv
  BY DEF Init, AuditInv, AuditedOnce, AuditMatchesProcessed, Open
<1> QED
  BY <1>1, AuditStep, TypeCorrect, PTL DEF Spec

\* However often an event is delivered, and however many consumers of the group
\* work on it at the same time, it has one audit row at most; and it has one
\* exactly when the idempotency table knows it.
THEOREM AuditIsIdempotent == Spec => [](AuditedOnce /\ AuditMatchesProcessed)
<1>1. AuditInv => AuditedOnce /\ AuditMatchesProcessed
  BY DEF AuditInv
<1> QED
  BY <1>1, AuditInvariant, PTL

\* Only the commit of a transaction writes the tables.
LEMMA TablesChange ==
    ASSUME [Next]_vars
    PROVE  \/ UNCHANGED tables
           \/ \E c \in Consumers : stage[c] = "inserted" /\ Commit(Event(c))
  BY DEF Next, Work, Append1, Assign, Leave, Read, Poll, PollNothing, PollError, Step, Reject,
         WasProcessed, Handle, HandleConflict, CommitTx, CommitRecords, Trouble, TxError,
         CommitLost, CommitRecordsError, CommitRefused, vars

\* What is in the audit is never written again: the transaction that could do it
\* has waited for the row, and then found it.
THEOREM AuditRowsAreFinal == Spec => AuditIsFinal
<1> DEFINE Final == \A e \in Events : audit[e] > 0 => audit'[e] = audit[e]
<1>1. ASSUME TypeOK, AuditInv, [Next]_vars PROVE Final
  <2>1. CASE UNCHANGED tables
    BY <2>1 DEF tables
  <2>2. ASSUME NEW c \in Consumers, stage[c] = "inserted", Commit(Event(c)) PROVE Final
    <3>1. Event(c) \in Events /\ audit[Event(c)] = 0
      BY <2>2, <1>1, EventInLog DEF AuditInv, Open
    <3> QED BY <2>2, <3>1, <1>1 DEF Commit, TypeOK
  <2> QED BY <1>1, <2>1, <2>2, TablesChange
<1> QED
  BY <1>1, TypeCorrect, AuditInvariant, PTL DEF Spec, AuditIsFinal

-----------------------------------------------------------------------------
(* What is audited has been published *)

\* The inductive form: a record whose transaction has begun has passed the checks.
PassedInv ==
    /\ AuditedIsPublished
    /\ \A c \in Consumers : stage[c] \in {"handle", "inserted"} => Event(c) \notin Bad

\* A transaction is begun by WasProcessed only, and goes on with the same record.
LEMMA BegunBefore ==
    ASSUME TypeOK, [Next]_vars, NEW c \in Consumers, stage'[c] \in {"handle", "inserted"}
    PROVE  /\ stage[c] # "idle" /\ batch'[c] = batch[c]
           /\ stage[c] \in {"handle", "inserted"} \/ Event(c) \notin Bad
<1> DEFINE Begun == /\ stage[c] # "idle" /\ batch'[c] = batch[c]
                    /\ stage[c] \in {"handle", "inserted"} \/ Event(c) \notin Bad
<1>1. ASSUME NEW d \in Consumers, GiveUp(d) \/ NextRecord(d) PROVE Begun
  BY <1>1 DEF GiveUp, NextRecord, TypeOK
<1>2. ASSUME NEW d \in Consumers, Leave(d) \/ (\E n \in 1..Len(log) : Poll(d, n)) PROVE Begun
  BY <1>2 DEF Leave, Poll, TypeOK
<1>3. ASSUME NEW d \in Consumers, WasProcessed(d) \/ Handle(d) \/ CommitTx(d) PROVE Begun
  BY <1>3 DEF WasProcessed, Handle, CommitTx, TypeOK
<1>4. CASE UNCHANGED <<stage, batch>>
  BY <1>4
<1> QED
  BY <1>1, <1>2, <1>3, <1>4
  DEF Next, Work, Append1, Assign, Read, PollNothing, PollError, Step, Reject, HandleConflict,
      CommitRecords, Trouble, TxError, CommitLost, CommitRecordsError, CommitRefused, vars

\* A commit audits the event of a record that has passed.
LEMMA PassedStep == TypeOK /\ PassedInv /\ [Next]_vars => PassedInv'
<1> SUFFICES ASSUME TypeOK, PassedInv, [Next]_vars PROVE PassedInv'
  OBVIOUS
<1>1. ASSUME NEW c \in Consumers, stage'[c] \in {"handle", "inserted"} PROVE Event(c)' \notin Bad
  <2>1. /\ stage[c] # "idle" /\ batch'[c] = batch[c]
        /\ Event(c) \notin Bad
    BY <1>1, BegunBefore DEF PassedInv
  <2>2. Event(c)' = Event(c)
    BY <2>1, EventInLog, LogGrows DEF Event
  <2> QED BY <2>1, <2>2
<1>2. ASSUME NEW e \in Events, audit'[e] > 0
      PROVE  e \notin Bad /\ \E i \in 1..Len(log) : log[i] = e
  <2>1. CASE audit[e] > 0
    BY <2>1 DEF PassedInv, AuditedIsPublished, TypeOK
  <2>2. CASE ~(audit[e] > 0)
    <3>1. PICK c \in Consumers : stage[c] = "inserted" /\ Commit(Event(c))
      BY <1>2, <2>2, TablesChange DEF tables
    <3>2. e = Event(c)
      BY <1>2, <2>2, <3>1, EventInLog DEF Commit, TypeOK
    <3>3. batch[c].cur \in 1..Len(log)
      BY <3>1, EventInLog
    <3> QED BY <3>1, <3>2, <3>3 DEF PassedInv, Event
  <2> QED BY <2>1, <2>2
<1>3. AuditedIsPublished'
  <2> SUFFICES ASSUME NEW e \in Events, audit'[e] > 0
               PROVE  e \notin Bad /\ \E i \in DOMAIN log' : log'[i] = e
    BY DEF AuditedIsPublished
  <2>1. PICK i \in 1..Len(log) : log[i] = e
    BY <1>2
  <2>2. log' \in Seq(Events) /\ Len(log) \in Nat
    BY TypeStep DEF TypeOK
  <2>3. i \in DOMAIN log' /\ log'[i] = e
    BY <2>1, <2>2, LogGrows
  <2> QED BY <1>2, <2>3
<1> QED
  BY <1>1, <1>3 DEF PassedInv

\* Every audit row stands for an event that was published and that the handler
\* accepts.
THEOREM AuditsArePublished == Spec => []AuditedIsPublished
<1>1. Init => PassedInv
  BY DEF Init, PassedInv, AuditedIsPublished
<1>2. PassedInv => AuditedIsPublished
  BY DEF PassedInv
<1> QED
  BY <1>1, <1>2, PassedStep, TypeCorrect, PTL DEF Spec

-----------------------------------------------------------------------------
(* No committed offset is unaccounted for *)

\* The first n records are processed or given up.
Accounted(n) == \A i \in 1..n : log[i] \in processed \/ i \in skipped

\* What is known of the records before a consumer's batch and before its next
\* poll: the former are accounted for, and the latter will be, at the latest
\* when the batch ends.
InOrder(c) ==
    /\ stage[c] # "idle" => Accounted(batch[c].cur - 1)
    /\ stage[c] = "ack" => Event(c) \in processed
    /\ owner = c => \/ Accounted(position[c])
                    \/ stage[c] # "idle" /\ position[c] = batch[c].last

\* The inductive form.
AccountInv == CommittedIsAccounted /\ \A c \in Consumers : InOrder(c)

\* Processed events and given up records stay so.
LEMMA AccountsGrow ==
    ASSUME TypeOK, [Next]_vars
    PROVE  processed \subseteq processed' /\ skipped \subseteq skipped'
<1>1. ASSUME NEW c \in Consumers, GiveUp(c) PROVE skipped \subseteq skipped'
  BY <1>1 DEF GiveUp
<1>2. ASSUME NEW e \in Events, Commit(e) PROVE processed \subseteq processed'
  BY <1>2 DEF Commit
<1>3. ASSUME NEW c \in Consumers, CommitTx(c) \/ CommitLost(c) PROVE processed \subseteq processed'
  BY <1>3 DEF CommitTx, CommitLost, Commit
<1>4. ASSUME NEW c \in Consumers, NEW n \in 1..Len(log), PollError(c, n)
      PROVE skipped \subseteq skipped'
  BY <1>4 DEF PollError
<1> QED
  BY <1>1, <1>3, <1>4
  DEF Next, Work, Append1, Assign, Leave, Read, Poll, PollNothing, PollError, Step, Reject,
      WasProcessed, Handle, HandleConflict, CommitTx, CommitRecords, Trouble, TxError,
      CommitLost, CommitRecordsError, CommitRefused, vars, tables

\* What is accounted for stays accounted for.
LEMMA AccountedStays ==
    ASSUME TypeOK, [Next]_vars, NEW n \in 0..Len(log), Accounted(n)
    PROVE  Accounted(n)'
<1>1. \A i \in 1..n : log'[i] = log[i]
  BY LogGrows DEF TypeOK
<1> QED BY <1>1, AccountsGrow DEF Accounted

\* A consumer that does not take part in a step keeps its order.
LEMMA InOrderFrame ==
    ASSUME TypeOK, [Next]_vars, NEW d \in Consumers, InOrder(d),
           stage'[d] = stage[d], batch'[d] = batch[d], position'[d] = position[d],
           owner' = d => owner = d
    PROVE  InOrder(d)'
<1>1. /\ batch[d].cur \in Nat /\ position[d] \in 0..Len(log) /\ Len(log) \in Nat
      /\ stage[d] # "idle" => 0 < batch[d].cur /\ batch[d].cur <= Len(log)
  BY DEF TypeOK
<1>2. stage'[d] # "idle" => Accounted(batch[d].cur - 1)'
  <2> SUFFICES ASSUME stage[d] # "idle" PROVE Accounted(batch[d].cur - 1)'
    OBVIOUS
  <2>1. PICK n \in 0..Len(log) : n = batch[d].cur - 1
    BY <1>1
  <2>2. Accounted(n)'
    BY <2>1, AccountedStays DEF InOrder
  <2> QED BY <2>1, <2>2 DEF Accounted
<1>3. stage'[d] = "ack" => Event(d)' \in processed'
  BY <1>1, LogGrows, AccountsGrow DEF InOrder, Event
<1>4. owner' = d => \/ Accounted(position[d])'
                    \/ stage'[d] # "idle" /\ position'[d] = batch'[d].last
  <2> SUFFICES ASSUME owner = d, Accounted(position[d]) PROVE Accounted(position[d])'
    BY DEF InOrder
  <2>1. PICK n \in 0..Len(log) : n = position[d]
    BY <1>1
  <2>2. Accounted(n)'
    BY <2>1, AccountedStays
  <2> QED BY <2>1, <2>2 DEF Accounted
<1> QED BY <1>2, <1>3, <1>4 DEF InOrder

\* Giving a batch up accounts for all of it.
LEMMA GiveUpOrder ==
    ASSUME TypeOK, [Next]_vars, NEW c \in Consumers, InOrder(c), stage[c] # "idle", GiveUp(c),
           UNCHANGED <<log, owner, position>>
    PROVE  InOrder(c)'
<1>1. stage'[c] = "idle" /\ batch[c].cur..batch[c].last \subseteq skipped'
  BY DEF GiveUp, TypeOK
<1>0. /\ batch[c].cur \in Nat /\ batch[c].last \in Nat /\ Len(log) \in Nat
      /\ 0 < batch[c].cur /\ batch[c].cur <= batch[c].last /\ batch[c].last <= Len(log)
  BY DEF TypeOK
<1>2. PICK n \in 0..Len(log), m \in 0..Len(log) : n = batch[c].cur - 1 /\ m = batch[c].last
  BY <1>0
<1>3. Accounted(m)'
  <2>1. Accounted(n)'
    BY <1>2, AccountedStays DEF InOrder
  <2>2. \A i \in 1..m : i \in 1..n \/ i \in batch[c].cur..batch[c].last
    BY <1>0, <1>2
  <2> QED BY <1>1, <2>1, <2>2 DEF Accounted
<1>4. PICK k \in 0..Len(log) : k = position[c]
  BY DEF TypeOK
<1>5. owner = c => Accounted(k)'
  BY <1>2, <1>3, <1>4, AccountedStays DEF InOrder
<1> QED BY <1>1, <1>4, <1>5 DEF InOrder, Accounted

\* The record a consumer acknowledges is accounted for, with all before it.
LEMMA AckedAccounted ==
    ASSUME TypeOK, [Next]_vars, NEW c \in Consumers, InOrder(c), stage[c] = "ack"
    PROVE  \A i \in 1..batch[c].cur : log'[i] \in processed' \/ i \in skipped'
<1>0. batch[c].cur \in Nat /\ Len(log) \in Nat /\ 0 < batch[c].cur /\ batch[c].cur <= Len(log)
  BY DEF TypeOK
<1>1. PICK n \in 0..Len(log) : n = batch[c].cur - 1
  BY <1>0
<1>2. Accounted(n)'
  BY <1>1, AccountedStays DEF InOrder
<1>3. log'[batch[c].cur] \in processed'
  BY LogGrows, AccountsGrow, EventInLog DEF InOrder, Event
<1>4. \A i \in 1..batch[c].cur : i \in 1..n \/ i = batch[c].cur
  BY <1>0, <1>1
<1> QED BY <1>2, <1>3, <1>4 DEF Accounted

\* Going on to the next record leaves nothing behind.
LEMMA NextRecordOrder ==
    ASSUME TypeOK, [Next]_vars, NEW c \in Consumers, InOrder(c), stage[c] = "ack", NextRecord(c),
           UNCHANGED <<log, owner, position>>
    PROVE  InOrder(c)'
<1>1. batch[c].cur \in Nat /\ batch[c].last \in Nat /\ batch[c].cur <= batch[c].last
      /\ batch[c].last <= Len(log) /\ Len(log) \in Nat
  BY DEF TypeOK
<1>2. PICK k \in 0..Len(log) : k = position[c]
  BY DEF TypeOK
<1>3. owner = c => Accounted(k)' \/ k = batch[c].last
  BY <1>2, AccountedStays DEF InOrder
<1>4. CASE batch[c].cur < batch[c].last
  <2>1. stage'[c] = "check" /\ batch'[c].cur = batch[c].cur + 1 /\ batch'[c].last = batch[c].last
    BY <1>1, <1>4 DEF NextRecord, TypeOK
  <2>2. batch'[c].cur - 1 = batch[c].cur
    BY <1>1, <2>1
  <2> QED BY <1>2, <1>3, <2>1, <2>2, AckedAccounted DEF InOrder, Accounted
<1>5. CASE ~(batch[c].cur < batch[c].last)
  <2>1. stage'[c] = "idle" /\ batch[c].cur = batch[c].last
    BY <1>1, <1>5 DEF NextRecord, TypeOK
  <2> QED BY <1>2, <1>3, <2>1, AckedAccounted DEF InOrder, Accounted
<1> QED BY <1>4, <1>5

\* Every step keeps every consumer in order and the committed position behind it.
LEMMA AccountStep == TypeOK /\ AccountInv /\ [Next]_vars => AccountInv'
<1> SUFFICES ASSUME TypeOK, AccountInv, [Next]_vars PROVE AccountInv'
  OBVIOUS
<1> USE DEF AccountInv
<1>1. ASSUME committed' = committed PROVE CommittedIsAccounted'
  <2>1. committed \in 0..Len(log) /\ Accounted(committed)
    BY DEF TypeOK, CommittedIsAccounted, Accounted
  <2>2. PICK n \in 0..Len(log) : n = committed
    BY <2>1
  <2>3. Accounted(n)'
    BY <2>1, <2>2, AccountedStays
  <2> QED BY <1>1, <2>2, <2>3 DEF CommittedIsAccounted, Accounted
<1>2. ASSUME NEW c \in Consumers, committed' = committed, InOrder(c)',
             \A d \in Consumers \ {c} :
                 /\ stage'[d] = stage[d] /\ batch'[d] = batch[d] /\ position'[d] = position[d]
                 /\ owner' = d => owner = d
      PROVE  AccountInv'
  BY <1>1, <1>2, InOrderFrame
<1>3. ASSUME NEW c \in Consumers, stage[c] # "idle", GiveUp(c),
             UNCHANGED <<log, owner, position, committed>>
      PROVE  AccountInv'
  <2>1. InOrder(c)'
    BY <1>3, GiveUpOrder
  <2>2. \A d \in Consumers \ {c} : stage'[d] = stage[d] /\ batch'[d] = batch[d]
    BY <1>3 DEF GiveUp, TypeOK
  <2> QED BY <1>2, <1>3, <2>1, <2>2
<1>4. ASSUME NEW e \in Events, Append1(e) PROVE AccountInv'
  BY <1>1, <1>4, InOrderFrame DEF Append1
<1>5. ASSUME NEW c \in Consumers, Assign(c) PROVE AccountInv'
  <2>1. position'[c] = committed /\ committed' = committed
        /\ \A d \in Consumers \ {c} : position'[d] = position[d] /\ owner' # d
    BY <1>5 DEF Assign, TypeOK
  <2>2. /\ stage'[c] # "idle" => Accounted(batch[c].cur - 1)'
        /\ stage'[c] = "ack" => Event(c)' \in processed'
    BY <1>5 DEF Assign, InOrder, Accounted, Event, tables
  <2>3. Accounted(position[c])'
    BY <1>1, <2>1 DEF CommittedIsAccounted, Accounted
  <2> QED BY <1>2, <1>5, <2>1, <2>2, <2>3 DEF InOrder, Assign
<1>6. ASSUME NEW c \in Consumers, Leave(c) PROVE AccountInv'
  <2>1. stage'[c] = "idle" /\ owner' # c
        /\ \A d \in Consumers \ {c} : stage'[d] = stage[d] /\ batch'[d] = batch[d]
    BY <1>6, DataAssumption DEF Leave, TypeOK
  <2>2. \A d \in Consumers : owner' = d => owner = d
    BY <1>6, DataAssumption DEF Leave
  <2>3. InOrder(c)'
    BY <2>1 DEF InOrder
  <2> QED BY <1>2, <1>6, <2>1, <2>2, <2>3 DEF Leave
<1>7. ASSUME NEW c \in Consumers, NEW n \in 1..Len(log), Poll(c, n) PROVE AccountInv'
  <2>1. /\ stage'[c] = "check" /\ batch'[c] = [cur |-> position[c] + 1, last |-> n]
        /\ position'[c] = n
        /\ \A d \in Consumers \ {c} :
               stage'[d] = stage[d] /\ batch'[d] = batch[d] /\ position'[d] = position[d]
    BY <1>7 DEF Poll, TypeOK
  <2>2. Accounted(position[c])
    BY <1>7 DEF Poll, CanPoll, InOrder
  <2>3. batch'[c].cur - 1 = position[c]
    BY <2>1 DEF TypeOK
  <2>4. InOrder(c)'
    BY <1>7, <2>1, <2>2, <2>3 DEF InOrder, Accounted, Poll, tables
  <2> QED BY <1>2, <1>7, <2>1, <2>4 DEF Poll
<1>8. ASSUME NEW c \in Consumers, NEW n \in 1..Len(log), PollError(c, n) PROVE AccountInv'
  <2>1. /\ stage'[c] = "idle" /\ position'[c] = n
        /\ skipped' = skipped \cup (position[c] + 1)..n
        /\ \A d \in Consumers \ {c} : position'[d] = position[d]
    BY <1>8 DEF PollError, CanPoll, TypeOK
  <2>2. Accounted(position[c])
    BY <1>8 DEF PollError, CanPoll, InOrder
  <2>3. \A i \in 1..n : i \in 1..position[c] \/ i \in (position[c] + 1)..n
    BY DEF TypeOK
  <2>4. \A i \in 1..n : log'[i] \in processed' \/ i \in skipped'
    BY <1>8, <2>1, <2>2, <2>3 DEF Accounted, PollError, tables
  <2>5. InOrder(c)'
    BY <2>1, <2>4 DEF InOrder, Accounted
  <2> QED BY <1>2, <1>8, <2>1, <2>5 DEF PollError
<1>9. ASSUME NEW c \in Consumers,
             Reject(c) \/ HandleConflict(c) \/ TxError(c) \/ CommitLost(c) \/ CommitRefused(c)
      PROVE AccountInv'
  BY <1>3, <1>9 DEF Reject, HandleConflict, TxError, CommitLost, CommitRefused
<1>10. ASSUME NEW c \in Consumers, WasProcessed(c) \/ Handle(c) \/ CommitTx(c) PROVE AccountInv'
  <2>1. /\ stage[c] # "idle"
        /\ UNCHANGED <<log, committed, owner, position, batch, skipped>>
        /\ \A d \in Consumers \ {c} : stage'[d] = stage[d]
    BY <1>10 DEF WasProcessed, Handle, CommitTx, TypeOK
  <2>2. stage'[c] = "ack" => Event(c) \in processed'
    BY <1>10, EventInLog DEF WasProcessed, Handle, CommitTx, Commit, TypeOK, tables
  <2>3. stage'[c] # "idle"
    BY <1>10 DEF WasProcessed, Handle, CommitTx, TypeOK
  <2>4. InOrder(c)'
    BY <2>1, <2>2, <2>3, AccountsGrow DEF InOrder, Accounted, Event
  <2> QED BY <1>2, <2>1, <2>4
<1>11. ASSUME NEW c \in Consumers, CommitRecords(c) PROVE AccountInv'
  <2>1. InOrder(c)'
    BY <1>11, NextRecordOrder DEF CommitRecords
  <2>2. \A d \in Consumers \ {c} : stage'[d] = stage[d] /\ batch'[d] = batch[d]
    BY <1>11 DEF CommitRecords, NextRecord, TypeOK
  <2>3. \A d \in Consumers : InOrder(d)'
    BY <1>11, <2>1, <2>2, InOrderFrame DEF CommitRecords
  <2>4. CommittedIsAccounted'
    BY <1>11, AckedAccounted DEF CommitRecords, CommittedIsAccounted
  <2> QED BY <2>3, <2>4
<1>12. ASSUME NEW c \in Consumers, CommitRecordsError(c) PROVE AccountInv'
  <2>1. InOrder(c)'
    BY <1>12, GiveUpOrder DEF CommitRecordsError
  <2>2. \A d \in Consumers \ {c} : stage'[d] = stage[d] /\ batch'[d] = batch[d]
    BY <1>12 DEF CommitRecordsError, GiveUp, TypeOK
  <2>3. \A d \in Consumers : InOrder(d)'
    BY <1>12, <2>1, <2>2, InOrderFrame DEF CommitRecordsError
  <2>4. CommittedIsAccounted'
    BY <1>1, <1>12, AckedAccounted DEF CommitRecordsError, CommittedIsAccounted
  <2> QED BY <2>3, <2>4
<1>13. CASE UNCHANGED vars
  BY <1>1, <1>13, InOrderFrame DEF vars
<1> QED
  BY <1>4, <1>5, <1>6, <1>7, <1>8, <1>9, <1>10, <1>11, <1>12, <1>13
  DEF Next, Work, Read, PollNothing, Step, Trouble

\* Whatever consumers crash, lose the partition or commit late: an offset is
\* committed only if its event has been processed, or its record given up after
\* an error.
THEOREM CommitsAreAccounted == Spec => []CommittedIsAccounted
<1>1. Init => AccountInv
  <2> SUFFICES ASSUME Init PROVE AccountInv
    OBVIOUS
  <2>1. CommittedIsAccounted
    BY DEF Init, CommittedIsAccounted
  <2>2. \A c \in Consumers : InOrder(c)
    BY DataAssumption DEF Init, InOrder
  <2> QED BY <2>1, <2>2 DEF AccountInv
<1>2. AccountInv => CommittedIsAccounted
  BY DEF AccountInv
<1> QED
  BY <1>1, <1>2, AccountStep, TypeCorrect, PTL DEF Spec
=============================================================================

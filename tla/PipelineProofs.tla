--------------------------- MODULE PipelineProofs ---------------------------
(***************************************************************************)
(* Theorems about Outbox, for every set of events and workers and every    *)
(* value of the configuration, and then about Pipeline, from those and     *)
(* from the theorems about its consumers.                                  *)
(***************************************************************************)
EXTENDS Pipeline, FiniteSetTheorems, TLAPS

-----------------------------------------------------------------------------
(* Type correctness *)

\* The two forms a claim takes share the row update.
LEMMA ClaimType ==
    ASSUME TypeOK, NEW B \in SUBSET Events, Claim(B)
    PROVE  /\ status' \in [Events -> Statuses]
           /\ attempts' \in [Events -> Nat]
           /\ lockAge' \in [Events -> (NoLock)..MaxAge]
           /\ \A e \in Events : lockAge'[e] = NoLock <=> status'[e] # "PROCESSING"
  BY ConfigAssumption, BoundAssumption
  DEF TypeOK, Claim, Statuses, NoLock, MaxAge

\* What a worker keeps of its batch after one event is of the right type.
LEMMA ReleaseType ==
    ASSUME TypeOK, NEW w \in Workers, NEW e \in Events, Release(w, e)
    PROVE  /\ work' \in [Workers -> [Events -> Stages]]
           /\ left' \in [Workers -> 0..ProcessTimeout]
  BY ConfigAssumption DEF TypeOK, Release, Stages

\* Every step of the table, the workers, the broker or the clock keeps the
\* types, and locked_at stays set exactly while a row is PROCESSING.
LEMMA TypeStep == TypeOK /\ [Next]_vars => TypeOK'
<1> SUFFICES ASSUME TypeOK, [Next]_vars PROVE TypeOK'
  OBVIOUS
<1> USE ConfigAssumption, BoundAssumption
<1>1. ASSUME NEW e \in Events, Create(e) PROVE TypeOK'
  BY <1>1 DEF Create, TypeOK, Statuses, NoLock
<1>2. ASSUME NEW e \in Events, Land(e) PROVE TypeOK'
  BY <1>2 DEF Land, TypeOK, row
<1>3. ASSUME NEW w \in Workers, NEW B \in SUBSET Events, FetchBatch(w, B) PROVE TypeOK'
  <2>1. Claim(B)
    BY <1>3 DEF FetchBatch, ClaimSome
  <2>2. work' \in [Workers -> [Events -> Stages]] /\ left' \in [Workers -> 0..ProcessTimeout]
    BY <1>3 DEF FetchBatch, TypeOK, Stages
  <2> QED BY <1>3, <2>1, <2>2, ClaimType DEF FetchBatch, TypeOK, broker
<1>4. ASSUME NEW w \in Workers, NEW B \in SUBSET Events, FetchLost(w, B) PROVE TypeOK'
  <2>1. Claim(B)
    BY <1>4 DEF FetchLost, ClaimSome
  <2> QED BY <1>4, <2>1, ClaimType DEF FetchLost, Fault, TypeOK, broker
<1>5. ASSUME NEW w \in Workers, NEW e \in Events, PublishOk(w, e) PROVE TypeOK'
  BY <1>5 DEF PublishOk, TypeOK, Stages, row
<1>6. ASSUME NEW w \in Workers, NEW e \in Events, PublishError(w, e) PROVE TypeOK'
  BY <1>6 DEF PublishError, Fault, TypeOK, Stages, row
<1>7. ASSUME NEW w \in Workers, NEW e \in Events, PublishExpired(w, e) PROVE TypeOK'
  BY <1>7 DEF PublishExpired, TypeOK, Stages, row, broker
<1>8. ASSUME NEW w \in Workers, NEW e \in Events, MarkProcessed(w, e) PROVE TypeOK'
  <2>1. Release(w, e) BY <1>8 DEF MarkProcessed
  <2>2. /\ status' \in [Events -> Statuses]
        /\ lockAge' \in [Events -> (NoLock)..MaxAge]
        /\ \A x \in Events : lockAge'[x] = NoLock <=> status'[x] # "PROCESSING"
    <3>1. CASE status[e] = "PROCESSING"
      BY <1>8, <3>1 DEF MarkProcessed, TypeOK, Statuses, NoLock, MaxAge
    <3>2. CASE status[e] # "PROCESSING"
      BY <1>8, <3>2 DEF MarkProcessed, TypeOK
    <3> QED BY <3>1, <3>2
  <2> QED BY <1>8, <2>1, <2>2, ReleaseType DEF MarkProcessed, TypeOK, broker
<1>9. ASSUME NEW w \in Workers, NEW e \in Events, MarkFailed(w, e) PROVE TypeOK'
  <2>1. Release(w, e) BY <1>9 DEF MarkFailed
  <2>2. /\ status' \in [Events -> Statuses]
        /\ lockAge' \in [Events -> (NoLock)..MaxAge]
        /\ \A x \in Events : lockAge'[x] = NoLock <=> status'[x] # "PROCESSING"
    <3>1. CASE status[e] = "PROCESSING"
      <4> DEFINE s == IF attempts[e] >= MaxAttempts THEN "FAILED" ELSE "NEW"
      <4>1. status' = [status EXCEPT ![e] = s] /\ lockAge' = [lockAge EXCEPT ![e] = NoLock]
        BY <1>9, <3>1 DEF MarkFailed
      <4>2. s \in {"FAILED", "NEW"}
        OBVIOUS
      <4> HIDE DEF s
      <4> QED BY <4>1, <4>2 DEF TypeOK, Statuses, NoLock, MaxAge
    <3>2. CASE status[e] # "PROCESSING"
      BY <1>9, <3>2 DEF MarkFailed, TypeOK
    <3> QED BY <3>1, <3>2
  <2> QED BY <1>9, <2>1, <2>2, ReleaseType DEF MarkFailed, TypeOK, broker
<1>10. ASSUME NEW w \in Workers, NEW e \in Events, MarkError(w, e) PROVE TypeOK'
  <2>1. Release(w, e) BY <1>10 DEF MarkError
  <2> QED BY <1>10, <2>1, ReleaseType DEF MarkError, Fault, TypeOK, row, broker
<1>11. ASSUME NEW w \in Workers, NEW e \in Events, MarkExpired(w, e) PROVE TypeOK'
  <2>1. Release(w, e) BY <1>11 DEF MarkExpired
  <2> QED BY <1>11, <2>1, ReleaseType DEF MarkExpired, TypeOK, row, broker
<1>12. ASSUME NEW w \in Workers, Shutdown(w) PROVE TypeOK'
  BY <1>12 DEF Shutdown, Fault, TypeOK, Lives, row, broker
<1>13. ASSUME NEW w \in Workers, Stop(w) PROVE TypeOK'
  BY <1>13 DEF Stop, TypeOK, Lives, row, broker
<1>14. ASSUME NEW w \in Workers, Crash(w) PROVE TypeOK'
  BY <1>14 DEF Crash, Fault, TypeOK, Lives, Stages, row, broker
<1>15. ASSUME NEW w \in Workers, Start(w) PROVE TypeOK'
  BY <1>15 DEF Start, TypeOK, Lives, row, broker
<1>16. ASSUME Advance, faults' \in 0..MaxFaults PROVE TypeOK'
  <2>1. lockAge' \in [Events -> (NoLock)..MaxAge]
    BY <1>16 DEF Advance, TypeOK, NoLock, MaxAge
  <2>2. \A e \in Events : lockAge'[e] = NoLock <=> status'[e] # "PROCESSING"
    BY <1>16 DEF Advance, TypeOK, NoLock, MaxAge
  <2> QED BY <1>16, <2>1, <2>2 DEF Advance, TypeOK, broker
<1>17. CASE Tick
  BY <1>16, <1>17 DEF Tick, TypeOK
<1>18. CASE Delay
  BY <1>16, <1>18 DEF Delay, Fault, TypeOK
<1>19. CASE UNCHANGED vars
  BY <1>19 DEF vars, TypeOK
<1> QED
  BY <1>1, <1>2, <1>3, <1>4, <1>5, <1>6, <1>7, <1>8, <1>9, <1>10, <1>11, <1>12,
     <1>13, <1>14, <1>15, <1>17, <1>18, <1>19
  DEF Next, Fetch, Handle, Trouble

\* The types hold throughout every behaviour.
THEOREM TypeCorrect == Spec => []TypeOK
<1>1. Init => TypeOK
  BY ConfigAssumption, BoundAssumption
  DEF Init, TypeOK, Statuses, Stages, Lives, NoLock, MaxAge
<1> QED
  BY <1>1, TypeStep, PTL DEF Spec

-----------------------------------------------------------------------------
(* Final states *)

\* FetchBatch claims open rows only.
LEMMA BatchIsOpen ==
    ASSUME NEW w \in Workers, NEW B \in SUBSET Events, ClaimSome(w, B)
    PROVE  \A e \in B : status[e] \in {"NEW", "PROCESSING"}
  BY DEF ClaimSome, IsBatch, Eligible

\* A step that leaves the status column alone settles nothing.
LEMMA SettledStep ==
    ASSUME TypeOK, [Next]_vars, NEW e \in Events, status[e] \in Settled
    PROVE  status'[e] = status[e] /\ attempts'[e] = attempts[e]
<1>1. ASSUME NEW x \in Events, Create(x) PROVE status'[e] = status[e] /\ attempts'[e] = attempts[e]
  BY <1>1 DEF Create, TypeOK, Settled
<1>2. ASSUME NEW x \in Events, Land(x) PROVE status'[e] = status[e] /\ attempts'[e] = attempts[e]
  BY <1>2 DEF Land, row
<1>3. ASSUME NEW w \in Workers, NEW B \in SUBSET Events, ClaimSome(w, B)
      PROVE status'[e] = status[e] /\ attempts'[e] = attempts[e]
  BY <1>3, BatchIsOpen DEF ClaimSome, Claim, Settled
<1>4. ASSUME NEW w \in Workers, NEW x \in Events, MarkProcessed(w, x)
      PROVE status'[e] = status[e] /\ attempts'[e] = attempts[e]
  BY <1>4 DEF MarkProcessed, TypeOK, Settled
<1>5. ASSUME NEW w \in Workers, NEW x \in Events, MarkFailed(w, x)
      PROVE status'[e] = status[e] /\ attempts'[e] = attempts[e]
  BY <1>5 DEF MarkFailed, TypeOK, Settled
<1> QED
  BY <1>1, <1>2, <1>3, <1>4, <1>5
  DEF Next, Fetch, Handle, Trouble, FetchBatch, FetchLost, PublishOk, PublishError,
      PublishExpired, MarkError, MarkExpired, Shutdown, Stop, Crash, Start, Tick, Delay,
      Advance, vars, row

\* PROCESSED and FAILED are final whatever late workers do: both marks and
\* FetchBatch condition their update on the status column.
THEOREM SettledForGood == Spec => SettledIsFinal
<1>1. TypeOK /\ [Next]_vars =>
        [\A e \in Events : status[e] \in Settled => status'[e] = status[e]]_vars
  BY SettledStep
<1> QED
  BY <1>1, TypeCorrect, PTL DEF Spec, SettledIsFinal

-----------------------------------------------------------------------------
(* PROCESSED rows are on the topic, FAILED rows are exhausted *)

\* A worker about to call MarkProcessed has its record on the topic.
PublishedOnTopic ==
    \A w \in Workers, e \in Events : work[w][e] = "published" => copies[e] > 0

\* The inductive form: the worker's knowledge is what MarkProcessed turns into
\* the row's.
StatusInv ==
    /\ PublishedOnTopic
    /\ ProcessedWasPublished
    /\ FailedOnlyWhenExhausted

\* Records never leave the topic.
LEMMA CopiesGrow ==
    ASSUME TypeOK, [Next]_vars, NEW e \in Events
    PROVE  copies'[e] >= copies[e]
<1>1. ASSUME NEW x \in Events, Land(x) PROVE copies'[e] >= copies[e]
  BY <1>1 DEF Land, TypeOK
<1>2. ASSUME NEW w \in Workers, NEW x \in Events, PublishOk(w, x) PROVE copies'[e] >= copies[e]
  BY <1>2 DEF PublishOk, TypeOK
<1>3. copies[e] >= copies[e]
  BY DEF TypeOK
<1> QED
  BY <1>1, <1>2, <1>3
  DEF Next, Fetch, Handle, Trouble, Create, FetchBatch, FetchLost, PublishError, PublishExpired,
      MarkProcessed, MarkFailed, MarkError, MarkExpired, Shutdown, Stop, Crash, Start, Tick,
      Delay, Advance, vars, broker

\* Only an acknowledged ProduceSync lets a worker go on to MarkProcessed.
LEMMA PublishedStep == TypeOK /\ PublishedOnTopic /\ [Next]_vars => PublishedOnTopic'
<1> SUFFICES ASSUME TypeOK, PublishedOnTopic, [Next]_vars,
                    NEW v \in Workers, NEW d \in Events, work'[v][d] = "published"
             PROVE  copies'[d] > 0
  BY DEF PublishedOnTopic
<1>1. CASE work[v][d] = "published"
  BY <1>1, CopiesGrow, TypeStep DEF PublishedOnTopic, TypeOK
<1>2. CASE work[v][d] # "published"
  <2>1. ASSUME NEW w \in Workers, NEW B \in SUBSET Events, FetchBatch(w, B) PROVE FALSE
    BY <1>2, <2>1 DEF FetchBatch, TypeOK
  <2>2. ASSUME NEW w \in Workers, NEW e \in Events, PublishOk(w, e) PROVE copies'[d] > 0
    BY <1>2, <2>2 DEF PublishOk, TypeOK
  <2>3. ASSUME NEW w \in Workers, NEW e \in Events, PublishError(w, e) \/ PublishExpired(w, e)
        PROVE FALSE
    BY <1>2, <2>3 DEF PublishError, PublishExpired, TypeOK
  <2>4. ASSUME NEW w \in Workers, NEW e \in Events, Release(w, e) PROVE FALSE
    BY <1>2, <2>4 DEF Release, TypeOK
  <2>5. ASSUME NEW w \in Workers, Crash(w) PROVE FALSE
    BY <1>2, <2>5 DEF Crash, TypeOK
  <2>6. CASE UNCHANGED work
    BY <1>2, <2>6
  <2> QED
    BY <2>1, <2>2, <2>3, <2>4, <2>5, <2>6
    DEF Next, Fetch, Handle, Trouble, Create, Land, FetchLost, MarkProcessed, MarkFailed,
        MarkError, MarkExpired, Shutdown, Stop, Start, Tick, Delay, Advance, vars
<1> QED BY <1>1, <1>2

\* A row becomes PROCESSED by MarkProcessed and FAILED by MarkFailed only.
LEMMA SettlingStep ==
    ASSUME TypeOK, [Next]_vars, NEW e \in Events, status[e] \notin Settled, status'[e] \in Settled
    PROVE  \E w \in Workers : MarkProcessed(w, e) \/ MarkFailed(w, e)
<1>1. ASSUME NEW x \in Events, Create(x) PROVE FALSE
  BY <1>1 DEF Create, TypeOK, Settled
<1>2. ASSUME NEW w \in Workers, NEW B \in SUBSET Events, ClaimSome(w, B) PROVE FALSE
  BY <1>2 DEF ClaimSome, Claim, Settled
<1>3. ASSUME NEW w \in Workers, NEW x \in Events, MarkProcessed(w, x) \/ MarkFailed(w, x)
      PROVE x = e
  BY <1>3 DEF MarkProcessed, MarkFailed, TypeOK
<1> QED
  BY <1>1, <1>2, <1>3
  DEF Next, Fetch, Handle, Trouble, Land, FetchBatch, FetchLost, PublishOk, PublishError,
      PublishExpired, MarkError, MarkExpired, Shutdown, Stop, Crash, Start, Tick, Delay,
      Advance, vars, row

\* Both status facts follow from what the settling worker knew.
LEMMA StatusStep == TypeOK /\ StatusInv /\ [Next]_vars => StatusInv'
<1> SUFFICES ASSUME TypeOK, StatusInv, [Next]_vars PROVE StatusInv'
  OBVIOUS
<1>1. PublishedOnTopic'
  BY PublishedStep DEF StatusInv
<1>2. ASSUME NEW e \in Events, status'[e] = "PROCESSED" PROVE copies'[e] > 0
  <2>1. CASE status[e] \in Settled
    BY <1>2, <2>1, SettledStep, CopiesGrow, TypeStep DEF StatusInv, ProcessedWasPublished, TypeOK
  <2>2. CASE status[e] \notin Settled
    <3>1. PICK w \in Workers : MarkProcessed(w, e) \/ MarkFailed(w, e)
      BY <1>2, <2>2, SettlingStep DEF Settled
    <3>2. MarkProcessed(w, e)
      BY <1>2, <2>2, <3>1 DEF MarkFailed, TypeOK, Settled
    <3> QED
      BY <3>2, CopiesGrow, TypeStep DEF MarkProcessed, StatusInv, PublishedOnTopic, TypeOK
  <2> QED BY <2>1, <2>2
<1>3. ASSUME NEW e \in Events, status'[e] = "FAILED" PROVE attempts'[e] >= MaxAttempts
  <2>1. CASE status[e] \in Settled
    BY <1>3, <2>1, SettledStep DEF StatusInv, FailedOnlyWhenExhausted
  <2>2. CASE status[e] \notin Settled
    <3>1. PICK w \in Workers : MarkProcessed(w, e) \/ MarkFailed(w, e)
      BY <1>3, <2>2, SettlingStep DEF Settled
    <3>2. MarkFailed(w, e)
      BY <1>3, <2>2, <3>1 DEF MarkProcessed, TypeOK, Settled
    <3> QED
      BY <1>3, <2>2, <3>2 DEF MarkFailed, TypeOK, Settled
  <2> QED BY <2>1, <2>2
<1> QED
  BY <1>1, <1>2, <1>3 DEF StatusInv, ProcessedWasPublished, FailedOnlyWhenExhausted

\* The status invariant holds throughout every behaviour.
LEMMA StatusInvariant == Spec => []StatusInv
<1>1. Init => StatusInv
  BY DEF Init, StatusInv, PublishedOnTopic, ProcessedWasPublished, FailedOnlyWhenExhausted
<1> QED
  BY <1>1, StatusStep, TypeCorrect, PTL DEF Spec

\* A PROCESSED row has a record on the topic: no schedule of crashes, stolen
\* claims and lost answers lets MarkProcessed run ahead of Publish.
THEOREM NoEventLost == Spec => []ProcessedWasPublished
  BY StatusInvariant, PTL DEF StatusInv

\* An event is given up only after MaxAttempts claims.
THEOREM NoEarlyFailure == Spec => []FailedOnlyWhenExhausted
  BY StatusInvariant, PTL DEF StatusInv

-----------------------------------------------------------------------------
(* Leases.  Nothing in the code compares LockTimeout with ProcessTimeout;   *)
(* this is the comparison a deployment has to satisfy.                      *)

LeaseCovers == ProcessTimeout + ClockSkew <= LockTimeout

\* The inductive form: an active worker's claim is never older than the time
\* it has used up, so it has not expired on anybody's clock.
LeaseInv ==
    /\ NoSharedEvent
    /\ ActiveOwnsRow
    /\ \A w \in Workers, e \in Events :
           Active(w, e) => lockAge[e] + left[w] <= ProcessTimeout

\* A worker is active on an event after a step only if it was before or has
\* just fetched it.
LEMMA ActiveBefore ==
    ASSUME TypeOK, [Next]_vars, NEW v \in Workers, NEW d \in Events, Active(v, d)',
           \A B \in SUBSET Events : ~FetchBatch(v, B)
    PROVE  Active(v, d) /\ left'[v] <= left[v]
<1> USE DEF Active
<1>1. ASSUME NEW w \in Workers, NEW B \in SUBSET Events, FetchBatch(w, B)
      PROVE  Active(v, d) /\ left'[v] <= left[v]
  <2>1. w # v
    BY <1>1
  <2> QED BY <1>1, <2>1 DEF FetchBatch, TypeOK
<1>2. ASSUME NEW w \in Workers, NEW e \in Events,
             \/ PublishOk(w, e) \/ PublishError(w, e) \/ PublishExpired(w, e)
      PROVE  Active(v, d) /\ left'[v] <= left[v]
  BY <1>2 DEF PublishOk, PublishError, PublishExpired, Turn, TypeOK
<1>3. ASSUME NEW w \in Workers, NEW e \in Events, Release(w, e)
      PROVE  Active(v, d) /\ left'[v] <= left[v]
  BY <1>3 DEF Release, TypeOK
<1>4. ASSUME NEW w \in Workers, Shutdown(w) \/ Crash(w)
      PROVE  Active(v, d) /\ left'[v] <= left[v]
  BY <1>4 DEF Shutdown, Crash, TypeOK
<1>5. ASSUME Advance
      PROVE  Active(v, d) /\ left'[v] <= left[v]
  BY <1>5 DEF Advance, TypeOK
<1>6. CASE UNCHANGED <<work, left>>
  BY <1>6 DEF TypeOK
<1> QED
  BY <1>1, <1>2, <1>3, <1>4, <1>5, <1>6
  DEF Next, Fetch, Handle, Trouble, Create, Land, FetchLost, MarkProcessed, MarkFailed,
      MarkError, MarkExpired, Stop, Start, Tick, Delay, vars

\* A row that an active worker holds is not eligible on any process's clock.
LEMMA ActiveNotEligible ==
    ASSUME LeaseCovers, TypeOK, LeaseInv, NEW w \in Workers, NEW d \in Events, Active(w, d),
           NEW v \in Workers, NEW B \in SUBSET Events, ClaimSome(v, B)
    PROVE  d \notin B
<1> SUFFICES ASSUME d \in B PROVE FALSE
  OBVIOUS
<1>1. PICK lead \in (-ClockSkew)..ClockSkew : d \in Eligible(lead)
  BY DEF ClaimSome, IsBatch
<1>2. status[d] = "PROCESSING" /\ lockAge[d] + left[w] <= ProcessTimeout /\ left[w] > 0
  BY DEF LeaseInv, ActiveOwnsRow, Active
<1>3. lockAge[d] > LockTimeout - lead
  BY <1>1, <1>2 DEF Eligible
<1>4. /\ lockAge[d] \in Int /\ left[w] \in Int /\ lead \in Int /\ lead <= ClockSkew
      /\ ClockSkew \in Int /\ LockTimeout \in Int /\ ProcessTimeout \in Int
  BY <1>1, ConfigAssumption, BoundAssumption DEF TypeOK, NoLock, MaxAge
<1> QED
  BY <1>2, <1>3, <1>4 DEF LeaseCovers

\* While a worker stays active on an event, its row and its time left only age.
LEMMA ActiveRowStep ==
    ASSUME LeaseCovers, TypeOK, LeaseInv, [Next]_vars, NEW w \in Workers, NEW d \in Events,
           Active(w, d), Active(w, d)', \A B \in SUBSET Events : ~FetchBatch(w, B)
    PROVE  status'[d] = "PROCESSING" /\ lockAge'[d] + left'[w] <= ProcessTimeout
<1> DEFINE Goal == status'[d] = "PROCESSING" /\ lockAge'[d] + left'[w] <= ProcessTimeout
<1>1. /\ status[d] = "PROCESSING"
      /\ lockAge[d] + left[w] <= ProcessTimeout
      /\ lockAge[d] \in Int /\ left[w] \in Int /\ ProcessTimeout \in Int
  BY ConfigAssumption, BoundAssumption DEF LeaseInv, ActiveOwnsRow, TypeOK, NoLock, MaxAge
<1>2. left'[w] <= left[w] /\ left'[w] \in Int
  BY ActiveBefore, TypeStep DEF TypeOK
<1>3. ASSUME status'[d] = status[d], lockAge'[d] = lockAge[d] PROVE Goal
  BY <1>1, <1>2, <1>3
<1>4. ASSUME NEW e \in Events, Create(e) PROVE Goal
  BY <1>1, <1>3, <1>4 DEF Create, TypeOK
<1>5. ASSUME NEW u \in Workers, NEW B \in SUBSET Events, ClaimSome(u, B) PROVE Goal
  <2>1. d \notin B
    BY <1>5, ActiveNotEligible
  <2> QED BY <1>3, <1>5, <2>1 DEF ClaimSome, Claim
<1>6. ASSUME NEW u \in Workers, NEW e \in Events, MarkProcessed(u, e) \/ MarkFailed(u, e)
      PROVE Goal
  <2>1. CASE e = d
    <3>1. Active(u, d)
      BY <1>6, <2>1 DEF MarkProcessed, MarkFailed, Active
    <3>2. u = w
      BY <3>1 DEF LeaseInv, NoSharedEvent
    <3>3. work'[w][d] = "none"
      BY <1>6, <2>1, <3>2 DEF MarkProcessed, MarkFailed, Release, TypeOK
    <3> QED BY <3>3 DEF Active
  <2>2. CASE e # d
    BY <1>3, <1>6, <2>2 DEF MarkProcessed, MarkFailed, TypeOK
  <2> QED BY <2>1, <2>2
<1>7. ASSUME Advance PROVE Goal
  <2>1. status' = status /\ left'[w] = left[w] - 1
    BY <1>7 DEF Advance, Active, TypeOK
  <2>2. lockAge'[d] <= lockAge[d] + 1 /\ lockAge'[d] \in Int
    BY <1>1, <1>7 DEF Advance
  <2> QED BY <1>1, <2>1, <2>2
<1>8. CASE UNCHANGED row
  BY <1>3, <1>8 DEF row
<1> QED
  BY <1>4, <1>5, <1>6, <1>7, <1>8
  DEF Next, Fetch, Handle, Trouble, Land, FetchBatch, FetchLost, PublishOk, PublishError,
      PublishExpired, MarkError, MarkExpired, Shutdown, Stop, Crash, Start, Tick, Delay,
      vars, row

\* The lease invariant is inductive.
LEMMA LeaseStep ==
    ASSUME LeaseCovers, TypeOK, LeaseInv, [Next]_vars
    PROVE  LeaseInv'
<1>1. ASSUME NEW w \in Workers, NEW d \in Events, Active(w, d)'
      PROVE  status'[d] = "PROCESSING" /\ lockAge'[d] + left'[w] <= ProcessTimeout
  <2>1. CASE \E B \in SUBSET Events : FetchBatch(w, B)
    <3>1. PICK B \in SUBSET Events : FetchBatch(w, B)
      BY <2>1
    <3>2. d \in B
      BY <1>1, <3>1 DEF FetchBatch, Active, TypeOK
    <3> QED
      BY <3>1, <3>2, ConfigAssumption DEF FetchBatch, ClaimSome, Claim, TypeOK
  <2>2. CASE ~ \E B \in SUBSET Events : FetchBatch(w, B)
    <3>1. Active(w, d)
      BY <1>1, <2>2, ActiveBefore
    <3> QED BY <1>1, <2>2, <3>1, ActiveRowStep
  <2> QED BY <2>1, <2>2
<1>2. ASSUME NEW w \in Workers, NEW v \in Workers, NEW d \in Events, Active(w, d)', Active(v, d)',
             w # v, NEW B \in SUBSET Events, FetchBatch(w, B)
      PROVE  FALSE
  <2>1. d \in B
    BY <1>2 DEF FetchBatch, Active, TypeOK
  <2>2. Active(v, d)
    BY <1>2 DEF FetchBatch, Active, TypeOK
  <2> QED BY <1>2, <2>1, <2>2, ActiveNotEligible DEF FetchBatch
<1>3. ASSUME NEW w \in Workers, NEW v \in Workers, NEW d \in Events, Active(w, d)', Active(v, d)'
      PROVE  w = v
  <2>1. CASE \E B \in SUBSET Events : FetchBatch(w, B) \/ FetchBatch(v, B)
    BY <1>2, <1>3, <2>1
  <2>2. CASE ~ \E B \in SUBSET Events : FetchBatch(w, B) \/ FetchBatch(v, B)
    <3>1. Active(w, d) /\ Active(v, d)
      BY <1>3, <2>2, ActiveBefore
    <3> QED BY <3>1 DEF LeaseInv, NoSharedEvent
  <2> QED BY <2>1, <2>2
<1> QED
  BY <1>1, <1>3 DEF LeaseInv, NoSharedEvent, ActiveOwnsRow

\* If the lease covers the deadline and the clock skew, no two workers work on
\* the same event, and every mark sent before the deadline finds the row as
\* FetchBatch left it.
THEOREM LeaseProtectsWork ==
    ASSUME LeaseCovers
    PROVE  Spec => [](NoSharedEvent /\ ActiveOwnsRow)
<1>1. Init => LeaseInv
  BY DEF Init, LeaseInv, NoSharedEvent, ActiveOwnsRow, Active
<1>2. TypeOK /\ LeaseInv /\ [Next]_vars => LeaseInv'
  BY LeaseStep
<1>3. LeaseInv => NoSharedEvent /\ ActiveOwnsRow
  BY DEF LeaseInv
<1> QED
  BY <1>1, <1>2, <1>3, TypeCorrect, PTL DEF Spec

-----------------------------------------------------------------------------
(* Duplicates.  Each claim is one publication at most: it is waiting in a   *)
(* batch, or in the broker's hands, or on the topic, or it has come to      *)
(* nothing.                                                                 *)

Waiting(e) == {w \in Workers : work[w][e] = "fetched"}

CountInv ==
    \A e \in Events : copies[e] + inflight[e] + Cardinality(Waiting(e)) <= attempts[e]

\* The workers that wait to publish an event are counted by a number.
LEMMA WaitingFinite ==
    \A e \in Events : IsFiniteSet(Waiting(e)) /\ Cardinality(Waiting(e)) \in Nat
<1> TAKE e \in Events
<1>1. Waiting(e) \in SUBSET Workers
  BY DEF Waiting
<1>2. IsFiniteSet(Waiting(e))
  BY <1>1, FiniteAssumption, FS_Subset
<1> QED
  BY <1>2, FS_CardinalityType

\* A step after which no further worker waits for an event, and which leaves
\* the records and the attempts of that event alone, keeps its count.
LEMMA CountKept ==
    ASSUME TypeOK, CountInv, NEW d \in Events, Waiting(d)' \subseteq Waiting(d),
           copies'[d] + inflight'[d] = copies[d] + inflight[d], attempts'[d] = attempts[d]
    PROVE  copies'[d] + inflight'[d] + Cardinality(Waiting(d)') <= attempts'[d]
<1>1. Cardinality(Waiting(d)') <= Cardinality(Waiting(d)) /\ Cardinality(Waiting(d)') \in Nat
  <2>1. IsFiniteSet(Waiting(d)')
    BY WaitingFinite, FS_Subset
  <2> QED BY <2>1, WaitingFinite, FS_Subset, FS_CardinalityType
<1> QED
  BY <1>1, WaitingFinite DEF CountInv, TypeOK

\* A worker that fetches an event is one more that waits, and one more attempt.
LEMMA CountClaim ==
    ASSUME TypeOK, CountInv, NEW w \in Workers, NEW B \in SUBSET Events, FetchBatch(w, B),
           NEW d \in Events
    PROVE  copies'[d] + inflight'[d] + Cardinality(Waiting(d)') <= attempts'[d]
<1>1. UNCHANGED broker /\ Claim(B)
      /\ work' = [work EXCEPT ![w] = [e \in Events |-> IF e \in B THEN "fetched" ELSE "none"]]
  BY DEF FetchBatch, ClaimSome
<1>2. CASE d \in B
  <2>1. Waiting(d)' = Waiting(d) \cup {w}
    BY <1>1, <1>2 DEF Waiting, TypeOK
  <2>2. Cardinality(Waiting(d)') <= Cardinality(Waiting(d)) + 1 /\ Cardinality(Waiting(d)') \in Nat
    <3>1. IsFiniteSet(Waiting(d)) /\ Cardinality(Waiting(d)) \in Nat
      BY WaitingFinite
    <3>2. Cardinality(Waiting(d) \cup {w}) =
              IF w \in Waiting(d) THEN Cardinality(Waiting(d)) ELSE Cardinality(Waiting(d)) + 1
      BY <3>1, FS_AddElement
    <3> QED BY <2>1, <3>1, <3>2
  <2>3. attempts'[d] = attempts[d] + 1
    BY <1>1, <1>2 DEF Claim
  <2> QED BY <1>1, <2>2, <2>3, WaitingFinite DEF CountInv, TypeOK, broker
<1>3. CASE d \notin B
  <2>1. Waiting(d)' \subseteq Waiting(d)
    BY <1>1, <1>3 DEF Waiting, TypeOK
  <2> QED BY <1>1, <1>3, <2>1, CountKept DEF Claim, broker
<1> QED BY <1>2, <1>3

\* A worker that publishes no longer waits; it pays for the record with that.
LEMMA CountPublish ==
    ASSUME TypeOK, CountInv, NEW w \in Workers, NEW e \in Events, Turn(w, e),
           work'[w][e] # "fetched", attempts' = attempts, NEW d \in Events,
           work' \in [Workers -> [Events -> Stages]],
           \A v \in Workers, x \in Events :
               v # w \/ x # e => work'[v][x] = work[v][x],
           \A x \in Events \ {e} : copies'[x] = copies[x] /\ inflight'[x] = inflight[x],
           copies'[e] + inflight'[e] <= copies[e] + inflight[e] + 1,
           copies'[e] \in Nat, inflight'[e] \in Nat
    PROVE  copies'[d] + inflight'[d] + Cardinality(Waiting(d)') <= attempts'[d]
<1>1. CASE d = e
  <2>1. Waiting(e)' = Waiting(e) \ {w} /\ w \in Waiting(e)
    BY DEF Waiting, Turn
  <2>2. Cardinality(Waiting(e)') = Cardinality(Waiting(e)) - 1
    BY <2>1, WaitingFinite, FS_RemoveElement
  <2> QED BY <1>1, <2>2, WaitingFinite DEF CountInv, TypeOK
<1>2. CASE d # e
  <2>1. Waiting(d)' \subseteq Waiting(d)
    BY <1>2 DEF Waiting
  <2> QED BY <1>2, <2>1, CountKept
<1> QED BY <1>1, <1>2

\* No step puts more records on the topic than the claims it was given.
LEMMA CountStep == TypeOK /\ CountInv /\ [Next]_vars => CountInv'
<1> SUFFICES ASSUME TypeOK, CountInv, [Next]_vars, NEW d \in Events
             PROVE  copies'[d] + inflight'[d] + Cardinality(Waiting(d)') <= attempts'[d]
  BY DEF CountInv
<1> DEFINE Goal == copies'[d] + inflight'[d] + Cardinality(Waiting(d)') <= attempts'[d]
<1>0. TypeOK'
  BY TypeStep
<1>1. ASSUME UNCHANGED <<attempts, broker>>,
             \A w \in Workers, e \in Events : work'[w][e] = "fetched" => work[w][e] = "fetched"
      PROVE  Goal
  <2>1. Waiting(d)' \subseteq Waiting(d)
    BY <1>1 DEF Waiting
  <2> QED BY <1>1, <2>1, CountKept DEF broker
<1>2. ASSUME NEW e \in Events, Land(e) PROVE Goal
  <2>1. Waiting(d)' \subseteq Waiting(d)
    BY <1>2 DEF Land, Waiting
  <2>2. copies'[d] + inflight'[d] = copies[d] + inflight[d]
    BY <1>2 DEF Land, TypeOK
  <2> QED BY <1>2, <2>1, <2>2, CountKept DEF Land, row
<1>3. ASSUME NEW w \in Workers, NEW B \in SUBSET Events, FetchBatch(w, B) PROVE Goal
  BY <1>3, CountClaim
<1>4. ASSUME NEW w \in Workers, NEW B \in SUBSET Events, FetchLost(w, B) PROVE Goal
  <2>1. Waiting(d)' = Waiting(d) /\ UNCHANGED broker
    BY <1>4 DEF FetchLost, Waiting
  <2>2. attempts'[d] \in {attempts[d], attempts[d] + 1}
    BY <1>4 DEF FetchLost, ClaimSome, Claim
  <2> QED BY <2>1, <2>2, WaitingFinite DEF CountInv, TypeOK, broker
<1>5. ASSUME NEW w \in Workers, NEW e \in Events, PublishOk(w, e) PROVE Goal
  <2>1. \A x \in Events \ {e} : copies'[x] = copies[x] /\ inflight'[x] = inflight[x]
    BY <1>5 DEF PublishOk, TypeOK
  <2>2. copies'[e] + inflight'[e] <= copies[e] + inflight[e] + 1
    BY <1>5 DEF PublishOk, TypeOK
  <2>3. \A v \in Workers, x \in Events : v # w \/ x # e => work'[v][x] = work[v][x]
    BY <1>5 DEF PublishOk, TypeOK
  <2>4. Turn(w, e) /\ work'[w][e] # "fetched" /\ attempts' = attempts
    BY <1>5 DEF PublishOk, TypeOK, row
  <2>5. copies'[e] \in Nat /\ inflight'[e] \in Nat /\ work' \in [Workers -> [Events -> Stages]]
    BY <1>0 DEF TypeOK
  <2> QED BY <2>1, <2>2, <2>3, <2>4, <2>5, CountPublish
<1>6. ASSUME NEW w \in Workers, NEW e \in Events, PublishError(w, e) PROVE Goal
  <2>1. \A x \in Events \ {e} : copies'[x] = copies[x] /\ inflight'[x] = inflight[x]
    BY <1>6 DEF PublishError, TypeOK
  <2>2. copies'[e] + inflight'[e] <= copies[e] + inflight[e] + 1
    BY <1>6 DEF PublishError, TypeOK
  <2>3. \A v \in Workers, x \in Events : v # w \/ x # e => work'[v][x] = work[v][x]
    BY <1>6 DEF PublishError, TypeOK
  <2>4. Turn(w, e) /\ work'[w][e] # "fetched" /\ attempts' = attempts
    BY <1>6 DEF PublishError, TypeOK, row
  <2>5. copies'[e] \in Nat /\ inflight'[e] \in Nat /\ work' \in [Workers -> [Events -> Stages]]
    BY <1>0 DEF TypeOK
  <2> QED BY <2>1, <2>2, <2>3, <2>4, <2>5, CountPublish
<1>7. ASSUME NEW w \in Workers, NEW e \in Events, PublishExpired(w, e) PROVE Goal
  BY <1>1, <1>7 DEF PublishExpired, row, TypeOK
<1>8. ASSUME NEW w \in Workers, NEW e \in Events,
             MarkProcessed(w, e) \/ MarkFailed(w, e) \/ MarkError(w, e) \/ MarkExpired(w, e)
      PROVE  Goal
  <2>1. Release(w, e) /\ UNCHANGED <<attempts, broker>>
    BY <1>8 DEF MarkProcessed, MarkFailed, MarkError, MarkExpired, row
  <2>2. \A v \in Workers, x \in Events : work'[v][x] = "fetched" => work[v][x] = "fetched"
    BY <2>1 DEF Release, TypeOK
  <2> QED BY <1>1, <2>1, <2>2
<1>9. ASSUME NEW w \in Workers, Crash(w) PROVE Goal
  BY <1>1, <1>9 DEF Crash, row, TypeOK
<1>10. CASE UNCHANGED <<attempts, broker, work>>
  BY <1>1, <1>10
<1> QED
  BY <1>2, <1>3, <1>4, <1>5, <1>6, <1>7, <1>8, <1>9, <1>10
  DEF Next, Fetch, Handle, Trouble, Create, Shutdown, Stop, Start, Tick, Delay, Advance, vars,
      row, broker

\* The topic never holds more records of an event than its row counts attempts.
THEOREM DuplicatesCounted == Spec => []CopiesWithinAttempts
<1>1. Init => CountInv
  <2> SUFFICES ASSUME Init, NEW e \in Events
               PROVE  copies[e] + inflight[e] + Cardinality(Waiting(e)) <= attempts[e]
    BY DEF CountInv
  <2>1. Waiting(e) = {}
    BY DEF Init, Waiting
  <2> QED BY <2>1, FS_EmptySet DEF Init
<1>2. TypeOK /\ CountInv => CopiesWithinAttempts
  BY WaitingFinite DEF TypeOK, CountInv, CopiesWithinAttempts
<1> QED
  BY <1>1, <1>2, CountStep, TypeCorrect, PTL DEF Spec

-----------------------------------------------------------------------------
(* Refinement of OutboxPromise *)

\* A step that keeps every event's phase and every record is a stutter.
LEMMA PromiseStutter ==
    ASSUME UNCHANGED copies,
           \A e \in Events : \/ status'[e] = status[e]
                             \/ {status[e], status'[e]} \subseteq {"NEW", "PROCESSING"}
    PROVE  UNCHANGED <<Phase, Delivered>>
<1>1. \A e \in Events : Phase'[e] = Phase[e]
  BY DEF Phase
<1> QED BY <1>1 DEF Phase, Delivered

\* A record that reaches the topic is a delivery of an accepted event, or a
\* repeated one.
LEMMA PromiseDeliver ==
    ASSUME TypeOK, UNCHANGED status, NEW e \in Events, status[e] # "ABSENT",
           copies' = [copies EXCEPT ![e] = @ + 1]
    PROVE  Promise!Deliver(e)
<1>1. Delivered' = Delivered \cup {e}
  BY DEF Delivered, TypeOK
<1>2. UNCHANGED Phase /\ Phase[e] # "absent"
  BY DEF Phase
<1> QED BY <1>1, <1>2 DEF Promise!Deliver, Phase, Delivered

\* An event in a worker's batch, or in the broker's hands, has been accepted.
AcceptedInv ==
    \A e \in Events :
        /\ inflight[e] > 0 => status[e] # "ABSENT"
        /\ \A w \in Workers : work[w][e] # "none" => status[e] # "ABSENT"

\* A row never becomes absent again, and only accepted rows are fetched.
LEMMA AcceptedStep == TypeOK /\ AcceptedInv /\ [Next]_vars => AcceptedInv'
<1> SUFFICES ASSUME TypeOK, AcceptedInv, [Next]_vars, NEW d \in Events
             PROVE  /\ inflight'[d] > 0 => status'[d] # "ABSENT"
                    /\ \A v \in Workers : work'[v][d] # "none" => status'[d] # "ABSENT"
  BY DEF AcceptedInv
<1> DEFINE Goal == /\ inflight'[d] > 0 => status'[d] # "ABSENT"
                   /\ \A v \in Workers : work'[v][d] # "none" => status'[d] # "ABSENT"
<1>1. ASSUME status[d] # "ABSENT" => status'[d] # "ABSENT",
             inflight'[d] > 0 => inflight[d] > 0 \/ \E v \in Workers : work[v][d] # "none",
             \A v \in Workers : work'[v][d] # "none" => work[v][d] # "none"
      PROVE  Goal
  BY <1>1 DEF AcceptedInv
<1>2. ASSUME NEW e \in Events, Create(e) PROVE Goal
  BY <1>1, <1>2 DEF Create, TypeOK
<1>3. ASSUME NEW e \in Events, Land(e) PROVE Goal
  BY <1>1, <1>3 DEF Land, TypeOK, row
<1>4. ASSUME NEW w \in Workers, NEW B \in SUBSET Events, FetchBatch(w, B) PROVE Goal
  <2>1. Claim(B) /\ UNCHANGED broker
        /\ work' = [work EXCEPT ![w] = [e \in Events |-> IF e \in B THEN "fetched" ELSE "none"]]
    BY <1>4 DEF FetchBatch, ClaimSome
  <2>2. CASE d \in B
    BY <2>1, <2>2 DEF Claim
  <2>3. CASE d \notin B
    BY <1>1, <2>1, <2>3 DEF Claim, TypeOK, broker
  <2> QED BY <2>2, <2>3
<1>5. ASSUME NEW w \in Workers, NEW B \in SUBSET Events, FetchLost(w, B) PROVE Goal
  BY <1>1, <1>5 DEF FetchLost, ClaimSome, Claim, broker
<1>6. ASSUME NEW w \in Workers, NEW e \in Events, PublishOk(w, e) \/ PublishExpired(w, e)
      PROVE Goal
  BY <1>1, <1>6 DEF PublishOk, PublishExpired, Turn, TypeOK, row, broker
<1>7. ASSUME NEW w \in Workers, NEW e \in Events, PublishError(w, e) PROVE Goal
  BY <1>1, <1>7 DEF PublishError, Turn, TypeOK, row
<1>8. ASSUME NEW w \in Workers, NEW e \in Events,
             MarkProcessed(w, e) \/ MarkFailed(w, e) \/ MarkError(w, e) \/ MarkExpired(w, e)
      PROVE Goal
  <2>1. \A v \in Workers : work'[v][d] # "none" => work[v][d] # "none"
    BY <1>8 DEF MarkProcessed, MarkFailed, MarkError, MarkExpired, Release, TypeOK
  <2>2. status[d] # "ABSENT" => status'[d] # "ABSENT"
    BY <1>8 DEF MarkProcessed, MarkFailed, MarkError, MarkExpired, row, TypeOK
  <2>3. UNCHANGED inflight
    BY <1>8 DEF MarkProcessed, MarkFailed, MarkError, MarkExpired, broker
  <2> QED BY <1>1, <2>1, <2>2, <2>3
<1>9. ASSUME NEW w \in Workers, Crash(w) PROVE Goal
  BY <1>1, <1>9 DEF Crash, TypeOK, row, broker
<1>10. CASE UNCHANGED <<status, inflight, work>>
  BY <1>1, <1>10
<1> QED
  BY <1>2, <1>3, <1>4, <1>5, <1>6, <1>7, <1>8, <1>9, <1>10
  DEF Next, Fetch, Handle, Trouble, Shutdown, Stop, Start, Tick, Delay, Advance, vars, row,
      broker

\* Every step of the outbox is a step of the promise, or invisible to it.
LEMMA PromiseStep ==
    TypeOK /\ AcceptedInv /\ StatusInv /\ [Next]_vars => [Promise!Next]_<<Phase, Delivered>>
<1> SUFFICES ASSUME TypeOK, AcceptedInv, StatusInv, [Next]_vars
             PROVE  [Promise!Next]_<<Phase, Delivered>>
  OBVIOUS
<1>1. ASSUME NEW e \in Events, Create(e) PROVE Promise!Accept(e)
  <2>1. Phase[e] = "absent" /\ UNCHANGED Delivered
    BY <1>1 DEF Create, Phase, Delivered
  <2>2. Phase' = [Phase EXCEPT ![e] = "pending"]
    <3>1. \A x \in Events : Phase'[x] = IF x = e THEN "pending" ELSE Phase[x]
      BY <1>1 DEF Create, Phase, TypeOK
    <3> QED BY <3>1 DEF Phase
  <2> QED BY <2>1, <2>2 DEF Promise!Accept, Phase, Delivered
<1>2. ASSUME NEW e \in Events, Land(e) PROVE Promise!Deliver(e)
  BY <1>2, PromiseDeliver DEF Land, AcceptedInv, row
<1>3. ASSUME NEW w \in Workers, NEW B \in SUBSET Events, FetchBatch(w, B) \/ FetchLost(w, B)
      PROVE  UNCHANGED <<Phase, Delivered>>
  <2>1. ClaimSome(w, B) /\ UNCHANGED copies
    BY <1>3 DEF FetchBatch, FetchLost, broker
  <2>2. \A e \in Events : \/ status'[e] = status[e]
                          \/ {status[e], status'[e]} \subseteq {"NEW", "PROCESSING"}
    BY <2>1, BatchIsOpen DEF ClaimSome, Claim
  <2> QED BY <2>1, <2>2, PromiseStutter
<1>4. ASSUME NEW w \in Workers, NEW e \in Events, PublishOk(w, e) PROVE Promise!Deliver(e)
  BY <1>4, PromiseDeliver DEF PublishOk, Turn, AcceptedInv, row
<1>5. ASSUME NEW w \in Workers, NEW e \in Events, MarkProcessed(w, e)
      PROVE  Promise!Confirm(e) \/ UNCHANGED <<Phase, Delivered>>
  <2>1. UNCHANGED Delivered /\ e \in Delivered
    BY <1>5 DEF MarkProcessed, Delivered, StatusInv, PublishedOnTopic, broker
  <2>2. CASE status[e] = "PROCESSING"
    <3>1. \A x \in Events : Phase'[x] = IF x = e THEN "confirmed" ELSE Phase[x]
      BY <1>5, <2>2 DEF MarkProcessed, Phase, TypeOK
    <3>2. Phase' = [Phase EXCEPT ![e] = "confirmed"] /\ Phase[e] = "pending"
      BY <2>2, <3>1 DEF Phase
    <3> QED BY <2>1, <3>2 DEF Promise!Confirm, Phase, Delivered
  <2>3. CASE status[e] # "PROCESSING"
    BY <1>5, <2>3, PromiseStutter DEF MarkProcessed, broker
  <2> QED BY <2>2, <2>3
<1>6. ASSUME NEW w \in Workers, NEW e \in Events, MarkFailed(w, e)
      PROVE  Promise!Abandon(e) \/ UNCHANGED <<Phase, Delivered>>
  <2>1. UNCHANGED Delivered
    BY <1>6 DEF MarkFailed, Delivered, broker
  <2>2. CASE status[e] = "PROCESSING" /\ attempts[e] >= MaxAttempts
    <3>1. \A x \in Events : Phase'[x] = IF x = e THEN "abandoned" ELSE Phase[x]
      BY <1>6, <2>2 DEF MarkFailed, Phase, TypeOK
    <3>2. Phase' = [Phase EXCEPT ![e] = "abandoned"] /\ Phase[e] = "pending"
      BY <2>2, <3>1 DEF Phase
    <3> QED BY <2>1, <3>2 DEF Promise!Abandon, Phase, Delivered
  <2>3. CASE ~(status[e] = "PROCESSING" /\ attempts[e] >= MaxAttempts)
    <3>1. \A x \in Events : \/ status'[x] = status[x]
                            \/ {status[x], status'[x]} \subseteq {"NEW", "PROCESSING"}
      BY <1>6, <2>3 DEF MarkFailed, TypeOK
    <3> QED BY <1>6, <3>1, PromiseStutter DEF MarkFailed, broker
  <2> QED BY <2>2, <2>3
<1>7. CASE UNCHANGED <<status, copies>>
  BY <1>7, PromiseStutter
<1> QED
  BY <1>1, <1>2, <1>3, <1>4, <1>5, <1>6, <1>7
  DEF Next, Fetch, Handle, Trouble, PublishError, PublishExpired, MarkError, MarkExpired,
      Shutdown, Stop, Crash, Start, Tick, Delay, Advance, vars, row, broker, Promise!Next

\* The outbox, with its claims, leases, retries and late marks, implements
\* OutboxPromise.
THEOREM OutboxKeepsPromise == Spec => KeepsPromise
<1>1. Init => Promise!Init
  BY DEF Init, Promise!Init, Phase, Delivered
<1>2. Init => AcceptedInv
  BY DEF Init, AcceptedInv
<1>3. TypeOK /\ AcceptedInv /\ StatusInv /\ [Next]_vars => [Promise!Next]_(Promise!promiseVars)
  BY PromiseStep DEF Promise!promiseVars
<1> QED
  BY <1>1, <1>2, <1>3, AcceptedStep, StatusInvariant, TypeCorrect, PTL
  DEF Spec, KeepsPromise, Promise!Spec

-----------------------------------------------------------------------------
(* Attempts.  An event is claimed again only after a fault of its own: its  *)
(* claim is lost or outlived, or a worker in time has failed to publish it. *)

\* No process's clock is further from the database's than a lease is long.
SkewIsShort == ClockSkew <= LockTimeout

\* Workers that are about to put the event back with MarkFailed.
Refusing(e) == {w \in Workers : work[w][e] = "refused" /\ left[w] > 0}

\* The claims of an event, and those its refusals will lead to.
Spent(e) == attempts[e] + Cardinality(Refusing(e))

\* A claim that time has not touched and that somebody works on; it cannot be
\* taken over without a fault.
Fresh(e) == status[e] = "PROCESSING" /\ lockAge[e] = 0 /\ \E w \in Workers : Active(w, e)

Paid(e) ==
    /\ attempts[e] <= faults + 1
    /\ status[e] = "ABSENT" => attempts[e] = 0
    /\ status[e] \in {"NEW", "PROCESSING"} => Spent(e) <= faults + IF Fresh(e) THEN 1 ELSE 0

PaidInv == \A e \in Events : Paid(e)

\* The workers that refuse an event are counted by a number.
LEMMA RefusingFinite ==
    \A e \in Events : IsFiniteSet(Refusing(e)) /\ Cardinality(Refusing(e)) \in Nat
<1> TAKE e \in Events
<1>1. Refusing(e) \in SUBSET Workers
  BY DEF Refusing
<1>2. IsFiniteSet(Refusing(e))
  BY <1>1, FiniteAssumption, FS_Subset
<1> QED
  BY <1>2, FS_CardinalityType

\* Fewer refusals lead to fewer claims.
LEMMA RefusingFalls ==
    ASSUME NEW d \in Events, Refusing(d)' \subseteq Refusing(d)
    PROVE  Cardinality(Refusing(d)') <= Cardinality(Refusing(d)) /\ Cardinality(Refusing(d)') \in Nat
<1>1. IsFiniteSet(Refusing(d)')
  BY RefusingFinite, FS_Subset
<1> QED
  BY <1>1, RefusingFinite, FS_Subset, FS_CardinalityType

\* A step that leaves the row alone and its claim as fresh keeps the account, and
\* so does a fault that leaves the row alone.
LEMMA PaidKept ==
    ASSUME TypeOK, NEW d \in Events, Paid(d), Refusing(d)' \subseteq Refusing(d),
           attempts'[d] = attempts[d], status'[d] = status[d],
           \/ faults' = faults /\ (Fresh(d) => Fresh(d)')
           \/ faults' = faults + 1
    PROVE  Paid(d)'
<1>1. Cardinality(Refusing(d)') <= Cardinality(Refusing(d)) /\ Cardinality(Refusing(d)') \in Nat
  BY RefusingFalls
<1>2. attempts[d] \in Nat /\ faults \in Nat /\ Cardinality(Refusing(d)) \in Nat
  BY RefusingFinite DEF TypeOK
<1> QED
  BY <1>1, <1>2 DEF Paid, Spent

\* Only rows whose claim is not fresh are claimed.
LEMMA ClaimedNotFresh ==
    ASSUME SkewIsShort, TypeOK, NEW w \in Workers, NEW B \in SUBSET Events, ClaimSome(w, B),
           NEW d \in B
    PROVE  status[d] \in {"NEW", "PROCESSING"} /\ ~Fresh(d)
<1>1. PICK lead \in (-ClockSkew)..ClockSkew : d \in Eligible(lead)
  BY DEF ClaimSome, IsBatch
<1> QED
  BY <1>1, ConfigAssumption, BoundAssumption DEF Eligible, Fresh, SkewIsShort

\* What a worker lets go of one event does not touch the others.
LEMMA ReleaseKeeps ==
    ASSUME TypeOK, NEW w \in Workers, NEW e \in Events, Release(w, e), NEW d \in Events
    PROVE  /\ Refusing(d)' \subseteq Refusing(d) \ (IF d = e THEN {w} ELSE {})
           /\ \A v \in Workers : Active(v, d) /\ (v # w \/ d # e) => Active(v, d)'
<1>1. Refusing(d)' \subseteq Refusing(d) \ (IF d = e THEN {w} ELSE {})
  BY DEF Refusing, Release, TypeOK
<1>2. ASSUME NEW v \in Workers, Active(v, d), v # w \/ d # e
      PROVE  Active(v, d)'
  <2>1. CASE v # w
    BY <1>2, <2>1 DEF Active, Release, TypeOK
  <2>2. CASE v = w /\ d # e
    <3>1. Held(w) # {e}
      BY <1>2, <2>2 DEF Active, Held
    <3> QED BY <1>2, <2>2, <3>1 DEF Active, Release, TypeOK
  <2> QED BY <1>2, <2>1, <2>2
<1> QED BY <1>1, <1>2

\* A claim uses up the account of a row that is not fresh.
LEMMA PaidClaim ==
    ASSUME SkewIsShort, TypeOK, NEW w \in Workers, NEW B \in SUBSET Events,
           FetchBatch(w, B) \/ FetchLost(w, B), NEW d \in Events, Paid(d)
    PROVE  Paid(d)'
<1>1. ClaimSome(w, B) /\ Claim(B) /\ Held(w) = {}
  BY DEF FetchBatch, FetchLost, ClaimSome
<1>2. Refusing(d)' \subseteq Refusing(d)
  <2>1. CASE FetchBatch(w, B)
    BY <2>1 DEF FetchBatch, Refusing, TypeOK
  <2>2. CASE FetchLost(w, B)
    BY <2>2 DEF FetchLost, Refusing
  <2> QED BY <2>1, <2>2
<1>3. CASE d \notin B
  <2>1. attempts'[d] = attempts[d] /\ status'[d] = status[d] /\ lockAge'[d] = lockAge[d]
    BY <1>1, <1>3 DEF Claim
  <2>2. CASE FetchBatch(w, B)
    <3>1. \A v \in Workers : Active(v, d) => Active(v, d)'
      BY <1>1, <2>2 DEF FetchBatch, Active, Held, TypeOK
    <3>2. faults' = faults /\ (Fresh(d) => Fresh(d)')
      BY <2>1, <2>2, <3>1 DEF FetchBatch, Fresh
    <3> QED BY <1>2, <2>1, <3>2, PaidKept
  <2>3. CASE FetchLost(w, B)
    BY <1>2, <2>1, <2>3, PaidKept DEF FetchLost, Fault
  <2> QED BY <2>2, <2>3
<1>4. CASE d \in B
  <2>1. status[d] \in {"NEW", "PROCESSING"} /\ ~Fresh(d)
    BY <1>1, <1>4, ClaimedNotFresh
  <2>2. Spent(d) <= faults
    BY <2>1 DEF Paid, TypeOK
  <2>3. attempts'[d] = attempts[d] + 1 /\ status'[d] = "PROCESSING" /\ lockAge'[d] = 0
    BY <1>1, <1>4 DEF Claim, TypeOK
  <2>4. /\ Cardinality(Refusing(d)') <= Cardinality(Refusing(d))
        /\ Cardinality(Refusing(d)') \in Nat /\ Cardinality(Refusing(d)) \in Nat
        /\ attempts[d] \in Nat /\ faults \in Nat
    BY <1>2, RefusingFalls, RefusingFinite DEF TypeOK
  <2>5. Spent(d)' <= faults + 1 /\ attempts'[d] <= faults + 1
    BY <2>2, <2>3, <2>4 DEF Spent
  <2>6. CASE FetchBatch(w, B)
    <3>1. Active(w, d)'
      BY <1>4, <2>6, ConfigAssumption DEF FetchBatch, Active, TypeOK
    <3>2. Fresh(d)' /\ faults' = faults
      BY <2>3, <2>6, <3>1 DEF Fresh, FetchBatch
    <3> QED BY <2>3, <2>5, <3>2 DEF Paid
  <2>7. CASE FetchLost(w, B)
    <3>1. faults' = faults + 1
      BY <2>7 DEF FetchLost, Fault
    <3>2. Spent(d)' \in Nat
      BY <2>3, <2>4 DEF Spent
    <3> QED BY <2>3, <2>4, <2>5, <3>1, <3>2 DEF Paid
  <2> QED BY <2>6, <2>7
<1> QED BY <1>3, <1>4

\* A refusal is a fault, and pays for the claim that follows it.
LEMMA PaidRefusal ==
    ASSUME TypeOK, NEW w \in Workers, NEW e \in Events, PublishError(w, e), NEW d \in Events, Paid(d)
    PROVE  Paid(d)'
<1>1. UNCHANGED row /\ faults' = faults + 1 /\ left' = left
  BY DEF PublishError, Fault
<1>2. CASE d # e
  <2>1. Refusing(d)' \subseteq Refusing(d)
    BY <1>2 DEF PublishError, Refusing, TypeOK
  <2> QED BY <1>1, <2>1, PaidKept DEF row
<1>3. CASE d = e
  <2>1. Refusing(d)' \subseteq Refusing(d) \cup {w}
    BY <1>3 DEF PublishError, Refusing, TypeOK
  <2>2. Cardinality(Refusing(d)') <= Cardinality(Refusing(d)) + 1 /\ Cardinality(Refusing(d)') \in Nat
    <3>1. IsFiniteSet(Refusing(d)) /\ Cardinality(Refusing(d)) \in Nat
      BY RefusingFinite
    <3>2. IsFiniteSet(Refusing(d) \cup {w})
      BY <3>1, FS_AddElement
    <3>3. Cardinality(Refusing(d) \cup {w}) =
              IF w \in Refusing(d) THEN Cardinality(Refusing(d)) ELSE Cardinality(Refusing(d)) + 1
      BY <3>1, FS_AddElement
    <3>4. IsFiniteSet(Refusing(d)') /\ Cardinality(Refusing(d)') <= Cardinality(Refusing(d) \cup {w})
      BY <2>1, <3>2, FS_Subset
    <3> QED BY <3>1, <3>2, <3>3, <3>4, FS_CardinalityType
  <2>3. Fresh(d) => Fresh(d)'
    BY <1>1, <1>3 DEF PublishError, Fresh, Active, TypeOK, row
  <2>4. Cardinality(Refusing(d)) \in Nat /\ attempts[d] \in Nat /\ faults \in Nat
    BY RefusingFinite DEF TypeOK
  <2> QED BY <1>1, <2>2, <2>3, <2>4 DEF Paid, Spent, row
<1> QED BY <1>2, <1>3

\* A mark uses up a refusal when it puts the row back, and otherwise ends the
\* row's claims or leaves it alone.
LEMMA PaidMark ==
    ASSUME TypeOK, NEW w \in Workers, NEW e \in Events, NEW d \in Events, Paid(d),
           MarkProcessed(w, e) \/ MarkFailed(w, e) \/ MarkError(w, e) \/ MarkExpired(w, e)
    PROVE  Paid(d)'
<1>1. Release(w, e) /\ attempts' = attempts
  BY DEF MarkProcessed, MarkFailed, MarkError, MarkExpired, row
<1>2. Refusing(d)' \subseteq Refusing(d)
  BY <1>1, ReleaseKeeps
<1>3. CASE MarkError(w, e)
  BY <1>1, <1>2, <1>3, PaidKept DEF MarkError, Fault, row
<1>4. CASE MarkExpired(w, e)
  <2>1. \A v \in Workers : Active(v, d) => Active(v, d)'
    <3>1. ~Active(w, d)
      BY <1>4 DEF MarkExpired, Active
    <3> QED BY <1>1, <3>1, ReleaseKeeps
  <2>2. UNCHANGED row /\ faults' = faults /\ (Fresh(d) => Fresh(d)')
    BY <1>4, <2>1 DEF MarkExpired, Fresh, row
  <2> QED BY <1>2, <2>2, PaidKept DEF row
<1>5. CASE (MarkProcessed(w, e) \/ MarkFailed(w, e)) /\ (d # e \/ status[d] # "PROCESSING")
  <2>1. status'[d] = status[d] /\ lockAge'[d] = lockAge[d] /\ faults' = faults
    BY <1>5 DEF MarkProcessed, MarkFailed, TypeOK
  <2>2. Fresh(d) => Fresh(d)'
    <3>1. d # e => \A v \in Workers : Active(v, d) => Active(v, d)'
      BY <1>1, ReleaseKeeps
    <3> QED BY <1>5, <2>1, <3>1 DEF Fresh
  <2> QED BY <1>1, <1>2, <2>1, <2>2, PaidKept
<1>6. CASE (MarkProcessed(w, e) \/ MarkFailed(w, e)) /\ d = e /\ status[d] = "PROCESSING"
  <2>0. faults' = faults
    BY <1>6 DEF MarkProcessed, MarkFailed
  <2>1. CASE status'[d] # "NEW"
    <3>1. status'[d] \in {"PROCESSED", "FAILED"}
      BY <1>6, <2>1 DEF MarkProcessed, MarkFailed, TypeOK
    <3> QED BY <1>1, <2>0, <3>1 DEF Paid
  <2>2. CASE status'[d] = "NEW"
    <3>1. MarkFailed(w, e) /\ w \in Refusing(d)
      BY <1>6, <2>2 DEF MarkProcessed, MarkFailed, Refusing, TypeOK
    <3>2. Refusing(d)' \subseteq Refusing(d) \ {w}
      BY <1>1, <1>6, ReleaseKeeps
    <3>3. /\ IsFiniteSet(Refusing(d) \ {w})
          /\ Cardinality(Refusing(d) \ {w}) = Cardinality(Refusing(d)) - 1
      BY <3>1, RefusingFinite, FS_RemoveElement
    <3>4. /\ IsFiniteSet(Refusing(d)')
          /\ Cardinality(Refusing(d)') <= Cardinality(Refusing(d) \ {w})
      BY <3>2, <3>3, FS_Subset
    <3>5. Cardinality(Refusing(d)') \in Nat /\ Cardinality(Refusing(d)) \in Nat
      BY <3>4, RefusingFinite, FS_CardinalityType
    <3>6. Spent(d) <= faults + 1 /\ attempts[d] \in Nat /\ faults \in Nat
      <4>1. attempts[d] \in Nat /\ faults \in Nat
        BY DEF TypeOK
      <4>2. Spent(d) \in Nat
        BY <3>5, <4>1 DEF Spent
      <4> QED BY <1>6, <4>1, <4>2 DEF Paid
    <3>7. Spent(d)' <= faults /\ Spent(d)' \in Nat
      BY <1>1, <3>3, <3>4, <3>5, <3>6 DEF Spent
    <3> QED BY <1>1, <2>0, <2>2, <3>6, <3>7 DEF Paid
  <2> QED BY <2>1, <2>2
<1> QED BY <1>3, <1>4, <1>5, <1>6

\* No step claims an event that its faults have not paid for.
LEMMA PaidStep ==
    ASSUME SkewIsShort, TypeOK, AcceptedInv, PaidInv, [Next]_vars
    PROVE  PaidInv'
<1> SUFFICES ASSUME NEW d \in Events PROVE Paid(d)'
  BY DEF PaidInv
<1>0. Paid(d)
  BY DEF PaidInv
<1>1. ASSUME NEW e \in Events, Create(e) PROVE Paid(d)'
  <2>1. UNCHANGED <<attempts, lockAge, work, left, faults>>
    BY <1>1 DEF Create
  <2>2. Refusing(d)' = Refusing(d)
    BY <2>1 DEF Refusing
  <2>3. CASE d = e
    <3>1. Refusing(d) = {} /\ attempts[d] = 0 /\ status'[d] = "NEW"
      BY <1>0, <1>1, <2>3 DEF Create, AcceptedInv, Refusing, Paid, TypeOK
    <3>2. Spent(d)' = 0
      BY <2>1, <2>2, <3>1, FS_EmptySet DEF Spent
    <3> QED BY <2>1, <3>1, <3>2 DEF Paid, TypeOK
  <2>4. CASE d # e
    <3>1. status'[d] = status[d]
      BY <1>1, <2>4 DEF Create, TypeOK
    <3>2. Fresh(d) => Fresh(d)'
      BY <2>1, <3>1 DEF Fresh, Active
    <3> QED BY <1>0, <2>1, <2>2, <3>1, <3>2, PaidKept
  <2> QED BY <2>3, <2>4
<1>2. ASSUME NEW w \in Workers, NEW B \in SUBSET Events, FetchBatch(w, B) \/ FetchLost(w, B)
      PROVE  Paid(d)'
  BY <1>0, <1>2, PaidClaim
<1>3. ASSUME NEW w \in Workers, NEW e \in Events, PublishError(w, e) PROVE Paid(d)'
  BY <1>0, <1>3, PaidRefusal
<1>4. ASSUME NEW w \in Workers, NEW e \in Events, PublishOk(w, e) \/ PublishExpired(w, e)
      PROVE  Paid(d)'
  <2>1. UNCHANGED row /\ left' = left /\ faults' = faults
    BY <1>4 DEF PublishOk, PublishExpired
  <2>2. Refusing(d)' \subseteq Refusing(d)
    BY <1>4, <2>1 DEF PublishOk, PublishExpired, Refusing, TypeOK
  <2>3. \A v \in Workers : Active(v, d) => Active(v, d)'
    BY <1>4, <2>1 DEF PublishOk, PublishExpired, Active, TypeOK
  <2>4. Fresh(d) => Fresh(d)'
    BY <2>1, <2>3 DEF Fresh, row
  <2> QED BY <1>0, <2>1, <2>2, <2>4, PaidKept DEF row
<1>5. ASSUME NEW w \in Workers, NEW e \in Events,
             MarkProcessed(w, e) \/ MarkFailed(w, e) \/ MarkError(w, e) \/ MarkExpired(w, e)
      PROVE  Paid(d)'
  BY <1>0, <1>5, PaidMark
<1>6. ASSUME NEW w \in Workers, Shutdown(w) \/ Crash(w) PROVE Paid(d)'
  <2>1. Refusing(d)' \subseteq Refusing(d)
    BY <1>6 DEF Shutdown, Crash, Refusing, TypeOK
  <2> QED BY <1>0, <1>6, <2>1, PaidKept DEF Shutdown, Crash, Fault, row
<1>7. CASE Delay
  <2>1. Refusing(d)' \subseteq Refusing(d)
    BY <1>7 DEF Delay, Advance, Refusing, TypeOK
  <2> QED BY <1>0, <1>7, <2>1, PaidKept DEF Delay, Advance, Fault
<1>8. CASE Tick
  <2>1. ~Fresh(d)
    BY <1>8 DEF Tick, Idle, Held, Fresh, Active
  <2>2. Refusing(d)' \subseteq Refusing(d)
    BY <1>8 DEF Tick, Advance, Refusing, TypeOK
  <2> QED BY <1>0, <1>8, <2>1, <2>2, PaidKept DEF Tick, Advance
<1>9. CASE UNCHANGED <<row, work, left, faults>>
  <2>1. Refusing(d)' = Refusing(d) /\ (Fresh(d) => Fresh(d)')
    BY <1>9 DEF Refusing, Fresh, Active, row
  <2> QED BY <1>0, <1>9, <2>1, PaidKept DEF row
<1> QED
  BY <1>1, <1>2, <1>3, <1>4, <1>5, <1>6, <1>7, <1>8, <1>9
  DEF Next, Fetch, Handle, Trouble, Land, Stop, Start, vars, row, broker

\* While no clock is off by more than a lease, every attempt of an event beyond
\* its first has a fault of its own, whatever workers take from each other.
THEOREM AttemptsNeedFaults ==
    ASSUME SkewIsShort
    PROVE  Spec => []ReclaimsNeedFaults
<1>1. Init => PaidInv /\ AcceptedInv
  BY DEF Init, PaidInv, Paid, AcceptedInv
<1>2. TypeOK /\ AcceptedInv /\ PaidInv /\ [Next]_vars => PaidInv'
  BY PaidStep
<1>3. PaidInv => ReclaimsNeedFaults
  BY DEF PaidInv, Paid, ReclaimsNeedFaults
<1> QED
  BY <1>1, <1>2, <1>3, AcceptedStep, TypeCorrect, PTL DEF Spec

\* The consumers of Pipeline, with the theorems about them.
CP == INSTANCE ConsumerProofs WITH Bad <- {}, Lengths <- Nat,
                              faults <- troubles, MaxFaults <- MaxTroubles

-----------------------------------------------------------------------------
(* Pipeline: each component behaves as it does alone *)

\* The outbox does not notice its consumers.
THEOREM PipelineRunsOutbox == PipelineSpec => Spec
<1>1. PipelineInit => Init
  BY DEF PipelineInit
<1>2. [PipelineNext]_pipelineVars => [Next]_vars
  BY DEF PipelineNext, Outward, Inward, pipelineVars
<1> QED BY <1>1, <1>2, PTL DEF PipelineSpec, Spec

\* The assumptions of Consumer, for the instance.
LEMMA ConsumerAssumptions == CP!DataAssumption /\ CP!BoundAssumption
  BY GroupAssumption DEF CP!DataAssumption, CP!BoundAssumption

\* Both names of the instance mean the same initial states ...
LEMMA SameInit == C!Init => CP!Init
  BY DEF C!Init, CP!Init, C!NoBatch, CP!NoBatch

\* ... and the same steps of the group and its consumers.
LEMMA SameWork == C!Work => CP!Work
  BY DEF C!Work, CP!Work, C!Assign, CP!Assign, C!Leave, CP!Leave, C!Read, CP!Read,
    C!Poll, CP!Poll, C!CanPoll, CP!CanPoll, C!PollNothing, CP!PollNothing, C!Step, CP!Step,
    C!Trouble, CP!Trouble, C!PollError, CP!PollError, C!GiveUp, CP!GiveUp, C!Reject, CP!Reject,
    C!WasProcessed, CP!WasProcessed, C!RowBusy, CP!RowBusy, C!Handle, CP!Handle,
    C!HandleConflict, CP!HandleConflict, C!Commit, CP!Commit, C!CommitTx, CP!CommitTx,
    C!TxError, CP!TxError, C!CommitLost, CP!CommitLost, C!NextRecord, CP!NextRecord,
    C!CommitRecords, CP!CommitRecords, C!CommitRecordsError, CP!CommitRecordsError,
    C!CommitRefused, CP!CommitRefused, C!Event, CP!Event, C!Fault, CP!Fault,
    C!NoBatch, CP!NoBatch, C!vars, CP!vars, C!tables, CP!tables

\* The consumers leave the log alone, and change the audit by a commit only.
LEMMA WorkFrame ==
    ASSUME C!Work
    PROVE  /\ log' = log
           /\ \/ audit' = audit
              \/ \E c \in Consumers : /\ stage[c] = "inserted"
                                      /\ audit' = [audit EXCEPT ![C!Event(c)] = @ + 1]
  BY DEF C!Work, C!Assign, C!Leave, C!Read, C!Poll, C!PollNothing, C!PollError, C!Step, C!Reject,
    C!WasProcessed, C!Handle, C!HandleConflict, C!CommitTx, C!Commit, C!CommitRecords, C!Trouble,
    C!TxError, C!CommitLost, C!CommitRecordsError, C!CommitRefused, C!vars, C!tables

\* The log is a sequence of events.
LEMMA LogType == PipelineSpec => [](log \in Seq(Events))
<1>1. PipelineInit => log \in Seq(Events)
  BY DEF PipelineInit, C!Init
<1>2. log \in Seq(Events) /\ [PipelineNext]_pipelineVars => (log \in Seq(Events))'
  <2> SUFFICES ASSUME log \in Seq(Events), [PipelineNext]_pipelineVars
               PROVE  log' \in Seq(Events)
    OBVIOUS
  <2>1. CASE Outward(Next)
    BY <2>1 DEF Outward, AppendRecord
  <2>2. CASE Inward(C!Work)
    BY <2>2, WorkFrame DEF Inward
  <2>3. CASE UNCHANGED pipelineVars
    BY <2>3 DEF pipelineVars, topicVars
  <2> QED BY <2>1, <2>2, <2>3 DEF PipelineNext
<1> QED BY <1>1, <1>2, PTL DEF PipelineSpec

\* A step of the pipeline is one of the consumers, a new record on the topic, or
\* nothing that the consumers see.
LEMMA ConsumerStep ==
    ASSUME log \in Seq(Events), [PipelineNext]_pipelineVars
    PROVE  [C!Next]_(C!vars)
<1>1. CASE Outward(Next)
  <2>1. CASE copies' = copies
    BY <1>1, <2>1 DEF Outward, AppendRecord, consumerOnly, C!vars, C!tables
  <2>2. CASE copies' # copies
    <3>1. PICK e \in Events : log' = Append(log, e)
      BY <1>1, <2>2 DEF Outward, AppendRecord
    <3>2. C!Append1(e)
      BY <1>1, <3>1 DEF Outward, consumerOnly, C!Append1, C!tables
    <3> QED BY <3>2 DEF C!Next
  <2> QED BY <2>1, <2>2
<1>2. CASE Inward(C!Work)
  BY <1>2 DEF Inward, C!Next
<1>3. CASE UNCHANGED pipelineVars
  BY <1>3 DEF pipelineVars, topicVars, C!vars, C!tables
<1> QED BY <1>1, <1>2, <1>3 DEF PipelineNext

\* The consumers do not notice where their records come from.
THEOREM PipelineRunsConsumer == PipelineSpec => C!Spec
<1>1. PipelineInit => C!Init
  BY DEF PipelineInit
<1> QED BY <1>1, ConsumerStep, LogType, PTL DEF PipelineSpec, C!Spec

\* Both names mean the same behaviours.
LEMMA SameSpec == C!Spec => CP!Spec
<1>1. [C!Next]_(C!vars) => [CP!Next]_(CP!vars)
  <2>1. C!vars' = C!vars => CP!vars' = CP!vars
    BY DEF C!vars, CP!vars, C!tables, CP!tables
  <2>2. \A e \in Events : C!Append1(e) => CP!Append1(e)
    BY DEF C!Append1, CP!Append1, C!tables, CP!tables
  <2> QED BY <2>1, <2>2, SameWork DEF C!Next, CP!Next
<1> QED BY <1>1, SameInit, PTL DEF C!Spec, CP!Spec

\* An event is audited at most once in the pipeline, too.
LEMMA PipelineAuditsOnce == PipelineSpec => [](CP!TypeOK /\ CP!AuditedOnce /\ CP!AuditMatchesProcessed)
  BY SameSpec, PipelineRunsConsumer, ConsumerAssumptions, CP!TypeCorrect, CP!AuditIsIdempotent, PTL

-----------------------------------------------------------------------------
(* The outbox and the consumers within their leases *)

\* Two workers never work on one event within their deadlines, whatever the
\* consumers do, if the lease covers the deadline.
THEOREM PipelineLeases ==
    ASSUME LeaseCovers
    PROVE  PipelineSpec => []NoSharedEvent
  BY PipelineRunsOutbox, LeaseProtectsWork, PTL

-----------------------------------------------------------------------------
(* Refinement of Delivery *)

\* A step of the outbox accepts one event, or none.
LEMMA AcceptedFrame ==
    ASSUME TypeOK, Next
    PROVE  \/ \E e \in Events : e \notin Accepted /\ Accepted' = Accepted \cup {e}
           \/ Accepted' = Accepted
<1>1. ASSUME NEW e \in Events, Create(e)
      PROVE  e \notin Accepted /\ Accepted' = Accepted \cup {e}
  BY <1>1 DEF Create, Accepted, TypeOK
<1>2. ASSUME \A e \in Events : status'[e] = "ABSENT" <=> status[e] = "ABSENT"
      PROVE  Accepted' = Accepted
  BY <1>2 DEF Accepted
<1>3. CASE UNCHANGED status
  BY <1>2, <1>3
<1>4. ASSUME NEW w \in Workers, NEW B \in SUBSET Events, ClaimSome(w, B)
      PROVE  Accepted' = Accepted
  <2>1. \A e \in Events : status'[e] = "ABSENT" <=> status[e] = "ABSENT"
    BY <1>4, BatchIsOpen DEF ClaimSome, Claim
  <2> QED BY <1>2, <2>1
<1>5. ASSUME NEW w \in Workers, NEW e \in Events, MarkProcessed(w, e) \/ MarkFailed(w, e)
      PROVE  Accepted' = Accepted
  <2>1. \A d \in Events : status'[d] = "ABSENT" <=> status[d] = "ABSENT"
    BY <1>5 DEF MarkProcessed, MarkFailed, TypeOK
  <2> QED BY <1>2, <2>1
<1> QED
  BY <1>1, <1>3, <1>4, <1>5
  DEF Next, Fetch, FetchBatch, FetchLost, Handle, Trouble, Land, PublishOk, PublishError,
    PublishExpired, MarkError, MarkExpired, Shutdown, Stop, Crash, Start, Advance, Tick, Delay, row

\* A record that is counted belongs to an event in a worker's or the broker's
\* hands.
LEMMA CountedIsAccepted ==
    ASSUME TypeOK, AcceptedInv, Next, copies' # copies,
           NEW e \in Events, copies'[e] = copies[e] + 1
    PROVE  e \in Accepted
<1>1. \E d \in Events : /\ copies' = [copies EXCEPT ![d] = @ + 1]
                        /\ \/ inflight[d] > 0
                           \/ \E w \in Workers : work[w][d] # "none"
  BY DEF Next, Create, Land, Fetch, FetchBatch, Handle, Trouble, FetchLost, PublishOk, PublishError,
    PublishExpired, Turn, MarkProcessed, MarkFailed, MarkError, MarkExpired, Shutdown, Stop, Crash,
    Start, Advance, Tick, Delay, broker
<1>2. PICK d \in Events : /\ copies' = [copies EXCEPT ![d] = @ + 1]
                          /\ \/ inflight[d] > 0
                             \/ \E w \in Workers : work[w][d] # "none"
  BY <1>1
<1>3. d = e
  BY <1>2 DEF TypeOK
<1> QED BY <1>2, <1>3 DEF AcceptedInv, Accepted

\* The log holds accepted events only.
LogAccepted == \A i \in 1..Len(log) : log[i] \in Accepted

\* A record is appended by the publication of an event whose row is committed.
LEMMA LogAcceptedStep ==
    TypeOK /\ AcceptedInv /\ log \in Seq(Events) /\ LogAccepted /\ [PipelineNext]_pipelineVars
    => LogAccepted'
<1> SUFFICES ASSUME TypeOK, AcceptedInv, log \in Seq(Events), LogAccepted,
                    [PipelineNext]_pipelineVars
             PROVE  LogAccepted'
  OBVIOUS
<1>1. CASE Outward(Next)
  <2>1. Accepted \subseteq Accepted'
    BY <1>1, AcceptedFrame DEF Outward
  <2>2. CASE log' = log
    BY <2>1, <2>2 DEF LogAccepted
  <2>3. CASE copies' # copies
    <3>1. PICK e \in Events : copies'[e] = copies[e] + 1 /\ log' = Append(log, e)
      BY <1>1, <2>3 DEF Outward, AppendRecord
    <3>2. e \in Accepted
      BY <1>1, <2>3, <3>1, CountedIsAccepted DEF Outward
    <3> QED BY <2>1, <3>1, <3>2 DEF LogAccepted
  <2> QED BY <1>1, <2>2, <2>3 DEF Outward, AppendRecord
<1>2. CASE Inward(C!Work)
  BY <1>2, WorkFrame DEF Inward, LogAccepted, Accepted, vars
<1>3. CASE UNCHANGED pipelineVars
  BY <1>3 DEF pipelineVars, topicVars, LogAccepted, Accepted, vars
<1> QED BY <1>1, <1>2, <1>3 DEF PipelineNext

\* A commit of a consumer is the audit of an accepted event that has no row.
LEMMA CommitIsAudit ==
    ASSUME LogAccepted, CP!TypeOK, CP!AuditedOnce', NEW c \in Consumers,
           stage[c] = "inserted", audit' = [audit EXCEPT ![C!Event(c)] = @ + 1],
           UNCHANGED Accepted
    PROVE  \E e \in Events : Promised!Audit(e)
<1>1. batch[c].cur \in 1..Len(log) /\ CP!Event(c) \in Events
  BY ConsumerAssumptions, CP!EventInLog
<1>2. C!Event(c) = CP!Event(c) /\ C!Event(c) \in Accepted
  BY <1>1 DEF C!Event, CP!Event, LogAccepted
<1>3. PICK e \in Events : e = C!Event(c) /\ e \in Accepted
  BY <1>1, <1>2
<1>4. audit' = [audit EXCEPT ![e] = @ + 1] /\ audit \in [Events -> Nat]
  BY <1>3 DEF CP!TypeOK
<1>5. audit'[e] <= 1
  BY DEF CP!AuditedOnce
<1>6. audit[e] = 0
  <2>1. audit'[e] = audit[e] + 1
    BY <1>4
  <2> QED BY <1>4, <1>5, <2>1
<1>7. audit' = [audit EXCEPT ![e] = 1]
  <2>1. audit[e] + 1 = 1
    BY <1>6
  <2> QED BY <1>4, <2>1, Zenon
<1> QED BY <1>3, <1>6, <1>7 DEF Promised!Audit

\* The commit of a row accepts its event, the commit of a consumer's transaction
\* audits it, and no other step shows.
LEMMA DeliveryStep ==
    ASSUME TypeOK, AcceptedInv, LogAccepted, CP!TypeOK, CP!AuditedOnce',
           [PipelineNext]_pipelineVars
    PROVE  [Promised!Next]_(Promised!deliveryVars)
<1>1. CASE Outward(Next)
  <2>1. audit' = audit
    BY <1>1 DEF Outward, consumerOnly
  <2>2. ASSUME NEW e \in Events, e \notin Accepted, Accepted' = Accepted \cup {e}
        PROVE  Promised!Accept(e)
    BY <2>1, <2>2 DEF Promised!Accept
  <2> QED BY <1>1, <2>1, <2>2, AcceptedFrame DEF Outward, Promised!Next, Promised!deliveryVars
<1>2. CASE Inward(C!Work)
  <2>1. Accepted' = Accepted
    BY <1>2 DEF Inward, vars, Accepted
  <2> QED BY <1>2, <2>1, WorkFrame, CommitIsAudit DEF Inward, Promised!Next, Promised!deliveryVars
<1>3. CASE UNCHANGED pipelineVars
  BY <1>3 DEF pipelineVars, topicVars, vars, Accepted, Promised!deliveryVars
<1> QED BY <1>1, <1>2, <1>3 DEF PipelineNext

\* The service implements Delivery: only committed events are audited, each at
\* most once, and audit rows stay, for any number of processes, with any lease.
THEOREM PipelineDelivers == PipelineSpec => KeepsDelivery
<1>1. PipelineInit => Promised!Init /\ LogAccepted
  BY DEF PipelineInit, Init, C!Init, Accepted, LogAccepted, Promised!Init
<1>2. Init => AcceptedInv
  BY DEF Init, AcceptedInv
<1>3. PipelineSpec => [](TypeOK /\ AcceptedInv)
  BY <1>2, AcceptedStep, TypeCorrect, PipelineRunsOutbox, PTL DEF Spec
<1>4. PipelineSpec => []LogAccepted
  BY <1>1, <1>3, LogType, LogAcceptedStep, PTL DEF PipelineSpec
<1> QED
  BY <1>1, <1>3, <1>4, DeliveryStep, PipelineAuditsOnce, PTL
  DEF PipelineSpec, KeepsDelivery, Promised!Spec
-----------------------------------------------------------------------------
(* Nothing is given up without a fault *)

\* Without a fault no publish is refused: a batch is worked off before its
\* deadline.
CalmOutbox ==
    faults = 0 =>
        \A e \in Events :
            /\ status[e] # "FAILED"
            /\ \A w \in Workers : /\ work[w][e] # "refused"
                                  /\ work[w][e] = "fetched" => left[w] > 0

\* Only a fault makes a worker refuse, or run out of time over, what it has claimed.
LEMMA CalmOutboxStep == TypeOK /\ CalmOutbox /\ [Next]_vars => CalmOutbox'
<1> SUFFICES ASSUME TypeOK, CalmOutbox, [Next]_vars, faults' = 0, NEW d \in Events
             PROVE  /\ status'[d] # "FAILED"
                    /\ \A v \in Workers : /\ work'[v][d] # "refused"
                                          /\ work'[v][d] = "fetched" => left'[v] > 0
  BY DEF CalmOutbox
<1> DEFINE Goal == /\ status'[d] # "FAILED"
                   /\ \A v \in Workers : /\ work'[v][d] # "refused"
                                         /\ work'[v][d] = "fetched" => left'[v] > 0
<1>1. ~Fault
  BY DEF Fault, TypeOK
<1>2. CASE faults' = faults
  <2>0. \A e \in Events :
            /\ status[e] # "FAILED"
            /\ \A v \in Workers : /\ work[v][e] # "refused"
                                  /\ work[v][e] = "fetched" => left[v] > 0
    BY <1>2 DEF CalmOutbox
  <2>1. ASSUME NEW e \in Events, Create(e) \/ Land(e) PROVE Goal
    BY <2>0, <2>1 DEF Create, Land, TypeOK, row
  <2>2. ASSUME NEW w \in Workers, NEW B \in SUBSET Events, FetchBatch(w, B) PROVE Goal
    BY <2>0, <2>2, ConfigAssumption DEF FetchBatch, ClaimSome, Claim, TypeOK
  <2>3. ASSUME NEW w \in Workers, NEW e \in Events, PublishOk(w, e) PROVE Goal
    BY <2>0, <2>3 DEF PublishOk, TypeOK, row
  <2>4. \A w \in Workers, e \in Events : ~PublishExpired(w, e) /\ ~MarkFailed(w, e)
    BY <2>0 DEF PublishExpired, MarkFailed, Turn, TypeOK
  <2>5. ASSUME NEW w \in Workers, NEW e \in Events, MarkProcessed(w, e) \/ MarkExpired(w, e)
        PROVE Goal
    <3>1. Release(w, e) /\ status' \in {status, [status EXCEPT ![e] = "PROCESSED"]}
      BY <2>5 DEF MarkProcessed, MarkExpired, row
    <3>2. ASSUME work'[w][d] = "fetched" PROVE left'[w] > 0
      <4>1. d # e /\ work[w][d] = "fetched" /\ Held(w) # {e}
        BY <3>1, <3>2 DEF Release, Held, TypeOK
      <4> QED BY <2>0, <3>1, <4>1 DEF Release, TypeOK
    <3> QED BY <2>0, <3>1, <3>2 DEF Release, TypeOK
  <2>6. ASSUME NEW w \in Workers, Stop(w) \/ Start(w) PROVE Goal
    BY <2>0, <2>6 DEF Stop, Start, row
  <2>7. CASE Tick
    BY <2>0, <2>7 DEF Tick, Idle, Held, Advance
  <2>8. CASE UNCHANGED vars
    BY <2>0, <2>8 DEF vars
  <2> QED
    BY <1>1, <2>1, <2>2, <2>3, <2>4, <2>5, <2>6, <2>7, <2>8
    DEF Next, Fetch, Handle, Trouble, FetchLost, PublishError, MarkError, Shutdown, Crash, Delay
<1>3. faults' = faults
  BY <1>1 DEF Next, Create, Land, Fetch, FetchBatch, Handle, PublishOk, PublishExpired,
    MarkProcessed, MarkFailed, MarkExpired, Trouble, FetchLost, PublishError, MarkError, Shutdown,
    Crash, Stop, Start, Tick, Delay, vars
<1> QED BY <1>2, <1>3

\* One consumer has read the partition, if any.
Alone == \A c, d \in readers : c = d

\* Without a fault, a consumer that is alone skips nothing: it works only while the
\* partition is its own, and on unaudited events only.
CalmGroup ==
    troubles = 0 /\ Alone =>
        /\ skipped = {}
        /\ owner # Nobody => owner \in readers
        /\ \A c \in Consumers :
              /\ stage[c] # "idle" => c \in readers /\ owner = c
              /\ stage[c] = "handle" => audit[log[batch[c].cur]] = 0

\* A lone consumer begins again where it has committed, and meets no insert but its own.
LEMMA CalmGroupStep ==
    ASSUME CP!TypeOK, CP!AuditMatchesProcessed, CalmGroup, [PipelineNext]_pipelineVars
    PROVE  CalmGroup'
<1> SUFFICES ASSUME troubles' = 0, Alone'
             PROVE  /\ skipped' = {}
                    /\ owner' # Nobody => owner' \in readers'
                    /\ \A c \in Consumers :
                          /\ stage'[c] # "idle" => c \in readers' /\ owner' = c
                          /\ stage'[c] = "handle" => audit'[log'[batch'[c].cur]] = 0
  BY DEF CalmGroup
<1> DEFINE Goal == /\ skipped' = {}
                   /\ owner' # Nobody => owner' \in readers'
                   /\ \A c \in Consumers :
                         /\ stage'[c] # "idle" => c \in readers' /\ owner' = c
                         /\ stage'[c] = "handle" => audit'[log'[batch'[c].cur]] = 0
<1>1. CASE Outward(Next)
  <2>1. UNCHANGED consumerOnly /\ readers' = readers
    BY <1>1 DEF Outward
  <2>2. \A c \in Consumers : stage[c] # "idle" => log'[batch[c].cur] = log[batch[c].cur]
    <3>1. \A c \in Consumers : stage[c] # "idle" => batch[c].cur \in 1..Len(log)
      BY ConsumerAssumptions, CP!EventInLog
    <3>2. log' = log \/ \E e \in Events : log' = Append(log, e)
      BY <1>1 DEF Outward, AppendRecord
    <3> QED BY <3>1, <3>2 DEF CP!TypeOK
  <2>3. Goal
    BY <2>1, <2>2 DEF consumerOnly, CalmGroup, Alone
  <2> QED BY <2>3
<1>2. CASE Inward(C!Work)
  <2>1. /\ readers' = readers \cup ({owner'} \ {Nobody})
        /\ C!Work
    BY <1>2 DEF Inward
  <2>2. ~C!Fault /\ troubles = 0
    <3>1. troubles \in Nat
      BY DEF CP!TypeOK
    <3>2. troubles' = troubles \/ C!Fault
      BY <2>1 DEF C!Work, C!Assign, C!Leave, C!Read, C!Poll, C!PollNothing, C!PollError, C!Step,
        C!Reject, C!WasProcessed, C!Handle, C!HandleConflict, C!CommitTx, C!CommitRecords,
        C!Trouble, C!TxError, C!CommitLost, C!CommitRecordsError, C!CommitRefused, C!vars
    <3> QED BY <3>1, <3>2 DEF C!Fault
  <2>3. /\ skipped = {}
        /\ owner # Nobody => owner \in readers
        /\ \A c \in Consumers :
              /\ stage[c] # "idle" => c \in readers /\ owner = c
              /\ stage[c] = "handle" => audit[log[batch[c].cur]] = 0
    BY <2>1, <2>2 DEF CalmGroup, Alone
  <2>4. /\ stage \in [Consumers -> C!Stages] /\ log' = log
        /\ batch \in [Consumers -> [cur : Nat, last : Nat]]
    BY <2>1, WorkFrame DEF CP!TypeOK, CP!Stages, C!Stages
  <2>5. ASSUME NEW c \in Consumers, C!Assign(c) PROVE Goal
    <3>1. c \in readers' /\ owner' = c /\ c # Nobody /\ owner # c
      BY <2>1, <2>5, GroupAssumption DEF C!Assign
    <3>2. \A d \in Consumers : stage[d] = "idle"
      BY <2>1, <2>3, <3>1 DEF Alone
    <3> QED BY <2>3, <2>5, <3>1, <3>2 DEF C!Assign
  <2>6. ASSUME NEW c \in Consumers, C!Leave(c) PROVE Goal
    <3>1. \A d \in Consumers : stage'[d] = "idle"
      BY <2>3, <2>4, <2>6 DEF C!Leave
    <3> QED BY <2>1, <2>3, <2>6, <3>1 DEF C!Leave
  <2>7. ASSUME NEW c \in Consumers, C!Read(c) PROVE Goal
    <3>1. PICK n \in Nat : C!Poll(c, n)
      BY <2>7 DEF C!Read
    <3>2. owner = c /\ owner' = c /\ c \in readers /\ c # Nobody
      BY <2>3, <3>1, GroupAssumption DEF C!Poll, C!CanPoll
    <3> QED BY <2>1, <2>3, <2>4, <3>1, <3>2 DEF C!Poll, C!CanPoll
  <2>8. ASSUME NEW c \in Consumers, C!PollNothing(c) PROVE Goal
    BY <2>1, <2>3, <2>8 DEF C!PollNothing, C!vars, C!tables
  <2>9. ASSUME NEW c \in Consumers, C!Step(c) PROVE Goal
    <3>1. stage[c] # "idle" /\ owner = c /\ owner' = c /\ c \in readers /\ c # Nobody
      <4>1. stage[c] # "idle" /\ owner' = owner
        BY <2>9 DEF C!Step, C!Reject, C!WasProcessed, C!Handle, C!HandleConflict, C!CommitTx,
          C!CommitRecords
      <4> QED BY <2>3, <4>1, GroupAssumption
    <3>2. readers' = readers
      BY <2>1, <3>1
    <3>3. \A d \in Consumers : d # c => stage[d] = "idle"
      BY <2>3, <3>1
    <3>4. ASSUME skipped' = skipped, batch' = batch,
                 NEW s \in C!Stages, stage' = [stage EXCEPT ![c] = s],
                 s = "handle" => audit'[log[batch[c].cur]] = 0
          PROVE  Goal
      BY <2>3, <2>4, <3>1, <3>2, <3>3, <3>4
    <3>5. ASSUME C!WasProcessed(c) PROVE Goal
      <4>1. C!Event(c) \notin processed => audit[log[batch[c].cur]] = 0
        <5>1. CP!Event(c) \in Events
          BY <3>1, ConsumerAssumptions, CP!EventInLog
        <5> QED BY <5>1 DEF CP!AuditMatchesProcessed, CP!TypeOK, C!Event, CP!Event
      <4>2. CASE C!Event(c) \in processed
        BY <3>4, <3>5, <4>2 DEF C!WasProcessed, C!Stages
      <4>3. CASE C!Event(c) \notin processed
        BY <3>4, <3>5, <4>1, <4>3 DEF C!WasProcessed, C!tables, C!Stages
      <4> QED BY <4>2, <4>3
    <3>6. ASSUME C!Handle(c) PROVE Goal
      BY <3>4, <3>6 DEF C!Handle, C!Stages
    <3>7. ASSUME C!CommitTx(c) PROVE Goal
      BY <3>4, <3>7 DEF C!CommitTx, C!Stages
    <3>8. ASSUME C!CommitRecords(c) PROVE Goal
      <4>1. stage' \in {[stage EXCEPT ![c] = "check"], [stage EXCEPT ![c] = "idle"]}
        BY <3>8 DEF C!CommitRecords, C!NextRecord
      <4>2. \A d \in Consumers : stage'[d] # "handle" /\ (stage'[d] # "idle" => d = c)
        BY <2>4, <3>3, <4>1
      <4> QED BY <2>3, <3>1, <3>2, <3>8, <4>2 DEF C!CommitRecords
    <3>9. ~C!Reject(c)
      BY DEF C!Reject
    <3>10. ~C!HandleConflict(c)
      BY <2>3 DEF C!HandleConflict, C!Event
    <3> QED BY <2>9, <3>5, <3>6, <3>7, <3>8, <3>9, <3>10 DEF C!Step
  <2>10. \A c \in Consumers : ~C!Trouble(c)
    BY <2>2, <2>3 DEF C!Trouble, C!PollError, C!TxError, C!CommitLost, C!CommitRecordsError,
      C!CommitRefused
  <2> QED BY <2>1, <2>5, <2>6, <2>7, <2>8, <2>9, <2>10 DEF C!Work
<1>3. CASE UNCHANGED pipelineVars
  BY <1>3 DEF pipelineVars, topicVars, CalmGroup, Alone
<1> QED BY <1>1, <1>2, <1>3 DEF PipelineNext

\* Without a fault, and with one consumer that may be restarted at any time, no
\* event is given up, neither by the outbox nor by the consumer.
THEOREM DropsNeedFaults == PipelineSpec => []DropNeedsFault
<1>1. Init => CalmOutbox
  BY DEF Init, CalmOutbox
<1>2. PipelineSpec => []CalmOutbox
  BY <1>1, CalmOutboxStep, TypeCorrect, PipelineRunsOutbox, PTL DEF Spec
<1>3. PipelineInit => CalmGroup
  BY GroupAssumption DEF PipelineInit, C!Init, CalmGroup
<1>4. PipelineSpec => []CalmGroup
  BY <1>3, CalmGroupStep, PipelineAuditsOnce, PTL DEF PipelineSpec
<1>5. TypeOK /\ CP!TypeOK /\ CalmOutbox /\ CalmGroup => DropNeedsFault
  <2> SUFFICES ASSUME TypeOK, CP!TypeOK, CalmOutbox, CalmGroup, Alone, ~(faults + troubles > 0)
               PROVE  GivenUp = {}
    BY DEF Alone, DropNeedsFault
  <2>1. faults = 0 /\ troubles = 0
    BY BoundAssumption, GroupAssumption DEF TypeOK, CP!TypeOK
  <2>2. skipped = {} /\ \A e \in Events : status[e] # "FAILED"
    BY <2>1 DEF CalmOutbox, CalmGroup
  <2> QED BY <2>2 DEF GivenUp
<1> QED
  BY <1>2, <1>4, <1>5, TypeCorrect, PipelineRunsOutbox, PipelineAuditsOnce, PTL

-----------------------------------------------------------------------------
(* The topic between the two *)

\* Where the topic has a record of e.
OnTopic(e) == {i \in 1..Len(log) : log[i] = e}

\* What the outbox counts is what the topic holds.
TopicAgrees == \A e \in Events : Cardinality(OnTopic(e)) = copies[e]

\* The records of an event on the topic are paid for by its attempts.
RecordsWithinAttempts == \A e \in Events : Cardinality(OnTopic(e)) <= attempts[e]

\* Every record of an event beyond the first is the consequence of a fault.
RecordsNeedFaults == \A e \in Events : Cardinality(OnTopic(e)) <= faults + 1

\* Between the two components no event is lost: one that the outbox has settled
\* is on the topic, and each of its records is audited or given up unless the
\* group has still to commit it.
SettledIsOnItsWay ==
    \A e \in Events : status[e] = "PROCESSED" =>
        /\ OnTopic(e) # {}
        /\ \A i \in OnTopic(e) : i <= committed => audit[e] = 1 \/ i \in skipped

\* The places of an event on the topic are counted by a number.
LEMMA OnTopicFinite ==
    ASSUME log \in Seq(Events), NEW e
    PROVE  IsFiniteSet(OnTopic(e)) /\ Cardinality(OnTopic(e)) \in Nat
<1>1. Len(log) \in Nat
  OBVIOUS
<1>2. IsFiniteSet(1..Len(log))
  BY <1>1, FS_Interval
<1>3. OnTopic(e) \in SUBSET (1..Len(log))
  BY DEF OnTopic
<1>4. IsFiniteSet(OnTopic(e))
  BY <1>2, <1>3, FS_Subset
<1> QED BY <1>4, FS_CardinalityType

\* A step of the outbox counts one more copy of one event, or none.
LEMMA OneCopy ==
    ASSUME Next, copies' # copies
    PROVE  \E d \in Events : copies' = [copies EXCEPT ![d] = @ + 1]
  BY DEF Next, Create, Land, Fetch, FetchBatch, Handle, Trouble, FetchLost, PublishOk, PublishError,
    PublishExpired, MarkProcessed, MarkFailed, MarkError, MarkExpired, Shutdown, Stop, Crash,
    Start, Advance, Tick, Delay, broker

\* A record more on the topic is one place more of its event.
LEMMA OnTopicAppend ==
    ASSUME log \in Seq(Events), NEW e \in Events, log' = Append(log, e)
    PROVE  /\ Cardinality(OnTopic(e)') = Cardinality(OnTopic(e)) + 1
           /\ \A d \in Events \ {e} : OnTopic(d)' = OnTopic(d)
<1>1. /\ Len(log) \in Nat /\ Len(log') = Len(log) + 1
      /\ \A i \in 1..Len(log) : log'[i] = log[i]
      /\ log'[Len(log) + 1] = e
  OBVIOUS
<1>2. /\ OnTopic(e)' = OnTopic(e) \cup {Len(log) + 1}
      /\ Len(log) + 1 \notin OnTopic(e)
  BY <1>1 DEF OnTopic
<1>3. Cardinality(OnTopic(e) \cup {Len(log) + 1}) = Cardinality(OnTopic(e)) + 1
  BY <1>2, OnTopicFinite, FS_AddElement
<1>4. \A d \in Events \ {e} : OnTopic(d)' = OnTopic(d)
  BY <1>1 DEF OnTopic
<1> QED BY <1>2, <1>3, <1>4

\* The step that counts a copy is the step that appends its record.
LEMMA TopicStep ==
    TypeOK /\ log \in Seq(Events) /\ TopicAgrees /\ [PipelineNext]_pipelineVars => TopicAgrees'
<1> SUFFICES ASSUME TypeOK, log \in Seq(Events), TopicAgrees, [PipelineNext]_pipelineVars
             PROVE  TopicAgrees'
  OBVIOUS
<1>1. ASSUME copies' = copies, log' = log PROVE TopicAgrees'
  BY <1>1 DEF TopicAgrees, OnTopic
<1>2. CASE Outward(Next) /\ copies' # copies
  <2>1. PICK e \in Events : copies'[e] = copies[e] + 1 /\ log' = Append(log, e)
    BY <1>2 DEF Outward, AppendRecord
  <2>2. PICK d \in Events : copies' = [copies EXCEPT ![d] = @ + 1]
    BY <1>2, OneCopy DEF Outward
  <2>3. d = e /\ \A x \in Events \ {e} : copies'[x] = copies[x]
    BY <2>1, <2>2 DEF TypeOK
  <2> QED BY <2>1, <2>3, OnTopicAppend DEF TopicAgrees
<1>3. CASE Outward(Next) /\ copies' = copies
  BY <1>1, <1>3 DEF Outward, AppendRecord
<1>4. CASE Inward(C!Work)
  BY <1>1, <1>4, WorkFrame DEF Inward, vars
<1>5. CASE UNCHANGED pipelineVars
  BY <1>1, <1>5 DEF pipelineVars, topicVars, vars
<1> QED BY <1>2, <1>3, <1>4, <1>5 DEF PipelineNext

\* The counter of the outbox and the topic agree always.
LEMMA TopicInvariant == PipelineSpec => []TopicAgrees
<1>1. PipelineInit => TopicAgrees
  <2> SUFFICES ASSUME PipelineInit, NEW e \in Events PROVE Cardinality(OnTopic(e)) = copies[e]
    BY DEF TopicAgrees
  <2>1. OnTopic(e) = {} /\ copies[e] = 0
    BY DEF PipelineInit, Init, C!Init, OnTopic
  <2> QED BY <2>1, FS_EmptySet
<1> QED
  BY <1>1, TopicStep, LogType, TypeCorrect, PipelineRunsOutbox, PTL DEF PipelineSpec

\* However workers crash, stall or take claims from each other, the topic has no
\* more records of an event than its row counts attempts.
THEOREM RecordsCounted == PipelineSpec => []RecordsWithinAttempts
<1>1. TopicAgrees /\ CopiesWithinAttempts => RecordsWithinAttempts
  BY DEF TopicAgrees, CopiesWithinAttempts, RecordsWithinAttempts
<1> QED BY <1>1, TopicInvariant, DuplicatesCounted, PipelineRunsOutbox, PTL

\* While no clock is off by more than a lease, each record of an event beyond
\* its first has a fault of the outbox to blame; with none it has one record.
THEOREM DuplicatesNeedFaults ==
    ASSUME SkewIsShort
    PROVE  PipelineSpec => []RecordsNeedFaults
<1>1. TypeOK /\ log \in Seq(Events) /\ RecordsWithinAttempts /\ ReclaimsNeedFaults
      => RecordsNeedFaults
  BY OnTopicFinite, BoundAssumption
  DEF TypeOK, RecordsWithinAttempts, ReclaimsNeedFaults, RecordsNeedFaults
<1> QED
  BY <1>1, RecordsCounted, LogType, TypeCorrect, AttemptsNeedFaults, PipelineRunsOutbox, PTL

\* The consumers account for what they commit in the pipeline, too.
LEMMA PipelineAccounts == PipelineSpec => []CP!CommittedIsAccounted
  BY SameSpec, PipelineRunsConsumer, ConsumerAssumptions, CP!CommitsAreAccounted, PTL

\* No event is lost between the commit of its row and its audit, through any
\* crash, retry, redelivery or reassignment on either side: what the outbox has
\* settled is on the topic, and what the group has committed is audited or given
\* up.
THEOREM NothingLostOnTheWay == PipelineSpec => []SettledIsOnItsWay
<1>1. /\ TypeOK /\ ProcessedWasPublished /\ TopicAgrees
      /\ CP!TypeOK /\ CP!AuditedOnce /\ CP!AuditMatchesProcessed /\ CP!CommittedIsAccounted
      => SettledIsOnItsWay
  <2> SUFFICES ASSUME TypeOK, ProcessedWasPublished, TopicAgrees, CP!TypeOK, CP!AuditedOnce,
                      CP!AuditMatchesProcessed, CP!CommittedIsAccounted,
                      NEW e \in Events, status[e] = "PROCESSED"
               PROVE  /\ OnTopic(e) # {}
                      /\ \A i \in OnTopic(e) : i <= committed => audit[e] = 1 \/ i \in skipped
    BY DEF SettledIsOnItsWay
  <2>1. OnTopic(e) # {}
    <3>1. Cardinality(OnTopic(e)) > 0
      BY DEF ProcessedWasPublished, TopicAgrees
    <3> QED BY <3>1, FS_EmptySet
  <2>2. ASSUME NEW i \in OnTopic(e), i <= committed, i \notin skipped PROVE audit[e] = 1
    <3>1. i \in 1..committed /\ log[i] = e
      BY <2>2 DEF OnTopic, CP!TypeOK
    <3>2. audit[e] > 0
      BY <2>2, <3>1 DEF CP!CommittedIsAccounted, CP!AuditMatchesProcessed
    <3> QED BY <3>2 DEF CP!AuditedOnce, CP!TypeOK
  <2> QED BY <2>1, <2>2
<1> QED
  BY <1>1, TypeCorrect, NoEventLost, PipelineRunsOutbox, TopicInvariant, PipelineAuditsOnce,
     PipelineAccounts, PTL
=============================================================================

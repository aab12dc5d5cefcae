-------------------------- MODULE UserCacheProofs --------------------------
(***************************************************************************)
(* Theorems about UserCache, for every time to live, bound on reads, and   *)
(* set of readers and writers.                                             *)
(***************************************************************************)
EXTENDS UserCache, TLAPS

-----------------------------------------------------------------------------
(* Type correctness *)

\* Every step of a call and every tick keeps the types.
LEMMA TypeStep == TypeOK /\ [Next]_vars => TypeOK'
<1> SUFFICES ASSUME TypeOK, [Next]_vars PROVE TypeOK'
  OBVIOUS
<1> USE TTLAssumption, ReadAssumption, BoundAssumption
<1>1. ASSUME NEW r \in Readers, GetHit(r) PROVE TypeOK'
  BY <1>1 DEF GetHit, vars, table, key, reads, writes, TypeOK, Versions
<1>2. ASSUME NEW r \in Readers, GetMiss(r) PROVE TypeOK'
  BY <1>2 DEF GetMiss, table, key, reads, writes, TypeOK, Versions
<1>3. ASSUME NEW r \in Readers, GetError(r) PROVE TypeOK'
  BY <1>3 DEF GetError, Fault, table, key, reads, writes, TypeOK, Versions
<1>4. ASSUME NEW r \in Readers, Find(r) PROVE TypeOK'
  BY <1>4 DEF Find, table, key, reads, writes, TypeOK, Versions
<1>5. ASSUME NEW r \in Readers, Store(r) PROVE TypeOK'
  BY <1>5 DEF Store, Forget, table, key, reads, writes, TypeOK, Versions
<1>6. ASSUME NEW r \in Readers, ReadError(r) PROVE TypeOK'
  BY <1>6 DEF ReadError, Forget, Fault, table, key, reads, writes, TypeOK, Versions
<1>7. ASSUME NEW w \in Writers, NEW last \in BOOLEAN, Write(w, last) PROVE TypeOK'
  BY <1>7 DEF Write, table, key, reads, writes, TypeOK, Versions
<1>8. ASSUME NEW w \in Writers, Invalidate(w) PROVE TypeOK'
  BY <1>8 DEF Invalidate, NoKey, table, key, reads, writes, TypeOK, Versions
<1>9. ASSUME NEW w \in Writers, InvalidateLost(w) PROVE TypeOK'
  BY <1>9 DEF InvalidateLost, Fault, table, key, reads, writes, TypeOK, Versions
<1>10. CASE Evict
  BY <1>10 DEF Evict, NoKey, Fault, table, key, reads, writes, TypeOK, Versions
<1>11. CASE Tick
  BY <1>11 DEF Tick, Expiry, NoKey, table, key, reads, writes, TypeOK, Versions
<1>12. CASE UNCHANGED vars
  BY <1>12 DEF vars, table, key, reads, writes, TypeOK, Versions
<1> QED
  BY <1>1, <1>2, <1>3, <1>4, <1>5, <1>6, <1>7, <1>8, <1>9, <1>10, <1>11, <1>12 DEF Next, Get, Read, Change

\* The types hold throughout every behaviour; no copy is newer than the row.
THEOREM TypeCorrect == Spec => []TypeOK
<1>1. Init => gone \in BOOLEAN
  BY DEF Init
<1>2. Init => TypeOK
  BY <1>1, TTLAssumption, ReadAssumption, BoundAssumption DEF Init, TypeOK, Versions
<1> QED
  BY <1>2, TypeStep, PTL DEF Spec

-----------------------------------------------------------------------------
(* Bounded staleness *)

\* A copy in a reader's hands is behind for no longer than it is held, a cached
\* one for no longer than it was held and has been cached.
AgeInv ==
    /\ \A r \in Readers : behind[r] <= IF stage[r] = "read" THEN held[r] ELSE 0
    /\ cached # 0 => lag + life <= TTL + ReadTime

\* Only time makes copies older, and it takes as much of the time to live.
LEMMA AgeStep ==
    ASSUME TypeOK, AgeInv, [Next]_vars
    PROVE  AgeInv'
<1> USE TTLAssumption, ReadAssumption
<1>1. ASSUME NEW r \in Readers, GetHit(r) PROVE AgeInv'
  BY <1>1 DEF GetHit, vars, table, key, reads, writes, TypeOK, Versions, AgeInv
<1>2. ASSUME NEW r \in Readers, GetMiss(r) PROVE AgeInv'
  BY <1>2 DEF GetMiss, table, key, reads, writes, TypeOK, Versions, AgeInv
<1>3. ASSUME NEW r \in Readers, GetError(r) PROVE AgeInv'
  BY <1>3 DEF GetError, Fault, table, key, reads, writes, TypeOK, Versions, AgeInv
<1>4. ASSUME NEW r \in Readers, Find(r) PROVE AgeInv'
  BY <1>4 DEF Find, table, key, reads, writes, TypeOK, Versions, AgeInv
<1>5. ASSUME NEW r \in Readers, Store(r) PROVE AgeInv'
  BY <1>5 DEF Store, Forget, table, key, reads, writes, TypeOK, Versions, AgeInv
<1>6. ASSUME NEW r \in Readers, ReadError(r) PROVE AgeInv'
  BY <1>6 DEF ReadError, Forget, Fault, table, key, reads, writes, TypeOK, Versions, AgeInv
<1>7. ASSUME NEW w \in Writers, NEW last \in BOOLEAN, Write(w, last) PROVE AgeInv'
  BY <1>7 DEF Write, table, key, reads, writes, TypeOK, Versions, AgeInv
<1>8. ASSUME NEW w \in Writers, Invalidate(w) PROVE AgeInv'
  BY <1>8 DEF Invalidate, NoKey, table, key, reads, writes, TypeOK, Versions, AgeInv
<1>9. ASSUME NEW w \in Writers, InvalidateLost(w) PROVE AgeInv'
  BY <1>9 DEF InvalidateLost, Fault, table, key, reads, writes, TypeOK, Versions, AgeInv
<1>10. CASE Evict
  BY <1>10 DEF Evict, NoKey, Fault, table, key, reads, writes, TypeOK, Versions, AgeInv
<1>11. CASE Tick
  BY <1>11 DEF Tick, Expiry, NoKey, table, key, reads, writes, TypeOK, Versions, AgeInv
<1>12. CASE UNCHANGED vars
  BY <1>12 DEF vars, table, key, reads, writes, TypeOK, Versions, AgeInv
<1> QED
  BY <1>1, <1>2, <1>3, <1>4, <1>5, <1>6, <1>7, <1>8, <1>9, <1>10, <1>11, <1>12 DEF Next, Get, Read, Change

\* The inductive invariant of both bounds.
LEMMA AgeInvariant == Spec => []AgeInv
<1>1. Init => AgeInv
  BY DEF Init, AgeInv
<1> QED
  BY <1>1, AgeStep, TypeCorrect, PTL DEF Spec

\* The time to live and the time of a read bound how old an answer from the
\* cache is, whatever fails and however calls overlap.
THEOREM StalenessBound == Spec => []StalenessIsBounded
<1>1. TypeOK /\ AgeInv => StalenessIsBounded
  BY TTLAssumption, ReadAssumption DEF TypeOK, Versions, AgeInv, StalenessIsBounded
<1> QED
  BY <1>1, AgeInvariant, TypeCorrect, PTL

-----------------------------------------------------------------------------
(* Causes of staleness *)

\* A write that makes the key stale has its invalidation pending; when that is
\* done the key is gone, and when it is lost the loss is on record.
LEMMA CauseStep ==
    ASSUME TypeOK, StaleHasCause, [Next]_vars
    PROVE  StaleHasCause'
<1> USE BoundAssumption
<1>1. ASSUME NEW r \in Readers, GetHit(r) PROVE StaleHasCause'
  BY <1>1 DEF GetHit, vars, table, key, reads, writes, TypeOK, Versions, StaleHasCause
<1>2. ASSUME NEW r \in Readers, GetMiss(r) PROVE StaleHasCause'
  BY <1>2 DEF GetMiss, table, key, reads, writes, TypeOK, Versions, StaleHasCause
<1>3. ASSUME NEW r \in Readers, GetError(r) PROVE StaleHasCause'
  BY <1>3 DEF GetError, Fault, table, key, reads, writes, TypeOK, Versions, StaleHasCause
<1>4. ASSUME NEW r \in Readers, Find(r) PROVE StaleHasCause'
  BY <1>4 DEF Find, table, key, reads, writes, TypeOK, Versions, StaleHasCause
<1>5. ASSUME NEW r \in Readers, Store(r) PROVE StaleHasCause'
  BY <1>5 DEF Store, Forget, table, key, reads, writes, TypeOK, Versions, StaleHasCause
<1>6. ASSUME NEW r \in Readers, ReadError(r) PROVE StaleHasCause'
  BY <1>6 DEF ReadError, Forget, Fault, table, key, reads, writes, TypeOK, Versions, StaleHasCause
<1>7. ASSUME NEW w \in Writers, NEW last \in BOOLEAN, Write(w, last) PROVE StaleHasCause'
  BY <1>7 DEF Write, table, key, reads, writes, TypeOK, Versions, StaleHasCause
<1>8. ASSUME NEW w \in Writers, Invalidate(w) PROVE StaleHasCause'
  BY <1>8 DEF Invalidate, NoKey, table, key, reads, writes, TypeOK, Versions, StaleHasCause
<1>9. ASSUME NEW w \in Writers, InvalidateLost(w) PROVE StaleHasCause'
  BY <1>9 DEF InvalidateLost, Fault, table, key, reads, writes, TypeOK, Versions, StaleHasCause
<1>10. CASE Evict
  BY <1>10 DEF Evict, NoKey, Fault, table, key, reads, writes, TypeOK, Versions, StaleHasCause
<1>11. CASE Tick
  BY <1>11 DEF Tick, Expiry, NoKey, table, key, reads, writes, TypeOK, Versions, StaleHasCause
<1>12. CASE UNCHANGED vars
  BY <1>12 DEF vars, table, key, reads, writes, TypeOK, Versions, StaleHasCause
<1> QED
  BY <1>1, <1>2, <1>3, <1>4, <1>5, <1>6, <1>7, <1>8, <1>9, <1>10, <1>11, <1>12 DEF Next, Get, Read, Change

\* The cache is never behind without one of the three causes.
THEOREM StalenessHasCause == Spec => []StaleHasCause
<1>1. Init => StaleHasCause
  BY DEF Init, StaleHasCause
<1> QED
  BY <1>1, CauseStep, TypeCorrect, PTL DEF Spec
=============================================================================

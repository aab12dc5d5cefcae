--------------------------- MODULE AccountsProofs ---------------------------
(***************************************************************************)
(* Theorems about Accounts, for all addresses, spellings and requests.     *)
(***************************************************************************)
EXTENDS Accounts, TLAPS

-----------------------------------------------------------------------------
(* Type correctness *)

\* Every step of a request and every deletion keeps the types.
LEMMA TypeStep == TypeOK /\ [Next]_vars => TypeOK'
<1> SUFFICES ASSUME TypeOK, [Next]_vars PROVE TypeOK'
  OBVIOUS
<1> USE NoneAssumption, NormalAssumption, BoundAssumption
<1>1. ASSUME NEW r \in Requests, NEW k \in Creations, NEW s \in Spellings, CreateCheck(r, k, s) PROVE TypeOK'
  BY <1>1 DEF CreateCheck, Taken, rows, TypeOK, Places, Inside, Creations
<1>2. ASSUME NEW r \in Requests, NEW s \in Spellings, CreateKnown(r, s) PROVE TypeOK'
  BY <1>2 DEF CreateKnown, vars, rows, request, TypeOK, Places, Inside, Creations
<1>3. ASSUME NEW r \in Requests, NEW i \in Ids, NEW s \in Spellings, UpdateFind(r, i, s) PROVE TypeOK'
  BY <1>3 DEF UpdateFind, rows, TypeOK, Places, Inside, Creations
<1>4. ASSUME NEW r \in Requests, NEW i \in Ids, UpdateUnknown(r, i) PROVE TypeOK'
  BY <1>4 DEF UpdateUnknown, vars, rows, request, TypeOK, Places, Inside, Creations
<1>5. ASSUME NEW r \in Requests, NEW i \in Ids, CreateInsert(r, i) PROVE TypeOK'
  BY <1>5 DEF CreateInsert, NextId, Unused, Busy, Taken, rows, TypeOK, Places, Inside, Creations
<1>6. ASSUME NEW r \in Requests, CreateConflict(r) PROVE TypeOK'
  BY <1>6 DEF CreateConflict, Finish, rows, TypeOK, Places, Inside, Creations
<1>7. ASSUME NEW r \in Requests, CreateUnmapped(r) PROVE TypeOK'
  BY <1>7 DEF CreateUnmapped, Finish, rows, TypeOK, Places, Inside, Creations
<1>8. ASSUME NEW r \in Requests, CreateExtend(r) PROVE TypeOK'
  BY <1>8 DEF CreateExtend, Goto, rows, TypeOK, Places, Inside, Creations
<1>9. ASSUME NEW r \in Requests, CreateAnnounce(r) PROVE TypeOK'
  BY <1>9 DEF CreateAnnounce, Goto, rows, TypeOK, Places, Inside, Creations
<1>10. ASSUME NEW r \in Requests, CreateCommit(r) PROVE TypeOK'
  BY <1>10 DEF CreateCommit, Created, Finish, TypeOK, Places, Inside, Creations
<1>11. ASSUME NEW r \in Requests, UpdateCheck(r) PROVE TypeOK'
  BY <1>11 DEF UpdateCheck, Finish, Goto, Taken, rows, TypeOK, Places, Inside, Creations
<1>12. ASSUME NEW r \in Requests, UpdateRow(r) PROVE TypeOK'
  BY <1>12 DEF UpdateRow, Finish, Busy, TakenByOther, TypeOK, Places, Inside, Creations
<1>13. ASSUME NEW r \in Requests, UpdateGone(r) PROVE TypeOK'
  BY <1>13 DEF UpdateGone, Finish, rows, TypeOK, Places, Inside, Creations
<1>14. ASSUME NEW r \in Requests, UpdateUnmapped(r) PROVE TypeOK'
  BY <1>14 DEF UpdateUnmapped, Finish, rows, TypeOK, Places, Inside, Creations
<1>15. ASSUME NEW r \in Requests, RequestError(r) PROVE TypeOK'
  BY <1>15 DEF RequestError, Finish, Fault, rows, TypeOK, Places, Inside, Creations
<1>16. ASSUME NEW i \in Ids, DeleteUser(i) PROVE TypeOK'
  BY <1>16 DEF DeleteUser, request, TypeOK, Places, Inside, Creations
<1>17. CASE UNCHANGED vars
  BY <1>17 DEF vars, rows, request, TypeOK, Places, Inside, Creations
<1> QED
  BY <1>1, <1>2, <1>3, <1>4, <1>5, <1>6, <1>7, <1>8, <1>9, <1>10, <1>11, <1>12, <1>13, <1>14, <1>15, <1>16, <1>17
  DEF Next, Arrive, Serve

\* The types hold throughout every behaviour, and what a request holds agrees
\* with the statement it has reached.
THEOREM TypeCorrect == Spec => []TypeOK
<1>1. Init => TypeOK
  BY NoneAssumption, BoundAssumption DEF Init, TypeOK, Places, Inside, Creations
<1> QED
  BY <1>1, TypeStep, PTL DEF Spec

-----------------------------------------------------------------------------
(* Open transactions and the index on email *)

\* An id that was never committed has no user and no profile; updates work on
\* ids that were.
BirthInv ==
    /\ \A i \in Ids : origin[i] = None => email[i] = None /\ i \notin profile
    /\ \A r \in Requests : pc[r] \in {"reading", "ready"} => origin[id[r]] # None

\* The row an open transaction has inserted has an id of its own.
IdInv ==
    \A r \in Requests : pc[r] \in Inside =>
        /\ origin[id[r]] = None
        /\ \A q \in Requests : id[q] = id[r] => q = r

\* The index: the address of an open insert is not committed anywhere, and no
\* other open insert has it.
IndexInv ==
    \A r \in Requests : pc[r] \in Inside =>
        /\ \A i \in Ids : email[i] # mail[r]
        /\ \A q \in Requests : pc[q] \in Inside /\ mail[q] = mail[r] => q = r

\* Every address that is stored, or on its way to be, is normalised.
NormalInv ==
    /\ \A r \in Requests : mail[r] # None => Normal[mail[r]] = mail[r]
    /\ \A i \in Ids : email[i] # None => Normal[email[i]] = email[i]

\* What the index says of committed rows.
DistinctInv ==
    \A i, j \in Ids : email[i] # None /\ email[i] = email[j] => i = j

AccountInv == BirthInv /\ IdInv /\ IndexInv /\ NormalInv /\ DistinctInv
              /\ AnnouncedOnce /\ AccountsAreWhole

\* Ids are committed once, by the transaction that has drawn them.
LEMMA BirthStep ==
    ASSUME TypeOK, BirthInv, IdInv, [Next]_vars
    PROVE  BirthInv'
<1> USE NoneAssumption, NormalAssumption DEF TypeOK, Places, Inside, Creations
<1>1. ASSUME NEW r \in Requests, NEW k \in Creations, NEW s \in Spellings, CreateCheck(r, k, s) PROVE BirthInv'
  BY <1>1 DEF CreateCheck, Taken, rows, BirthInv, IdInv
<1>2. ASSUME NEW r \in Requests, NEW s \in Spellings, CreateKnown(r, s) PROVE BirthInv'
  BY <1>2 DEF CreateKnown, vars, rows, request, BirthInv, IdInv
<1>3. ASSUME NEW r \in Requests, NEW i \in Ids, NEW s \in Spellings, UpdateFind(r, i, s) PROVE BirthInv'
  BY <1>3 DEF UpdateFind, rows, BirthInv, IdInv
<1>4. ASSUME NEW r \in Requests, NEW i \in Ids, UpdateUnknown(r, i) PROVE BirthInv'
  BY <1>4 DEF UpdateUnknown, vars, rows, request, BirthInv, IdInv
<1>5. ASSUME NEW r \in Requests, NEW i \in Ids, CreateInsert(r, i) PROVE BirthInv'
  BY <1>5 DEF CreateInsert, NextId, Unused, Busy, Taken, rows, BirthInv, IdInv
<1>6. ASSUME NEW r \in Requests, CreateConflict(r) PROVE BirthInv'
  BY <1>6 DEF CreateConflict, Finish, rows, BirthInv, IdInv
<1>7. ASSUME NEW r \in Requests, CreateUnmapped(r) PROVE BirthInv'
  BY <1>7 DEF CreateUnmapped, Finish, rows, BirthInv, IdInv
<1>8. ASSUME NEW r \in Requests, CreateExtend(r) PROVE BirthInv'
  BY <1>8 DEF CreateExtend, Goto, rows, BirthInv, IdInv
<1>9. ASSUME NEW r \in Requests, CreateAnnounce(r) PROVE BirthInv'
  BY <1>9 DEF CreateAnnounce, Goto, rows, BirthInv, IdInv
<1>10. ASSUME NEW r \in Requests, CreateCommit(r) PROVE BirthInv'
  BY <1>10 DEF CreateCommit, Created, Finish, BirthInv, IdInv
<1>11. ASSUME NEW r \in Requests, UpdateCheck(r) PROVE BirthInv'
  BY <1>11 DEF UpdateCheck, Finish, Goto, Taken, rows, BirthInv, IdInv
<1>12. ASSUME NEW r \in Requests, UpdateRow(r) PROVE BirthInv'
  BY <1>12 DEF UpdateRow, Finish, Busy, TakenByOther, BirthInv, IdInv
<1>13. ASSUME NEW r \in Requests, UpdateGone(r) PROVE BirthInv'
  BY <1>13 DEF UpdateGone, Finish, rows, BirthInv, IdInv
<1>14. ASSUME NEW r \in Requests, UpdateUnmapped(r) PROVE BirthInv'
  BY <1>14 DEF UpdateUnmapped, Finish, rows, BirthInv, IdInv
<1>15. ASSUME NEW r \in Requests, RequestError(r) PROVE BirthInv'
  BY <1>15 DEF RequestError, Finish, Fault, rows, BirthInv, IdInv
<1>16. ASSUME NEW i \in Ids, DeleteUser(i) PROVE BirthInv'
  BY <1>16 DEF DeleteUser, request, BirthInv, IdInv
<1>17. CASE UNCHANGED vars
  BY <1>17 DEF vars, rows, request, BirthInv, IdInv
<1> QED
  BY <1>1, <1>2, <1>3, <1>4, <1>5, <1>6, <1>7, <1>8, <1>9, <1>10, <1>11, <1>12, <1>13, <1>14, <1>15, <1>16, <1>17
  DEF Next, Arrive, Serve

\* The sequence gives every insert an id of its own.
LEMMA IdStep ==
    ASSUME TypeOK, BirthInv, IdInv, [Next]_vars
    PROVE  IdInv'
<1> USE NoneAssumption, NormalAssumption DEF TypeOK, Places, Inside, Creations
<1>1. ASSUME NEW r \in Requests, NEW k \in Creations, NEW s \in Spellings, CreateCheck(r, k, s) PROVE IdInv'
  BY <1>1 DEF CreateCheck, Taken, rows, BirthInv, IdInv
<1>2. ASSUME NEW r \in Requests, NEW s \in Spellings, CreateKnown(r, s) PROVE IdInv'
  BY <1>2 DEF CreateKnown, vars, rows, request, BirthInv, IdInv
<1>3. ASSUME NEW r \in Requests, NEW i \in Ids, NEW s \in Spellings, UpdateFind(r, i, s) PROVE IdInv'
  BY <1>3 DEF UpdateFind, rows, BirthInv, IdInv
<1>4. ASSUME NEW r \in Requests, NEW i \in Ids, UpdateUnknown(r, i) PROVE IdInv'
  BY <1>4 DEF UpdateUnknown, vars, rows, request, BirthInv, IdInv
<1>5. ASSUME NEW r \in Requests, NEW i \in Ids, CreateInsert(r, i) PROVE IdInv'
  BY <1>5 DEF CreateInsert, NextId, Unused, Busy, Taken, rows, BirthInv, IdInv
<1>6. ASSUME NEW r \in Requests, CreateConflict(r) PROVE IdInv'
  BY <1>6 DEF CreateConflict, Finish, rows, BirthInv, IdInv
<1>7. ASSUME NEW r \in Requests, CreateUnmapped(r) PROVE IdInv'
  BY <1>7 DEF CreateUnmapped, Finish, rows, BirthInv, IdInv
<1>8. ASSUME NEW r \in Requests, CreateExtend(r) PROVE IdInv'
  BY <1>8 DEF CreateExtend, Goto, rows, BirthInv, IdInv
<1>9. ASSUME NEW r \in Requests, CreateAnnounce(r) PROVE IdInv'
  BY <1>9 DEF CreateAnnounce, Goto, rows, BirthInv, IdInv
<1>10. ASSUME NEW r \in Requests, CreateCommit(r) PROVE IdInv'
  BY <1>10 DEF CreateCommit, Created, Finish, BirthInv, IdInv
<1>11. ASSUME NEW r \in Requests, UpdateCheck(r) PROVE IdInv'
  BY <1>11 DEF UpdateCheck, Finish, Goto, Taken, rows, BirthInv, IdInv
<1>12. ASSUME NEW r \in Requests, UpdateRow(r) PROVE IdInv'
  BY <1>12 DEF UpdateRow, Finish, Busy, TakenByOther, BirthInv, IdInv
<1>13. ASSUME NEW r \in Requests, UpdateGone(r) PROVE IdInv'
  BY <1>13 DEF UpdateGone, Finish, rows, BirthInv, IdInv
<1>14. ASSUME NEW r \in Requests, UpdateUnmapped(r) PROVE IdInv'
  BY <1>14 DEF UpdateUnmapped, Finish, rows, BirthInv, IdInv
<1>15. ASSUME NEW r \in Requests, RequestError(r) PROVE IdInv'
  BY <1>15 DEF RequestError, Finish, Fault, rows, BirthInv, IdInv
<1>16. ASSUME NEW i \in Ids, DeleteUser(i) PROVE IdInv'
  BY <1>16 DEF DeleteUser, request, BirthInv, IdInv
<1>17. CASE UNCHANGED vars
  BY <1>17 DEF vars, rows, request, BirthInv, IdInv
<1> QED
  BY <1>1, <1>2, <1>3, <1>4, <1>5, <1>6, <1>7, <1>8, <1>9, <1>10, <1>11, <1>12, <1>13, <1>14, <1>15, <1>16, <1>17
  DEF Next, Arrive, Serve

\* Inserts and updates wait for open inserts of the same address.
LEMMA IndexStep ==
    ASSUME TypeOK, IndexInv, IdInv, [Next]_vars
    PROVE  IndexInv'
<1> USE NoneAssumption, NormalAssumption DEF TypeOK, Places, Inside, Creations
<1>1. ASSUME NEW r \in Requests, NEW k \in Creations, NEW s \in Spellings, CreateCheck(r, k, s) PROVE IndexInv'
  BY <1>1 DEF CreateCheck, Taken, rows, IndexInv, IdInv
<1>2. ASSUME NEW r \in Requests, NEW s \in Spellings, CreateKnown(r, s) PROVE IndexInv'
  BY <1>2 DEF CreateKnown, vars, rows, request, IndexInv, IdInv
<1>3. ASSUME NEW r \in Requests, NEW i \in Ids, NEW s \in Spellings, UpdateFind(r, i, s) PROVE IndexInv'
  BY <1>3 DEF UpdateFind, rows, IndexInv, IdInv
<1>4. ASSUME NEW r \in Requests, NEW i \in Ids, UpdateUnknown(r, i) PROVE IndexInv'
  BY <1>4 DEF UpdateUnknown, vars, rows, request, IndexInv, IdInv
<1>5. ASSUME NEW r \in Requests, NEW i \in Ids, CreateInsert(r, i) PROVE IndexInv'
  BY <1>5 DEF CreateInsert, NextId, Unused, Busy, Taken, rows, IndexInv, IdInv
<1>6. ASSUME NEW r \in Requests, CreateConflict(r) PROVE IndexInv'
  BY <1>6 DEF CreateConflict, Finish, rows, IndexInv, IdInv
<1>7. ASSUME NEW r \in Requests, CreateUnmapped(r) PROVE IndexInv'
  BY <1>7 DEF CreateUnmapped, Finish, rows, IndexInv, IdInv
<1>8. ASSUME NEW r \in Requests, CreateExtend(r) PROVE IndexInv'
  BY <1>8 DEF CreateExtend, Goto, rows, IndexInv, IdInv
<1>9. ASSUME NEW r \in Requests, CreateAnnounce(r) PROVE IndexInv'
  BY <1>9 DEF CreateAnnounce, Goto, rows, IndexInv, IdInv
<1>10. ASSUME NEW r \in Requests, CreateCommit(r) PROVE IndexInv'
  BY <1>10 DEF CreateCommit, Created, Finish, IndexInv, IdInv
<1>11. ASSUME NEW r \in Requests, UpdateCheck(r) PROVE IndexInv'
  BY <1>11 DEF UpdateCheck, Finish, Goto, Taken, rows, IndexInv, IdInv
<1>12. ASSUME NEW r \in Requests, UpdateRow(r) PROVE IndexInv'
  BY <1>12 DEF UpdateRow, Finish, Busy, TakenByOther, IndexInv, IdInv
<1>13. ASSUME NEW r \in Requests, UpdateGone(r) PROVE IndexInv'
  BY <1>13 DEF UpdateGone, Finish, rows, IndexInv, IdInv
<1>14. ASSUME NEW r \in Requests, UpdateUnmapped(r) PROVE IndexInv'
  BY <1>14 DEF UpdateUnmapped, Finish, rows, IndexInv, IdInv
<1>15. ASSUME NEW r \in Requests, RequestError(r) PROVE IndexInv'
  BY <1>15 DEF RequestError, Finish, Fault, rows, IndexInv, IdInv
<1>16. ASSUME NEW i \in Ids, DeleteUser(i) PROVE IndexInv'
  BY <1>16 DEF DeleteUser, request, IndexInv, IdInv
<1>17. CASE UNCHANGED vars
  BY <1>17 DEF vars, rows, request, IndexInv, IdInv
<1> QED
  BY <1>1, <1>2, <1>3, <1>4, <1>5, <1>6, <1>7, <1>8, <1>9, <1>10, <1>11, <1>12, <1>13, <1>14, <1>15, <1>16, <1>17
  DEF Next, Arrive, Serve

\* Every request normalises the address it was given.
LEMMA NormalStep ==
    ASSUME TypeOK, NormalInv, [Next]_vars
    PROVE  NormalInv'
<1> USE NoneAssumption, NormalAssumption DEF TypeOK, Places, Inside, Creations
<1>1. ASSUME NEW r \in Requests, NEW k \in Creations, NEW s \in Spellings, CreateCheck(r, k, s) PROVE NormalInv'
  BY <1>1 DEF CreateCheck, Taken, rows, NormalInv
<1>2. ASSUME NEW r \in Requests, NEW s \in Spellings, CreateKnown(r, s) PROVE NormalInv'
  BY <1>2 DEF CreateKnown, vars, rows, request, NormalInv
<1>3. ASSUME NEW r \in Requests, NEW i \in Ids, NEW s \in Spellings, UpdateFind(r, i, s) PROVE NormalInv'
  BY <1>3 DEF UpdateFind, rows, NormalInv
<1>4. ASSUME NEW r \in Requests, NEW i \in Ids, UpdateUnknown(r, i) PROVE NormalInv'
  BY <1>4 DEF UpdateUnknown, vars, rows, request, NormalInv
<1>5. ASSUME NEW r \in Requests, NEW i \in Ids, CreateInsert(r, i) PROVE NormalInv'
  BY <1>5 DEF CreateInsert, NextId, Unused, Busy, Taken, rows, NormalInv
<1>6. ASSUME NEW r \in Requests, CreateConflict(r) PROVE NormalInv'
  BY <1>6 DEF CreateConflict, Finish, rows, NormalInv
<1>7. ASSUME NEW r \in Requests, CreateUnmapped(r) PROVE NormalInv'
  BY <1>7 DEF CreateUnmapped, Finish, rows, NormalInv
<1>8. ASSUME NEW r \in Requests, CreateExtend(r) PROVE NormalInv'
  BY <1>8 DEF CreateExtend, Goto, rows, NormalInv
<1>9. ASSUME NEW r \in Requests, CreateAnnounce(r) PROVE NormalInv'
  BY <1>9 DEF CreateAnnounce, Goto, rows, NormalInv
<1>10. ASSUME NEW r \in Requests, CreateCommit(r) PROVE NormalInv'
  BY <1>10 DEF CreateCommit, Created, Finish, NormalInv
<1>11. ASSUME NEW r \in Requests, UpdateCheck(r) PROVE NormalInv'
  BY <1>11 DEF UpdateCheck, Finish, Goto, Taken, rows, NormalInv
<1>12. ASSUME NEW r \in Requests, UpdateRow(r) PROVE NormalInv'
  BY <1>12 DEF UpdateRow, Finish, Busy, TakenByOther, NormalInv
<1>13. ASSUME NEW r \in Requests, UpdateGone(r) PROVE NormalInv'
  BY <1>13 DEF UpdateGone, Finish, rows, NormalInv
<1>14. ASSUME NEW r \in Requests, UpdateUnmapped(r) PROVE NormalInv'
  BY <1>14 DEF UpdateUnmapped, Finish, rows, NormalInv
<1>15. ASSUME NEW r \in Requests, RequestError(r) PROVE NormalInv'
  BY <1>15 DEF RequestError, Finish, Fault, rows, NormalInv
<1>16. ASSUME NEW i \in Ids, DeleteUser(i) PROVE NormalInv'
  BY <1>16 DEF DeleteUser, request, NormalInv
<1>17. CASE UNCHANGED vars
  BY <1>17 DEF vars, rows, request, NormalInv
<1> QED
  BY <1>1, <1>2, <1>3, <1>4, <1>5, <1>6, <1>7, <1>8, <1>9, <1>10, <1>11, <1>12, <1>13, <1>14, <1>15, <1>16, <1>17
  DEF Next, Arrive, Serve

\* A commit adds an address that the index has kept free, and an update one that
\* nobody else has.
LEMMA DistinctStep ==
    ASSUME TypeOK, IndexInv, DistinctInv, [Next]_vars
    PROVE  DistinctInv'
<1> USE NoneAssumption, NormalAssumption DEF TypeOK, Places, Inside, Creations
<1>1. ASSUME NEW r \in Requests, NEW k \in Creations, NEW s \in Spellings, CreateCheck(r, k, s) PROVE DistinctInv'
  BY <1>1 DEF CreateCheck, Taken, rows, IndexInv, DistinctInv
<1>2. ASSUME NEW r \in Requests, NEW s \in Spellings, CreateKnown(r, s) PROVE DistinctInv'
  BY <1>2 DEF CreateKnown, vars, rows, request, IndexInv, DistinctInv
<1>3. ASSUME NEW r \in Requests, NEW i \in Ids, NEW s \in Spellings, UpdateFind(r, i, s) PROVE DistinctInv'
  BY <1>3 DEF UpdateFind, rows, IndexInv, DistinctInv
<1>4. ASSUME NEW r \in Requests, NEW i \in Ids, UpdateUnknown(r, i) PROVE DistinctInv'
  BY <1>4 DEF UpdateUnknown, vars, rows, request, IndexInv, DistinctInv
<1>5. ASSUME NEW r \in Requests, NEW i \in Ids, CreateInsert(r, i) PROVE DistinctInv'
  BY <1>5 DEF CreateInsert, NextId, Unused, Busy, Taken, rows, IndexInv, DistinctInv
<1>6. ASSUME NEW r \in Requests, CreateConflict(r) PROVE DistinctInv'
  BY <1>6 DEF CreateConflict, Finish, rows, IndexInv, DistinctInv
<1>7. ASSUME NEW r \in Requests, CreateUnmapped(r) PROVE DistinctInv'
  BY <1>7 DEF CreateUnmapped, Finish, rows, IndexInv, DistinctInv
<1>8. ASSUME NEW r \in Requests, CreateExtend(r) PROVE DistinctInv'
  BY <1>8 DEF CreateExtend, Goto, rows, IndexInv, DistinctInv
<1>9. ASSUME NEW r \in Requests, CreateAnnounce(r) PROVE DistinctInv'
  BY <1>9 DEF CreateAnnounce, Goto, rows, IndexInv, DistinctInv
<1>10. ASSUME NEW r \in Requests, CreateCommit(r) PROVE DistinctInv'
  BY <1>10 DEF CreateCommit, Created, Finish, IndexInv, DistinctInv
<1>11. ASSUME NEW r \in Requests, UpdateCheck(r) PROVE DistinctInv'
  BY <1>11 DEF UpdateCheck, Finish, Goto, Taken, rows, IndexInv, DistinctInv
<1>12. ASSUME NEW r \in Requests, UpdateRow(r) PROVE DistinctInv'
  BY <1>12 DEF UpdateRow, Finish, Busy, TakenByOther, IndexInv, DistinctInv
<1>13. ASSUME NEW r \in Requests, UpdateGone(r) PROVE DistinctInv'
  BY <1>13 DEF UpdateGone, Finish, rows, IndexInv, DistinctInv
<1>14. ASSUME NEW r \in Requests, UpdateUnmapped(r) PROVE DistinctInv'
  BY <1>14 DEF UpdateUnmapped, Finish, rows, IndexInv, DistinctInv
<1>15. ASSUME NEW r \in Requests, RequestError(r) PROVE DistinctInv'
  BY <1>15 DEF RequestError, Finish, Fault, rows, IndexInv, DistinctInv
<1>16. ASSUME NEW i \in Ids, DeleteUser(i) PROVE DistinctInv'
  BY <1>16 DEF DeleteUser, request, IndexInv, DistinctInv
<1>17. CASE UNCHANGED vars
  BY <1>17 DEF vars, rows, request, IndexInv, DistinctInv
<1> QED
  BY <1>1, <1>2, <1>3, <1>4, <1>5, <1>6, <1>7, <1>8, <1>9, <1>10, <1>11, <1>12, <1>13, <1>14, <1>15, <1>16, <1>17
  DEF Next, Arrive, Serve

\* The event of an account is committed with it, and only then.
LEMMA AnnouncedStep ==
    ASSUME TypeOK, IdInv, AnnouncedOnce, [Next]_vars
    PROVE  AnnouncedOnce'
<1> USE NoneAssumption, NormalAssumption DEF TypeOK, Places, Inside, Creations
<1>1. ASSUME NEW r \in Requests, NEW k \in Creations, NEW s \in Spellings, CreateCheck(r, k, s) PROVE AnnouncedOnce'
  BY <1>1 DEF CreateCheck, Taken, rows, IdInv, AnnouncedOnce
<1>2. ASSUME NEW r \in Requests, NEW s \in Spellings, CreateKnown(r, s) PROVE AnnouncedOnce'
  BY <1>2 DEF CreateKnown, vars, rows, request, IdInv, AnnouncedOnce
<1>3. ASSUME NEW r \in Requests, NEW i \in Ids, NEW s \in Spellings, UpdateFind(r, i, s) PROVE AnnouncedOnce'
  BY <1>3 DEF UpdateFind, rows, IdInv, AnnouncedOnce
<1>4. ASSUME NEW r \in Requests, NEW i \in Ids, UpdateUnknown(r, i) PROVE AnnouncedOnce'
  BY <1>4 DEF UpdateUnknown, vars, rows, request, IdInv, AnnouncedOnce
<1>5. ASSUME NEW r \in Requests, NEW i \in Ids, CreateInsert(r, i) PROVE AnnouncedOnce'
  BY <1>5 DEF CreateInsert, NextId, Unused, Busy, Taken, rows, IdInv, AnnouncedOnce
<1>6. ASSUME NEW r \in Requests, CreateConflict(r) PROVE AnnouncedOnce'
  BY <1>6 DEF CreateConflict, Finish, rows, IdInv, AnnouncedOnce
<1>7. ASSUME NEW r \in Requests, CreateUnmapped(r) PROVE AnnouncedOnce'
  BY <1>7 DEF CreateUnmapped, Finish, rows, IdInv, AnnouncedOnce
<1>8. ASSUME NEW r \in Requests, CreateExtend(r) PROVE AnnouncedOnce'
  BY <1>8 DEF CreateExtend, Goto, rows, IdInv, AnnouncedOnce
<1>9. ASSUME NEW r \in Requests, CreateAnnounce(r) PROVE AnnouncedOnce'
  BY <1>9 DEF CreateAnnounce, Goto, rows, IdInv, AnnouncedOnce
<1>10. ASSUME NEW r \in Requests, CreateCommit(r) PROVE AnnouncedOnce'
  BY <1>10 DEF CreateCommit, Created, Finish, IdInv, AnnouncedOnce
<1>11. ASSUME NEW r \in Requests, UpdateCheck(r) PROVE AnnouncedOnce'
  BY <1>11 DEF UpdateCheck, Finish, Goto, Taken, rows, IdInv, AnnouncedOnce
<1>12. ASSUME NEW r \in Requests, UpdateRow(r) PROVE AnnouncedOnce'
  BY <1>12 DEF UpdateRow, Finish, Busy, TakenByOther, IdInv, AnnouncedOnce
<1>13. ASSUME NEW r \in Requests, UpdateGone(r) PROVE AnnouncedOnce'
  BY <1>13 DEF UpdateGone, Finish, rows, IdInv, AnnouncedOnce
<1>14. ASSUME NEW r \in Requests, UpdateUnmapped(r) PROVE AnnouncedOnce'
  BY <1>14 DEF UpdateUnmapped, Finish, rows, IdInv, AnnouncedOnce
<1>15. ASSUME NEW r \in Requests, RequestError(r) PROVE AnnouncedOnce'
  BY <1>15 DEF RequestError, Finish, Fault, rows, IdInv, AnnouncedOnce
<1>16. ASSUME NEW i \in Ids, DeleteUser(i) PROVE AnnouncedOnce'
  BY <1>16 DEF DeleteUser, request, IdInv, AnnouncedOnce
<1>17. CASE UNCHANGED vars
  BY <1>17 DEF vars, rows, request, IdInv, AnnouncedOnce
<1> QED
  BY <1>1, <1>2, <1>3, <1>4, <1>5, <1>6, <1>7, <1>8, <1>9, <1>10, <1>11, <1>12, <1>13, <1>14, <1>15, <1>16, <1>17
  DEF Next, Arrive, Serve

\* The profile is committed with the account and deleted with it.
LEMMA WholeStep ==
    ASSUME TypeOK, BirthInv, IdInv, AccountsAreWhole, [Next]_vars
    PROVE  AccountsAreWhole'
<1> USE NoneAssumption, NormalAssumption DEF TypeOK, Places, Inside, Creations
<1>1. ASSUME NEW r \in Requests, NEW k \in Creations, NEW s \in Spellings, CreateCheck(r, k, s) PROVE AccountsAreWhole'
  BY <1>1 DEF CreateCheck, Taken, rows, BirthInv, IdInv, AccountsAreWhole
<1>2. ASSUME NEW r \in Requests, NEW s \in Spellings, CreateKnown(r, s) PROVE AccountsAreWhole'
  BY <1>2 DEF CreateKnown, vars, rows, request, BirthInv, IdInv, AccountsAreWhole
<1>3. ASSUME NEW r \in Requests, NEW i \in Ids, NEW s \in Spellings, UpdateFind(r, i, s) PROVE AccountsAreWhole'
  BY <1>3 DEF UpdateFind, rows, BirthInv, IdInv, AccountsAreWhole
<1>4. ASSUME NEW r \in Requests, NEW i \in Ids, UpdateUnknown(r, i) PROVE AccountsAreWhole'
  BY <1>4 DEF UpdateUnknown, vars, rows, request, BirthInv, IdInv, AccountsAreWhole
<1>5. ASSUME NEW r \in Requests, NEW i \in Ids, CreateInsert(r, i) PROVE AccountsAreWhole'
  BY <1>5 DEF CreateInsert, NextId, Unused, Busy, Taken, rows, BirthInv, IdInv, AccountsAreWhole
<1>6. ASSUME NEW r \in Requests, CreateConflict(r) PROVE AccountsAreWhole'
  BY <1>6 DEF CreateConflict, Finish, rows, BirthInv, IdInv, AccountsAreWhole
<1>7. ASSUME NEW r \in Requests, CreateUnmapped(r) PROVE AccountsAreWhole'
  BY <1>7 DEF CreateUnmapped, Finish, rows, BirthInv, IdInv, AccountsAreWhole
<1>8. ASSUME NEW r \in Requests, CreateExtend(r) PROVE AccountsAreWhole'
  BY <1>8 DEF CreateExtend, Goto, rows, BirthInv, IdInv, AccountsAreWhole
<1>9. ASSUME NEW r \in Requests, CreateAnnounce(r) PROVE AccountsAreWhole'
  BY <1>9 DEF CreateAnnounce, Goto, rows, BirthInv, IdInv, AccountsAreWhole
<1>10. ASSUME NEW r \in Requests, CreateCommit(r) PROVE AccountsAreWhole'
  BY <1>10 DEF CreateCommit, Created, Finish, BirthInv, IdInv, AccountsAreWhole
<1>11. ASSUME NEW r \in Requests, UpdateCheck(r) PROVE AccountsAreWhole'
  BY <1>11 DEF UpdateCheck, Finish, Goto, Taken, rows, BirthInv, IdInv, AccountsAreWhole
<1>12. ASSUME NEW r \in Requests, UpdateRow(r) PROVE AccountsAreWhole'
  BY <1>12 DEF UpdateRow, Finish, Busy, TakenByOther, BirthInv, IdInv, AccountsAreWhole
<1>13. ASSUME NEW r \in Requests, UpdateGone(r) PROVE AccountsAreWhole'
  BY <1>13 DEF UpdateGone, Finish, rows, BirthInv, IdInv, AccountsAreWhole
<1>14. ASSUME NEW r \in Requests, UpdateUnmapped(r) PROVE AccountsAreWhole'
  BY <1>14 DEF UpdateUnmapped, Finish, rows, BirthInv, IdInv, AccountsAreWhole
<1>15. ASSUME NEW r \in Requests, RequestError(r) PROVE AccountsAreWhole'
  BY <1>15 DEF RequestError, Finish, Fault, rows, BirthInv, IdInv, AccountsAreWhole
<1>16. ASSUME NEW i \in Ids, DeleteUser(i) PROVE AccountsAreWhole'
  BY <1>16 DEF DeleteUser, request, BirthInv, IdInv, AccountsAreWhole
<1>17. CASE UNCHANGED vars
  BY <1>17 DEF vars, rows, request, BirthInv, IdInv, AccountsAreWhole
<1> QED
  BY <1>1, <1>2, <1>3, <1>4, <1>5, <1>6, <1>7, <1>8, <1>9, <1>10, <1>11, <1>12, <1>13, <1>14, <1>15, <1>16, <1>17
  DEF Next, Arrive, Serve

\* The inductive invariant, part by part.
LEMMA AccountInvariant == Spec => []AccountInv
<1>1. Init => AccountInv
  BY DEF Init, AccountInv, BirthInv, IdInv, IndexInv, NormalInv, DistinctInv,
         AnnouncedOnce, AccountsAreWhole, Inside
<1>2. TypeOK /\ AccountInv /\ [Next]_vars => AccountInv'
  BY BirthStep, IdStep, IndexStep, NormalStep, DistinctStep, AnnouncedStep, WholeStep
  DEF AccountInv
<1> QED
  BY <1>1, <1>2, TypeCorrect, PTL DEF Spec

\* Addresses stay unique up to spelling although every request checks first and
\* writes later.
THEOREM AddressesAreUnique == Spec => []EmailsUnique
<1>1. AccountInv => EmailsUnique
  BY DEF AccountInv, NormalInv, DistinctInv, EmailsUnique
<1> QED
  BY <1>1, AccountInvariant, PTL

\* One outbox row for every account that was ever created, and no other.
THEOREM EventsMatchAccounts == Spec => []AnnouncedOnce
<1>1. AccountInv => AnnouncedOnce
  BY DEF AccountInv
<1> QED
  BY <1>1, AccountInvariant, PTL

\* Profiles and accounts are created and deleted together.
THEOREM ProfilesMatchAccounts == Spec => []AccountsAreWhole
<1>1. AccountInv => AccountsAreWhole
  BY DEF AccountInv
<1> QED
  BY <1>1, AccountInvariant, PTL

-----------------------------------------------------------------------------
(* Refinement of Directory *)

\* A step of a request maps to a step of Directory when it changes the tables,
\* and to none otherwise: a commit to Join, an update to Change.
LEMMA DirectoryStep ==
    ASSUME TypeOK, AccountInv, [Next]_vars
    PROVE  [Promised!Next]_(Promised!directoryVars)
<1> USE NoneAssumption, NormalAssumption DEF TypeOK, Places, Inside, Creations
<1>1. ASSUME NEW r \in Requests, CreateCommit(r) PROVE Promised!Next
  <2> DEFINE i == id[r]
             a == mail[r]
  <2>1. i \in Ids /\ a \in Spellings /\ Normal[a] = a /\ op[r] \in Creations
    BY <1>1 DEF CreateCommit, AccountInv, NormalInv
  <2>2. origin[i] = None /\ events[i] = 0
    BY <1>1, <2>1 DEF CreateCommit, AccountInv, IdInv, AnnouncedOnce
  <2>3. \A j \in Ids : email[j] # a
    BY <1>1 DEF CreateCommit, AccountInv, IndexInv
  <2>4. events' = [events EXCEPT ![i] = 1]
    BY <1>1, <2>1, <2>2 DEF CreateCommit, Created
  <2>5. Promised!Join(i, a, op[r])
    BY <1>1, <2>1, <2>2, <2>3, <2>4 DEF CreateCommit, Created, Promised!Join, Promised!FreeFor
  <2> QED
    BY <2>1, <2>5 DEF Promised!Next
<1>2. ASSUME NEW r \in Requests, UpdateRow(r) PROVE Promised!Next
  <2>1. id[r] \in Ids /\ mail[r] \in Spellings /\ Normal[mail[r]] = mail[r]
    BY <1>2 DEF UpdateRow, AccountInv, NormalInv
  <2>2. Promised!Change(id[r], mail[r])
    BY <1>2 DEF UpdateRow, TakenByOther, Promised!Change, Promised!FreeFor
  <2> QED
    BY <2>1, <2>2 DEF Promised!Next
<1>3. ASSUME NEW i \in Ids, DeleteUser(i) PROVE Promised!Next
  BY <1>3 DEF DeleteUser, Promised!Leave, Promised!Next
<1>4. CASE UNCHANGED rows
  BY <1>4 DEF rows, Promised!directoryVars
<1>5. ASSUME NEW r \in Requests, Arrive(r) PROVE UNCHANGED rows
  BY <1>5 DEF Arrive, CreateCheck, CreateKnown, UpdateFind, UpdateUnknown, vars
<1>6. ASSUME NEW r \in Requests, Serve(r) PROVE CreateCommit(r) \/ UpdateRow(r) \/ UNCHANGED rows
  BY <1>6 DEF Serve, CreateInsert, CreateConflict, CreateUnmapped, CreateExtend, CreateAnnounce,
              UpdateCheck, UpdateGone, UpdateUnmapped
<1>7. ASSUME NEW r \in Requests, RequestError(r) PROVE UNCHANGED rows
  BY <1>7 DEF RequestError
<1> QED
  BY <1>1, <1>2, <1>3, <1>4, <1>5, <1>6, <1>7 DEF Next, vars

\* The statements of any number of concurrent requests amount to accounts that
\* join under free addresses, change to free ones and leave, each in one step.
THEOREM AccountsKeepDirectory == Spec => KeepsDirectory
<1>1. Init => Promised!Init
  BY DEF Init, Promised!Init
<1>2. TypeOK /\ AccountInv /\ [Next]_vars => [Promised!Next]_(Promised!directoryVars)
  BY DirectoryStep
<1> QED
  BY <1>1, <1>2, TypeCorrect, AccountInvariant, PTL DEF Spec, KeepsDirectory, Promised!Spec

\* No update that found an account before its deletion brings it back: Directory
\* has no step that would.
THEOREM DeletionIsFinal == Spec => DeletedIsFinal
<1> DEFINE Stays == \A i \in Ids : origin[i] # None /\ email[i] = None => email'[i] = None
<1>1. TypeOK /\ AccountInv /\ [Next]_vars => [Stays]_vars
  <2> SUFFICES ASSUME TypeOK, AccountInv, [Next]_vars PROVE Stays
    OBVIOUS
  <2>1. CASE Promised!Next
    BY <2>1 DEF Promised!Next, Promised!Join, Promised!Change, Promised!Leave, TypeOK
  <2>2. CASE UNCHANGED Promised!directoryVars
    BY <2>2 DEF Promised!directoryVars
  <2> QED
    BY <2>1, <2>2, DirectoryStep
<1> QED
  BY <1>1, TypeCorrect, AccountInvariant, PTL DEF Spec, DeletedIsFinal

=============================================================================

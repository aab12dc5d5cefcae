------------------------ MODULE RefreshTokensProofs ------------------------
(***************************************************************************)
(* Theorems about RefreshTokens, for all users and requests.               *)
(***************************************************************************)
EXTENDS RefreshTokens, TLAPS

-----------------------------------------------------------------------------
(* Type correctness *)

\* Every step of a request, a deletion or the clock keeps the types.
LEMMA TypeStep == TypeOK /\ [Next]_vars => TypeOK'
<1> SUFFICES ASSUME TypeOK, [Next]_vars PROVE TypeOK'
  OBVIOUS
<1> USE NoneAssumption, BoundAssumption
<1>1. ASSUME NEW r \in Requests, NEW u \in Users, NEW n \in Tokens, Register(r, u, n) PROVE TypeOK'
  BY <1>1 DEF Register, Generate, Unused, request, history, TypeOK, Places, Ended
<1>2. ASSUME NEW r \in Requests, NEW u \in Users, LoginFind(r, u) PROVE TypeOK'
  BY <1>2 DEF LoginFind, rows, history, TypeOK, Places, Ended
<1>3. ASSUME NEW r \in Requests, NEW t \in Tokens, RefreshFind(r, t) PROVE TypeOK'
  BY <1>3 DEF RefreshFind, rows, history, vars, request, TypeOK, Places, Ended
<1>4. ASSUME NEW r \in Requests, NEW t \in Tokens, RefreshReject(r, t) PROVE TypeOK'
  BY <1>4 DEF RefreshReject, rows, history, vars, request, TypeOK, Places, Ended
<1>5. ASSUME NEW r \in Requests, NEW t \in Tokens, LogoutFind(r, t) PROVE TypeOK'
  BY <1>5 DEF LogoutFind, rows, history, vars, request, TypeOK, Places, Ended
<1>6. ASSUME NEW r \in Requests, NEW t \in Tokens, LogoutNothing(r, t) PROVE TypeOK'
  BY <1>6 DEF LogoutNothing, rows, history, vars, request, TypeOK, Places, Ended
<1>7. ASSUME NEW r \in Requests, RefreshLoad(r) PROVE TypeOK'
  BY <1>7 DEF RefreshLoad, Finish, Goto, Fault, Exchanged, Locked, rows, history, TypeOK, Places, Ended
<1>8. ASSUME NEW r \in Requests, RefreshOrphan(r) PROVE TypeOK'
  BY <1>8 DEF RefreshOrphan, Finish, Goto, Fault, Exchanged, Locked, rows, history, TypeOK, Places, Ended
<1>9. ASSUME NEW r \in Requests, RevokeOld(r) PROVE TypeOK'
  BY <1>9 DEF RevokeOld, Finish, Goto, Fault, Exchanged, Locked, rows, history, TypeOK, Places, Ended
<1>10. ASSUME NEW r \in Requests, RefreshCommit(r) PROVE TypeOK'
  BY <1>10 DEF RefreshCommit, Finish, Goto, Fault, Exchanged, Locked, rows, history, TypeOK, Places, Ended
<1>11. ASSUME NEW r \in Requests, LogoutRevoke(r) PROVE TypeOK'
  BY <1>11 DEF LogoutRevoke, Finish, Goto, Fault, Exchanged, Locked, rows, history, TypeOK, Places, Ended
<1>12. ASSUME NEW r \in Requests, LogoutMissed(r) PROVE TypeOK'
  BY <1>12 DEF LogoutMissed, Finish, Goto, Fault, Exchanged, Locked, rows, history, TypeOK, Places, Ended
<1>13. ASSUME NEW r \in Requests, LoginOrphan(r) PROVE TypeOK'
  BY <1>13 DEF LoginOrphan, Finish, Goto, Fault, Exchanged, Locked, rows, history, TypeOK, Places, Ended
<1>14. ASSUME NEW r \in Requests, RefreshError(r) PROVE TypeOK'
  BY <1>14 DEF RefreshError, Finish, Goto, Fault, Exchanged, Locked, rows, history, TypeOK, Places, Ended
<1>15. ASSUME NEW r \in Requests, RefreshCommitLost(r) PROVE TypeOK'
  BY <1>15 DEF RefreshCommitLost, Finish, Goto, Fault, Exchanged, Locked, rows, history, TypeOK, Places, Ended
<1>16. ASSUME NEW r \in Requests, LogoutError(r) PROVE TypeOK'
  BY <1>16 DEF LogoutError, Finish, Goto, Fault, Exchanged, Locked, rows, history, TypeOK, Places, Ended
<1>17. ASSUME NEW r \in Requests, NEW n \in Tokens, LoginIssue(r, n) PROVE TypeOK'
  BY <1>17 DEF LoginIssue, Finish, Generate, Unused, rows, history, TypeOK, Places, Ended
<1>18. ASSUME NEW r \in Requests, NEW n \in Tokens, RefreshIssue(r, n) PROVE TypeOK'
  BY <1>18 DEF RefreshIssue, Finish, Generate, Unused, rows, history, TypeOK, Places, Ended
<1>19. ASSUME NEW u \in Users, DeleteUser(u) PROVE TypeOK'
  BY <1>19 DEF DeleteUser, request, history, TypeOK, Places, Ended
<1>20. ASSUME NEW t \in Tokens, Expire(t) PROVE TypeOK'
  BY <1>20 DEF Expire, rows, history, request, TypeOK, Places, Ended
<1>21. CASE UNCHANGED vars
  BY <1>21 DEF vars, rows, history, request, TypeOK, Places, Ended
<1>22. ASSUME NEW r \in Requests, NEW u \in Users, NEW n \in Tokens, RegisterLost(r, u, n) PROVE TypeOK'
  BY <1>22 DEF RegisterLost, Fault, Generate, Unused, request, history, TypeOK, Places, Ended
<1>23. ASSUME NEW r \in Requests, NEW n \in Tokens, LoginIssueLost(r, n) PROVE TypeOK'
  BY <1>23 DEF LoginIssueLost, Fault, Finish, Generate, Unused, rows, history, TypeOK, Places, Ended
<1>24. ASSUME NEW r \in Requests, LoginError(r) PROVE TypeOK'
  BY <1>24 DEF LoginError, Finish, Goto, Fault, Exchanged, Locked, rows, history, TypeOK, Places, Ended
<1> QED
  BY <1>1, <1>2, <1>3, <1>4, <1>5, <1>6, <1>7, <1>8, <1>9, <1>10, <1>11, <1>12, <1>13, <1>14, <1>15, <1>16, <1>17, <1>18, <1>19, <1>20, <1>21, <1>22, <1>23, <1>24
  DEF Next, Arrive, Serve, Trouble, TypeOK

\* The types hold throughout every behaviour, and what a request holds agrees
\* with the statement it has reached.
THEOREM TypeCorrect == Spec => []TypeOK
<1>1. Init => TypeOK
  BY NoneAssumption, BoundAssumption DEF Init, TypeOK, Places, Ended
<1> QED
  BY <1>1, TypeStep, PTL DEF Spec

-----------------------------------------------------------------------------
(* Open transactions and the rows they hold *)

\* A request that has loaded its user works for the owner of the old token; one
\* that has inserted keeps that user, and its new token is nobody else's.
InsertInv ==
    \A r \in Requests :
        /\ pc[r] \in {"loaded", "issued", "revoked"} => who[r] = owner[old[r]]
        /\ pc[r] \in {"issued", "revoked"} =>
              /\ account[who[r]] = "present"
              /\ token[new[r]] = "unused"
              /\ \A q \in Requests : new[q] = new[r] => q = r

\* The row lock: a token that an open transaction has revoked is live for all
\* the others, and no other open transaction has revoked it.
LockInv ==
    \A r \in Requests : pc[r] = "revoked" =>
        /\ token[old[r]] = "live"
        /\ \A q \in Requests : pc[q] = "revoked" /\ old[q] = old[r] => q = r

\* Only ended tokens have been exchanged, only stored tokens are part of a
\* chain.
ChainInv ==
    /\ \A n \in Tokens : parent[n] # None => token[parent[n]] \in Ended /\ token[n] # "unused"
    /\ \A n \in Tokens : token[n] = "unused" =>
          /\ session[n] = n
          /\ \A m \in Tokens : session[m] = n => m = n

TokenInv == InsertInv /\ LockInv /\ ChainInv /\ ExchangedOnce
            /\ OneLiveTokenPerSession /\ NoOrphanedToken /\ HeldIsStored

\* The foreign key of CreateRefreshToken keeps the user of an open insert from
\* being deleted, and Generate keeps new tokens apart.
LEMMA InsertStep ==
    ASSUME TypeOK, InsertInv, LockInv, NoOrphanedToken, [Next]_vars
    PROVE  InsertInv'
<1> USE NoneAssumption DEF TypeOK, Places, Ended
<1>1. ASSUME NEW r \in Requests, NEW u \in Users, NEW n \in Tokens, Register(r, u, n) PROVE InsertInv'
  BY <1>1 DEF Register, Generate, Unused, request, history, InsertInv, LockInv, NoOrphanedToken
<1>2. ASSUME NEW r \in Requests, NEW u \in Users, LoginFind(r, u) PROVE InsertInv'
  BY <1>2 DEF LoginFind, rows, history, InsertInv, LockInv, NoOrphanedToken
<1>3. ASSUME NEW r \in Requests, NEW t \in Tokens, RefreshFind(r, t) PROVE InsertInv'
  BY <1>3 DEF RefreshFind, rows, history, vars, request, InsertInv, LockInv, NoOrphanedToken
<1>4. ASSUME NEW r \in Requests, NEW t \in Tokens, RefreshReject(r, t) PROVE InsertInv'
  BY <1>4 DEF RefreshReject, rows, history, vars, request, InsertInv, LockInv, NoOrphanedToken
<1>5. ASSUME NEW r \in Requests, NEW t \in Tokens, LogoutFind(r, t) PROVE InsertInv'
  BY <1>5 DEF LogoutFind, rows, history, vars, request, InsertInv, LockInv, NoOrphanedToken
<1>6. ASSUME NEW r \in Requests, NEW t \in Tokens, LogoutNothing(r, t) PROVE InsertInv'
  BY <1>6 DEF LogoutNothing, rows, history, vars, request, InsertInv, LockInv, NoOrphanedToken
<1>7. ASSUME NEW r \in Requests, RefreshLoad(r) PROVE InsertInv'
  BY <1>7 DEF RefreshLoad, Finish, Goto, Fault, Exchanged, Locked, rows, history, InsertInv, LockInv, NoOrphanedToken
<1>8. ASSUME NEW r \in Requests, RefreshOrphan(r) PROVE InsertInv'
  BY <1>8 DEF RefreshOrphan, Finish, Goto, Fault, Exchanged, Locked, rows, history, InsertInv, LockInv, NoOrphanedToken
<1>9. ASSUME NEW r \in Requests, RevokeOld(r) PROVE InsertInv'
  BY <1>9 DEF RevokeOld, Finish, Goto, Fault, Exchanged, Locked, rows, history, InsertInv, LockInv, NoOrphanedToken
<1>10. ASSUME NEW r \in Requests, RefreshCommit(r) PROVE InsertInv'
  BY <1>10 DEF RefreshCommit, Finish, Goto, Fault, Exchanged, Locked, rows, history, InsertInv, LockInv, NoOrphanedToken
<1>11. ASSUME NEW r \in Requests, LogoutRevoke(r) PROVE InsertInv'
  BY <1>11 DEF LogoutRevoke, Finish, Goto, Fault, Exchanged, Locked, rows, history, InsertInv, LockInv, NoOrphanedToken
<1>12. ASSUME NEW r \in Requests, LogoutMissed(r) PROVE InsertInv'
  BY <1>12 DEF LogoutMissed, Finish, Goto, Fault, Exchanged, Locked, rows, history, InsertInv, LockInv, NoOrphanedToken
<1>13. ASSUME NEW r \in Requests, LoginOrphan(r) PROVE InsertInv'
  BY <1>13 DEF LoginOrphan, Finish, Goto, Fault, Exchanged, Locked, rows, history, InsertInv, LockInv, NoOrphanedToken
<1>14. ASSUME NEW r \in Requests, RefreshError(r) PROVE InsertInv'
  BY <1>14 DEF RefreshError, Finish, Goto, Fault, Exchanged, Locked, rows, history, InsertInv, LockInv, NoOrphanedToken
<1>15. ASSUME NEW r \in Requests, RefreshCommitLost(r) PROVE InsertInv'
  BY <1>15 DEF RefreshCommitLost, Finish, Goto, Fault, Exchanged, Locked, rows, history, InsertInv, LockInv, NoOrphanedToken
<1>16. ASSUME NEW r \in Requests, LogoutError(r) PROVE InsertInv'
  BY <1>16 DEF LogoutError, Finish, Goto, Fault, Exchanged, Locked, rows, history, InsertInv, LockInv, NoOrphanedToken
<1>17. ASSUME NEW r \in Requests, NEW n \in Tokens, LoginIssue(r, n) PROVE InsertInv'
  BY <1>17 DEF LoginIssue, Finish, Generate, Unused, rows, history, InsertInv, LockInv, NoOrphanedToken
<1>18. ASSUME NEW r \in Requests, NEW n \in Tokens, RefreshIssue(r, n) PROVE InsertInv'
  BY <1>18 DEF RefreshIssue, Finish, Generate, Unused, rows, history, InsertInv, LockInv, NoOrphanedToken
<1>19. ASSUME NEW u \in Users, DeleteUser(u) PROVE InsertInv'
  BY <1>19 DEF DeleteUser, request, history, InsertInv, LockInv, NoOrphanedToken
<1>20. ASSUME NEW t \in Tokens, Expire(t) PROVE InsertInv'
  BY <1>20 DEF Expire, rows, history, request, InsertInv, LockInv, NoOrphanedToken
<1>21. CASE UNCHANGED vars
  BY <1>21 DEF vars, rows, history, request, InsertInv, LockInv, NoOrphanedToken
<1>22. ASSUME NEW r \in Requests, NEW u \in Users, NEW n \in Tokens, RegisterLost(r, u, n) PROVE InsertInv'
  BY <1>22 DEF RegisterLost, Fault, Generate, Unused, request, history, InsertInv, LockInv, NoOrphanedToken
<1>23. ASSUME NEW r \in Requests, NEW n \in Tokens, LoginIssueLost(r, n) PROVE InsertInv'
  BY <1>23 DEF LoginIssueLost, Fault, Finish, Generate, Unused, rows, history, InsertInv, LockInv, NoOrphanedToken
<1>24. ASSUME NEW r \in Requests, LoginError(r) PROVE InsertInv'
  BY <1>24 DEF LoginError, Finish, Goto, Fault, Exchanged, Locked, rows, history, InsertInv, LockInv, NoOrphanedToken
<1> QED
  BY <1>1, <1>2, <1>3, <1>4, <1>5, <1>6, <1>7, <1>8, <1>9, <1>10, <1>11, <1>12, <1>13, <1>14, <1>15, <1>16, <1>17, <1>18, <1>19, <1>20, <1>21, <1>22, <1>23, <1>24
  DEF Next, Arrive, Serve, Trouble

\* Nobody updates a token that an open transaction has revoked: RevokeOld and
\* LogoutRevoke wait, and DeleteUser waits for the user's row.
LEMMA LockStep ==
    ASSUME TypeOK, InsertInv, LockInv, [Next]_vars
    PROVE  LockInv'
<1> USE NoneAssumption DEF TypeOK, Places, Ended
<1>1. ASSUME NEW r \in Requests, NEW u \in Users, NEW n \in Tokens, Register(r, u, n) PROVE LockInv'
  BY <1>1 DEF Register, Generate, Unused, request, history, InsertInv, LockInv
<1>2. ASSUME NEW r \in Requests, NEW u \in Users, LoginFind(r, u) PROVE LockInv'
  BY <1>2 DEF LoginFind, rows, history, InsertInv, LockInv
<1>3. ASSUME NEW r \in Requests, NEW t \in Tokens, RefreshFind(r, t) PROVE LockInv'
  BY <1>3 DEF RefreshFind, rows, history, vars, request, InsertInv, LockInv
<1>4. ASSUME NEW r \in Requests, NEW t \in Tokens, RefreshReject(r, t) PROVE LockInv'
  BY <1>4 DEF RefreshReject, rows, history, vars, request, InsertInv, LockInv
<1>5. ASSUME NEW r \in Requests, NEW t \in Tokens, LogoutFind(r, t) PROVE LockInv'
  BY <1>5 DEF LogoutFind, rows, history, vars, request, InsertInv, LockInv
<1>6. ASSUME NEW r \in Requests, NEW t \in Tokens, LogoutNothing(r, t) PROVE LockInv'
  BY <1>6 DEF LogoutNothing, rows, history, vars, request, InsertInv, LockInv
<1>7. ASSUME NEW r \in Requests, RefreshLoad(r) PROVE LockInv'
  BY <1>7 DEF RefreshLoad, Finish, Goto, Fault, Exchanged, Locked, rows, history, InsertInv, LockInv
<1>8. ASSUME NEW r \in Requests, RefreshOrphan(r) PROVE LockInv'
  BY <1>8 DEF RefreshOrphan, Finish, Goto, Fault, Exchanged, Locked, rows, history, InsertInv, LockInv
<1>9. ASSUME NEW r \in Requests, RevokeOld(r) PROVE LockInv'
  BY <1>9 DEF RevokeOld, Finish, Goto, Fault, Exchanged, Locked, rows, history, InsertInv, LockInv
<1>10. ASSUME NEW r \in Requests, RefreshCommit(r) PROVE LockInv'
  BY <1>10 DEF RefreshCommit, Finish, Goto, Fault, Exchanged, Locked, rows, history, InsertInv, LockInv
<1>11. ASSUME NEW r \in Requests, LogoutRevoke(r) PROVE LockInv'
  BY <1>11 DEF LogoutRevoke, Finish, Goto, Fault, Exchanged, Locked, rows, history, InsertInv, LockInv
<1>12. ASSUME NEW r \in Requests, LogoutMissed(r) PROVE LockInv'
  BY <1>12 DEF LogoutMissed, Finish, Goto, Fault, Exchanged, Locked, rows, history, InsertInv, LockInv
<1>13. ASSUME NEW r \in Requests, LoginOrphan(r) PROVE LockInv'
  BY <1>13 DEF LoginOrphan, Finish, Goto, Fault, Exchanged, Locked, rows, history, InsertInv, LockInv
<1>14. ASSUME NEW r \in Requests, RefreshError(r) PROVE LockInv'
  BY <1>14 DEF RefreshError, Finish, Goto, Fault, Exchanged, Locked, rows, history, InsertInv, LockInv
<1>15. ASSUME NEW r \in Requests, RefreshCommitLost(r) PROVE LockInv'
  BY <1>15 DEF RefreshCommitLost, Finish, Goto, Fault, Exchanged, Locked, rows, history, InsertInv, LockInv
<1>16. ASSUME NEW r \in Requests, LogoutError(r) PROVE LockInv'
  BY <1>16 DEF LogoutError, Finish, Goto, Fault, Exchanged, Locked, rows, history, InsertInv, LockInv
<1>17. ASSUME NEW r \in Requests, NEW n \in Tokens, LoginIssue(r, n) PROVE LockInv'
  BY <1>17 DEF LoginIssue, Finish, Generate, Unused, rows, history, InsertInv, LockInv
<1>18. ASSUME NEW r \in Requests, NEW n \in Tokens, RefreshIssue(r, n) PROVE LockInv'
  BY <1>18 DEF RefreshIssue, Finish, Generate, Unused, rows, history, InsertInv, LockInv
<1>19. ASSUME NEW u \in Users, DeleteUser(u) PROVE LockInv'
  BY <1>19 DEF DeleteUser, request, history, InsertInv, LockInv
<1>20. ASSUME NEW t \in Tokens, Expire(t) PROVE LockInv'
  BY <1>20 DEF Expire, rows, history, request, InsertInv, LockInv
<1>21. CASE UNCHANGED vars
  BY <1>21 DEF vars, rows, history, request, InsertInv, LockInv
<1>22. ASSUME NEW r \in Requests, NEW u \in Users, NEW n \in Tokens, RegisterLost(r, u, n) PROVE LockInv'
  BY <1>22 DEF RegisterLost, Fault, Generate, Unused, request, history, InsertInv, LockInv
<1>23. ASSUME NEW r \in Requests, NEW n \in Tokens, LoginIssueLost(r, n) PROVE LockInv'
  BY <1>23 DEF LoginIssueLost, Fault, Finish, Generate, Unused, rows, history, InsertInv, LockInv
<1>24. ASSUME NEW r \in Requests, LoginError(r) PROVE LockInv'
  BY <1>24 DEF LoginError, Finish, Goto, Fault, Exchanged, Locked, rows, history, InsertInv, LockInv
<1> QED
  BY <1>1, <1>2, <1>3, <1>4, <1>5, <1>6, <1>7, <1>8, <1>9, <1>10, <1>11, <1>12, <1>13, <1>14, <1>15, <1>16, <1>17, <1>18, <1>19, <1>20, <1>21, <1>22, <1>23, <1>24
  DEF Next, Arrive, Serve, Trouble

\* An exchange hangs a stored token below one it has revoked.
LEMMA ChainStep ==
    ASSUME TypeOK, InsertInv, LockInv, ChainInv, HeldIsStored, [Next]_vars
    PROVE  ChainInv'
<1> USE NoneAssumption DEF TypeOK, Places, Ended
<1>1. ASSUME NEW r \in Requests, NEW u \in Users, NEW n \in Tokens, Register(r, u, n) PROVE ChainInv'
  BY <1>1 DEF Register, Generate, Unused, request, history, InsertInv, LockInv, ChainInv, HeldIsStored
<1>2. ASSUME NEW r \in Requests, NEW u \in Users, LoginFind(r, u) PROVE ChainInv'
  BY <1>2 DEF LoginFind, rows, history, InsertInv, LockInv, ChainInv, HeldIsStored
<1>3. ASSUME NEW r \in Requests, NEW t \in Tokens, RefreshFind(r, t) PROVE ChainInv'
  BY <1>3 DEF RefreshFind, rows, history, vars, request, InsertInv, LockInv, ChainInv, HeldIsStored
<1>4. ASSUME NEW r \in Requests, NEW t \in Tokens, RefreshReject(r, t) PROVE ChainInv'
  BY <1>4 DEF RefreshReject, rows, history, vars, request, InsertInv, LockInv, ChainInv, HeldIsStored
<1>5. ASSUME NEW r \in Requests, NEW t \in Tokens, LogoutFind(r, t) PROVE ChainInv'
  BY <1>5 DEF LogoutFind, rows, history, vars, request, InsertInv, LockInv, ChainInv, HeldIsStored
<1>6. ASSUME NEW r \in Requests, NEW t \in Tokens, LogoutNothing(r, t) PROVE ChainInv'
  BY <1>6 DEF LogoutNothing, rows, history, vars, request, InsertInv, LockInv, ChainInv, HeldIsStored
<1>7. ASSUME NEW r \in Requests, RefreshLoad(r) PROVE ChainInv'
  BY <1>7 DEF RefreshLoad, Finish, Goto, Fault, Exchanged, Locked, rows, history, InsertInv, LockInv, ChainInv, HeldIsStored
<1>8. ASSUME NEW r \in Requests, RefreshOrphan(r) PROVE ChainInv'
  BY <1>8 DEF RefreshOrphan, Finish, Goto, Fault, Exchanged, Locked, rows, history, InsertInv, LockInv, ChainInv, HeldIsStored
<1>9. ASSUME NEW r \in Requests, RevokeOld(r) PROVE ChainInv'
  BY <1>9 DEF RevokeOld, Finish, Goto, Fault, Exchanged, Locked, rows, history, InsertInv, LockInv, ChainInv, HeldIsStored
<1>10. ASSUME NEW r \in Requests, RefreshCommit(r) PROVE ChainInv'
  BY <1>10 DEF RefreshCommit, Finish, Goto, Fault, Exchanged, Locked, rows, history, InsertInv, LockInv, ChainInv, HeldIsStored
<1>11. ASSUME NEW r \in Requests, LogoutRevoke(r) PROVE ChainInv'
  BY <1>11 DEF LogoutRevoke, Finish, Goto, Fault, Exchanged, Locked, rows, history, InsertInv, LockInv, ChainInv, HeldIsStored
<1>12. ASSUME NEW r \in Requests, LogoutMissed(r) PROVE ChainInv'
  BY <1>12 DEF LogoutMissed, Finish, Goto, Fault, Exchanged, Locked, rows, history, InsertInv, LockInv, ChainInv, HeldIsStored
<1>13. ASSUME NEW r \in Requests, LoginOrphan(r) PROVE ChainInv'
  BY <1>13 DEF LoginOrphan, Finish, Goto, Fault, Exchanged, Locked, rows, history, InsertInv, LockInv, ChainInv, HeldIsStored
<1>14. ASSUME NEW r \in Requests, RefreshError(r) PROVE ChainInv'
  BY <1>14 DEF RefreshError, Finish, Goto, Fault, Exchanged, Locked, rows, history, InsertInv, LockInv, ChainInv, HeldIsStored
<1>15. ASSUME NEW r \in Requests, RefreshCommitLost(r) PROVE ChainInv'
  BY <1>15 DEF RefreshCommitLost, Finish, Goto, Fault, Exchanged, Locked, rows, history, InsertInv, LockInv, ChainInv, HeldIsStored
<1>16. ASSUME NEW r \in Requests, LogoutError(r) PROVE ChainInv'
  BY <1>16 DEF LogoutError, Finish, Goto, Fault, Exchanged, Locked, rows, history, InsertInv, LockInv, ChainInv, HeldIsStored
<1>17. ASSUME NEW r \in Requests, NEW n \in Tokens, LoginIssue(r, n) PROVE ChainInv'
  BY <1>17 DEF LoginIssue, Finish, Generate, Unused, rows, history, InsertInv, LockInv, ChainInv, HeldIsStored
<1>18. ASSUME NEW r \in Requests, NEW n \in Tokens, RefreshIssue(r, n) PROVE ChainInv'
  BY <1>18 DEF RefreshIssue, Finish, Generate, Unused, rows, history, InsertInv, LockInv, ChainInv, HeldIsStored
<1>19. ASSUME NEW u \in Users, DeleteUser(u) PROVE ChainInv'
  BY <1>19 DEF DeleteUser, request, history, InsertInv, LockInv, ChainInv, HeldIsStored
<1>20. ASSUME NEW t \in Tokens, Expire(t) PROVE ChainInv'
  BY <1>20 DEF Expire, rows, history, request, InsertInv, LockInv, ChainInv, HeldIsStored
<1>21. CASE UNCHANGED vars
  BY <1>21 DEF vars, rows, history, request, InsertInv, LockInv, ChainInv, HeldIsStored
<1>22. ASSUME NEW r \in Requests, NEW u \in Users, NEW n \in Tokens, RegisterLost(r, u, n) PROVE ChainInv'
  BY <1>22 DEF RegisterLost, Fault, Generate, Unused, request, history, InsertInv, LockInv, ChainInv, HeldIsStored
<1>23. ASSUME NEW r \in Requests, NEW n \in Tokens, LoginIssueLost(r, n) PROVE ChainInv'
  BY <1>23 DEF LoginIssueLost, Fault, Finish, Generate, Unused, rows, history, InsertInv, LockInv, ChainInv, HeldIsStored
<1>24. ASSUME NEW r \in Requests, LoginError(r) PROVE ChainInv'
  BY <1>24 DEF LoginError, Finish, Goto, Fault, Exchanged, Locked, rows, history, InsertInv, LockInv, ChainInv, HeldIsStored
<1> QED
  BY <1>1, <1>2, <1>3, <1>4, <1>5, <1>6, <1>7, <1>8, <1>9, <1>10, <1>11, <1>12, <1>13, <1>14, <1>15, <1>16, <1>17, <1>18, <1>19, <1>20, <1>21, <1>22, <1>23, <1>24
  DEF Next, Arrive, Serve, Trouble

\* A commit exchanges a live token, and live tokens have no successor.
LEMMA ExchangedOnceStep ==
    ASSUME TypeOK, InsertInv, LockInv, ChainInv, ExchangedOnce, [Next]_vars
    PROVE  ExchangedOnce'
<1> USE NoneAssumption DEF TypeOK, Places, Ended
<1>1. ASSUME NEW r \in Requests, NEW u \in Users, NEW n \in Tokens, Register(r, u, n) PROVE ExchangedOnce'
  BY <1>1 DEF Register, Generate, Unused, request, history, InsertInv, LockInv, ChainInv, ExchangedOnce
<1>2. ASSUME NEW r \in Requests, NEW u \in Users, LoginFind(r, u) PROVE ExchangedOnce'
  BY <1>2 DEF LoginFind, rows, history, InsertInv, LockInv, ChainInv, ExchangedOnce
<1>3. ASSUME NEW r \in Requests, NEW t \in Tokens, RefreshFind(r, t) PROVE ExchangedOnce'
  BY <1>3 DEF RefreshFind, rows, history, vars, request, InsertInv, LockInv, ChainInv, ExchangedOnce
<1>4. ASSUME NEW r \in Requests, NEW t \in Tokens, RefreshReject(r, t) PROVE ExchangedOnce'
  BY <1>4 DEF RefreshReject, rows, history, vars, request, InsertInv, LockInv, ChainInv, ExchangedOnce
<1>5. ASSUME NEW r \in Requests, NEW t \in Tokens, LogoutFind(r, t) PROVE ExchangedOnce'
  BY <1>5 DEF LogoutFind, rows, history, vars, request, InsertInv, LockInv, ChainInv, ExchangedOnce
<1>6. ASSUME NEW r \in Requests, NEW t \in Tokens, LogoutNothing(r, t) PROVE ExchangedOnce'
  BY <1>6 DEF LogoutNothing, rows, history, vars, request, InsertInv, LockInv, ChainInv, ExchangedOnce
<1>7. ASSUME NEW r \in Requests, RefreshLoad(r) PROVE ExchangedOnce'
  BY <1>7 DEF RefreshLoad, Finish, Goto, Fault, Exchanged, Locked, rows, history, InsertInv, LockInv, ChainInv, ExchangedOnce
<1>8. ASSUME NEW r \in Requests, RefreshOrphan(r) PROVE ExchangedOnce'
  BY <1>8 DEF RefreshOrphan, Finish, Goto, Fault, Exchanged, Locked, rows, history, InsertInv, LockInv, ChainInv, ExchangedOnce
<1>9. ASSUME NEW r \in Requests, RevokeOld(r) PROVE ExchangedOnce'
  BY <1>9 DEF RevokeOld, Finish, Goto, Fault, Exchanged, Locked, rows, history, InsertInv, LockInv, ChainInv, ExchangedOnce
<1>10. ASSUME NEW r \in Requests, RefreshCommit(r) PROVE ExchangedOnce'
  BY <1>10 DEF RefreshCommit, Finish, Goto, Fault, Exchanged, Locked, rows, history, InsertInv, LockInv, ChainInv, ExchangedOnce
<1>11. ASSUME NEW r \in Requests, LogoutRevoke(r) PROVE ExchangedOnce'
  BY <1>11 DEF LogoutRevoke, Finish, Goto, Fault, Exchanged, Locked, rows, history, InsertInv, LockInv, ChainInv, ExchangedOnce
<1>12. ASSUME NEW r \in Requests, LogoutMissed(r) PROVE ExchangedOnce'
  BY <1>12 DEF LogoutMissed, Finish, Goto, Fault, Exchanged, Locked, rows, history, InsertInv, LockInv, ChainInv, ExchangedOnce
<1>13. ASSUME NEW r \in Requests, LoginOrphan(r) PROVE ExchangedOnce'
  BY <1>13 DEF LoginOrphan, Finish, Goto, Fault, Exchanged, Locked, rows, history, InsertInv, LockInv, ChainInv, ExchangedOnce
<1>14. ASSUME NEW r \in Requests, RefreshError(r) PROVE ExchangedOnce'
  BY <1>14 DEF RefreshError, Finish, Goto, Fault, Exchanged, Locked, rows, history, InsertInv, LockInv, ChainInv, ExchangedOnce
<1>15. ASSUME NEW r \in Requests, RefreshCommitLost(r) PROVE ExchangedOnce'
  BY <1>15 DEF RefreshCommitLost, Finish, Goto, Fault, Exchanged, Locked, rows, history, InsertInv, LockInv, ChainInv, ExchangedOnce
<1>16. ASSUME NEW r \in Requests, LogoutError(r) PROVE ExchangedOnce'
  BY <1>16 DEF LogoutError, Finish, Goto, Fault, Exchanged, Locked, rows, history, InsertInv, LockInv, ChainInv, ExchangedOnce
<1>17. ASSUME NEW r \in Requests, NEW n \in Tokens, LoginIssue(r, n) PROVE ExchangedOnce'
  BY <1>17 DEF LoginIssue, Finish, Generate, Unused, rows, history, InsertInv, LockInv, ChainInv, ExchangedOnce
<1>18. ASSUME NEW r \in Requests, NEW n \in Tokens, RefreshIssue(r, n) PROVE ExchangedOnce'
  BY <1>18 DEF RefreshIssue, Finish, Generate, Unused, rows, history, InsertInv, LockInv, ChainInv, ExchangedOnce
<1>19. ASSUME NEW u \in Users, DeleteUser(u) PROVE ExchangedOnce'
  BY <1>19 DEF DeleteUser, request, history, InsertInv, LockInv, ChainInv, ExchangedOnce
<1>20. ASSUME NEW t \in Tokens, Expire(t) PROVE ExchangedOnce'
  BY <1>20 DEF Expire, rows, history, request, InsertInv, LockInv, ChainInv, ExchangedOnce
<1>21. CASE UNCHANGED vars
  BY <1>21 DEF vars, rows, history, request, InsertInv, LockInv, ChainInv, ExchangedOnce
<1>22. ASSUME NEW r \in Requests, NEW u \in Users, NEW n \in Tokens, RegisterLost(r, u, n) PROVE ExchangedOnce'
  BY <1>22 DEF RegisterLost, Fault, Generate, Unused, request, history, InsertInv, LockInv, ChainInv, ExchangedOnce
<1>23. ASSUME NEW r \in Requests, NEW n \in Tokens, LoginIssueLost(r, n) PROVE ExchangedOnce'
  BY <1>23 DEF LoginIssueLost, Fault, Finish, Generate, Unused, rows, history, InsertInv, LockInv, ChainInv, ExchangedOnce
<1>24. ASSUME NEW r \in Requests, LoginError(r) PROVE ExchangedOnce'
  BY <1>24 DEF LoginError, Finish, Goto, Fault, Exchanged, Locked, rows, history, InsertInv, LockInv, ChainInv, ExchangedOnce
<1> QED
  BY <1>1, <1>2, <1>3, <1>4, <1>5, <1>6, <1>7, <1>8, <1>9, <1>10, <1>11, <1>12, <1>13, <1>14, <1>15, <1>16, <1>17, <1>18, <1>19, <1>20, <1>21, <1>22, <1>23, <1>24
  DEF Next, Arrive, Serve, Trouble

\* A commit revokes the live token of a session as it adds one.
LEMMA OneLiveStep ==
    ASSUME TypeOK, InsertInv, LockInv, ChainInv, OneLiveTokenPerSession, [Next]_vars
    PROVE  OneLiveTokenPerSession'
<1> USE NoneAssumption DEF TypeOK, Places, Ended
<1>1. ASSUME NEW r \in Requests, NEW u \in Users, NEW n \in Tokens, Register(r, u, n) PROVE OneLiveTokenPerSession'
  BY <1>1 DEF Register, Generate, Unused, request, history, InsertInv, LockInv, ChainInv, OneLiveTokenPerSession
<1>2. ASSUME NEW r \in Requests, NEW u \in Users, LoginFind(r, u) PROVE OneLiveTokenPerSession'
  BY <1>2 DEF LoginFind, rows, history, InsertInv, LockInv, ChainInv, OneLiveTokenPerSession
<1>3. ASSUME NEW r \in Requests, NEW t \in Tokens, RefreshFind(r, t) PROVE OneLiveTokenPerSession'
  BY <1>3 DEF RefreshFind, rows, history, vars, request, InsertInv, LockInv, ChainInv, OneLiveTokenPerSession
<1>4. ASSUME NEW r \in Requests, NEW t \in Tokens, RefreshReject(r, t) PROVE OneLiveTokenPerSession'
  BY <1>4 DEF RefreshReject, rows, history, vars, request, InsertInv, LockInv, ChainInv, OneLiveTokenPerSession
<1>5. ASSUME NEW r \in Requests, NEW t \in Tokens, LogoutFind(r, t) PROVE OneLiveTokenPerSession'
  BY <1>5 DEF LogoutFind, rows, history, vars, request, InsertInv, LockInv, ChainInv, OneLiveTokenPerSession
<1>6. ASSUME NEW r \in Requests, NEW t \in Tokens, LogoutNothing(r, t) PROVE OneLiveTokenPerSession'
  BY <1>6 DEF LogoutNothing, rows, history, vars, request, InsertInv, LockInv, ChainInv, OneLiveTokenPerSession
<1>7. ASSUME NEW r \in Requests, RefreshLoad(r) PROVE OneLiveTokenPerSession'
  BY <1>7 DEF RefreshLoad, Finish, Goto, Fault, Exchanged, Locked, rows, history, InsertInv, LockInv, ChainInv, OneLiveTokenPerSession
<1>8. ASSUME NEW r \in Requests, RefreshOrphan(r) PROVE OneLiveTokenPerSession'
  BY <1>8 DEF RefreshOrphan, Finish, Goto, Fault, Exchanged, Locked, rows, history, InsertInv, LockInv, ChainInv, OneLiveTokenPerSession
<1>9. ASSUME NEW r \in Requests, RevokeOld(r) PROVE OneLiveTokenPerSession'
  BY <1>9 DEF RevokeOld, Finish, Goto, Fault, Exchanged, Locked, rows, history, InsertInv, LockInv, ChainInv, OneLiveTokenPerSession
<1>10. ASSUME NEW r \in Requests, RefreshCommit(r) PROVE OneLiveTokenPerSession'
  BY <1>10 DEF RefreshCommit, Finish, Goto, Fault, Exchanged, Locked, rows, history, InsertInv, LockInv, ChainInv, OneLiveTokenPerSession
<1>11. ASSUME NEW r \in Requests, LogoutRevoke(r) PROVE OneLiveTokenPerSession'
  BY <1>11 DEF LogoutRevoke, Finish, Goto, Fault, Exchanged, Locked, rows, history, InsertInv, LockInv, ChainInv, OneLiveTokenPerSession
<1>12. ASSUME NEW r \in Requests, LogoutMissed(r) PROVE OneLiveTokenPerSession'
  BY <1>12 DEF LogoutMissed, Finish, Goto, Fault, Exchanged, Locked, rows, history, InsertInv, LockInv, ChainInv, OneLiveTokenPerSession
<1>13. ASSUME NEW r \in Requests, LoginOrphan(r) PROVE OneLiveTokenPerSession'
  BY <1>13 DEF LoginOrphan, Finish, Goto, Fault, Exchanged, Locked, rows, history, InsertInv, LockInv, ChainInv, OneLiveTokenPerSession
<1>14. ASSUME NEW r \in Requests, RefreshError(r) PROVE OneLiveTokenPerSession'
  BY <1>14 DEF RefreshError, Finish, Goto, Fault, Exchanged, Locked, rows, history, InsertInv, LockInv, ChainInv, OneLiveTokenPerSession
<1>15. ASSUME NEW r \in Requests, RefreshCommitLost(r) PROVE OneLiveTokenPerSession'
  BY <1>15 DEF RefreshCommitLost, Finish, Goto, Fault, Exchanged, Locked, rows, history, InsertInv, LockInv, ChainInv, OneLiveTokenPerSession
<1>16. ASSUME NEW r \in Requests, LogoutError(r) PROVE OneLiveTokenPerSession'
  BY <1>16 DEF LogoutError, Finish, Goto, Fault, Exchanged, Locked, rows, history, InsertInv, LockInv, ChainInv, OneLiveTokenPerSession
<1>17. ASSUME NEW r \in Requests, NEW n \in Tokens, LoginIssue(r, n) PROVE OneLiveTokenPerSession'
  BY <1>17 DEF LoginIssue, Finish, Generate, Unused, rows, history, InsertInv, LockInv, ChainInv, OneLiveTokenPerSession
<1>18. ASSUME NEW r \in Requests, NEW n \in Tokens, RefreshIssue(r, n) PROVE OneLiveTokenPerSession'
  BY <1>18 DEF RefreshIssue, Finish, Generate, Unused, rows, history, InsertInv, LockInv, ChainInv, OneLiveTokenPerSession
<1>19. ASSUME NEW u \in Users, DeleteUser(u) PROVE OneLiveTokenPerSession'
  BY <1>19 DEF DeleteUser, request, history, InsertInv, LockInv, ChainInv, OneLiveTokenPerSession
<1>20. ASSUME NEW t \in Tokens, Expire(t) PROVE OneLiveTokenPerSession'
  BY <1>20 DEF Expire, rows, history, request, InsertInv, LockInv, ChainInv, OneLiveTokenPerSession
<1>21. CASE UNCHANGED vars
  BY <1>21 DEF vars, rows, history, request, InsertInv, LockInv, ChainInv, OneLiveTokenPerSession
<1>22. ASSUME NEW r \in Requests, NEW u \in Users, NEW n \in Tokens, RegisterLost(r, u, n) PROVE OneLiveTokenPerSession'
  BY <1>22 DEF RegisterLost, Fault, Generate, Unused, request, history, InsertInv, LockInv, ChainInv, OneLiveTokenPerSession
<1>23. ASSUME NEW r \in Requests, NEW n \in Tokens, LoginIssueLost(r, n) PROVE OneLiveTokenPerSession'
  BY <1>23 DEF LoginIssueLost, Fault, Finish, Generate, Unused, rows, history, InsertInv, LockInv, ChainInv, OneLiveTokenPerSession
<1>24. ASSUME NEW r \in Requests, LoginError(r) PROVE OneLiveTokenPerSession'
  BY <1>24 DEF LoginError, Finish, Goto, Fault, Exchanged, Locked, rows, history, InsertInv, LockInv, ChainInv, OneLiveTokenPerSession
<1> QED
  BY <1>1, <1>2, <1>3, <1>4, <1>5, <1>6, <1>7, <1>8, <1>9, <1>10, <1>11, <1>12, <1>13, <1>14, <1>15, <1>16, <1>17, <1>18, <1>19, <1>20, <1>21, <1>22, <1>23, <1>24
  DEF Next, Arrive, Serve, Trouble

\* Login inserts under the foreign key, and a deletion takes all tokens along.
LEMMA OrphanStep ==
    ASSUME TypeOK, InsertInv, NoOrphanedToken, [Next]_vars
    PROVE  NoOrphanedToken'
<1> USE NoneAssumption DEF TypeOK, Places, Ended
<1>1. ASSUME NEW r \in Requests, NEW u \in Users, NEW n \in Tokens, Register(r, u, n) PROVE NoOrphanedToken'
  BY <1>1 DEF Register, Generate, Unused, request, history, InsertInv, NoOrphanedToken
<1>2. ASSUME NEW r \in Requests, NEW u \in Users, LoginFind(r, u) PROVE NoOrphanedToken'
  BY <1>2 DEF LoginFind, rows, history, InsertInv, NoOrphanedToken
<1>3. ASSUME NEW r \in Requests, NEW t \in Tokens, RefreshFind(r, t) PROVE NoOrphanedToken'
  BY <1>3 DEF RefreshFind, rows, history, vars, request, InsertInv, NoOrphanedToken
<1>4. ASSUME NEW r \in Requests, NEW t \in Tokens, RefreshReject(r, t) PROVE NoOrphanedToken'
  BY <1>4 DEF RefreshReject, rows, history, vars, request, InsertInv, NoOrphanedToken
<1>5. ASSUME NEW r \in Requests, NEW t \in Tokens, LogoutFind(r, t) PROVE NoOrphanedToken'
  BY <1>5 DEF LogoutFind, rows, history, vars, request, InsertInv, NoOrphanedToken
<1>6. ASSUME NEW r \in Requests, NEW t \in Tokens, LogoutNothing(r, t) PROVE NoOrphanedToken'
  BY <1>6 DEF LogoutNothing, rows, history, vars, request, InsertInv, NoOrphanedToken
<1>7. ASSUME NEW r \in Requests, RefreshLoad(r) PROVE NoOrphanedToken'
  BY <1>7 DEF RefreshLoad, Finish, Goto, Fault, Exchanged, Locked, rows, history, InsertInv, NoOrphanedToken
<1>8. ASSUME NEW r \in Requests, RefreshOrphan(r) PROVE NoOrphanedToken'
  BY <1>8 DEF RefreshOrphan, Finish, Goto, Fault, Exchanged, Locked, rows, history, InsertInv, NoOrphanedToken
<1>9. ASSUME NEW r \in Requests, RevokeOld(r) PROVE NoOrphanedToken'
  BY <1>9 DEF RevokeOld, Finish, Goto, Fault, Exchanged, Locked, rows, history, InsertInv, NoOrphanedToken
<1>10. ASSUME NEW r \in Requests, RefreshCommit(r) PROVE NoOrphanedToken'
  BY <1>10 DEF RefreshCommit, Finish, Goto, Fault, Exchanged, Locked, rows, history, InsertInv, NoOrphanedToken
<1>11. ASSUME NEW r \in Requests, LogoutRevoke(r) PROVE NoOrphanedToken'
  BY <1>11 DEF LogoutRevoke, Finish, Goto, Fault, Exchanged, Locked, rows, history, InsertInv, NoOrphanedToken
<1>12. ASSUME NEW r \in Requests, LogoutMissed(r) PROVE NoOrphanedToken'
  BY <1>12 DEF LogoutMissed, Finish, Goto, Fault, Exchanged, Locked, rows, history, InsertInv, NoOrphanedToken
<1>13. ASSUME NEW r \in Requests, LoginOrphan(r) PROVE NoOrphanedToken'
  BY <1>13 DEF LoginOrphan, Finish, Goto, Fault, Exchanged, Locked, rows, history, InsertInv, NoOrphanedToken
<1>14. ASSUME NEW r \in Requests, RefreshError(r) PROVE NoOrphanedToken'
  BY <1>14 DEF RefreshError, Finish, Goto, Fault, Exchanged, Locked, rows, history, InsertInv, NoOrphanedToken
<1>15. ASSUME NEW r \in Requests, RefreshCommitLost(r) PROVE NoOrphanedToken'
  BY <1>15 DEF RefreshCommitLost, Finish, Goto, Fault, Exchanged, Locked, rows, history, InsertInv, NoOrphanedToken
<1>16. ASSUME NEW r \in Requests, LogoutError(r) PROVE NoOrphanedToken'
  BY <1>16 DEF LogoutError, Finish, Goto, Fault, Exchanged, Locked, rows, history, InsertInv, NoOrphanedToken
<1>17. ASSUME NEW r \in Requests, NEW n \in Tokens, LoginIssue(r, n) PROVE NoOrphanedToken'
  BY <1>17 DEF LoginIssue, Finish, Generate, Unused, rows, history, InsertInv, NoOrphanedToken
<1>18. ASSUME NEW r \in Requests, NEW n \in Tokens, RefreshIssue(r, n) PROVE NoOrphanedToken'
  BY <1>18 DEF RefreshIssue, Finish, Generate, Unused, rows, history, InsertInv, NoOrphanedToken
<1>19. ASSUME NEW u \in Users, DeleteUser(u) PROVE NoOrphanedToken'
  BY <1>19 DEF DeleteUser, request, history, InsertInv, NoOrphanedToken
<1>20. ASSUME NEW t \in Tokens, Expire(t) PROVE NoOrphanedToken'
  BY <1>20 DEF Expire, rows, history, request, InsertInv, NoOrphanedToken
<1>21. CASE UNCHANGED vars
  BY <1>21 DEF vars, rows, history, request, InsertInv, NoOrphanedToken
<1>22. ASSUME NEW r \in Requests, NEW u \in Users, NEW n \in Tokens, RegisterLost(r, u, n) PROVE NoOrphanedToken'
  BY <1>22 DEF RegisterLost, Fault, Generate, Unused, request, history, InsertInv, NoOrphanedToken
<1>23. ASSUME NEW r \in Requests, NEW n \in Tokens, LoginIssueLost(r, n) PROVE NoOrphanedToken'
  BY <1>23 DEF LoginIssueLost, Fault, Finish, Generate, Unused, rows, history, InsertInv, NoOrphanedToken
<1>24. ASSUME NEW r \in Requests, LoginError(r) PROVE NoOrphanedToken'
  BY <1>24 DEF LoginError, Finish, Goto, Fault, Exchanged, Locked, rows, history, InsertInv, NoOrphanedToken
<1> QED
  BY <1>1, <1>2, <1>3, <1>4, <1>5, <1>6, <1>7, <1>8, <1>9, <1>10, <1>11, <1>12, <1>13, <1>14, <1>15, <1>16, <1>17, <1>18, <1>19, <1>20, <1>21, <1>22, <1>23, <1>24
  DEF Next, Arrive, Serve, Trouble

\* Clients get tokens from commits only.
LEMMA HeldStep ==
    ASSUME TypeOK, InsertInv, HeldIsStored, [Next]_vars
    PROVE  HeldIsStored'
<1> USE NoneAssumption DEF TypeOK, Places, Ended
<1>1. ASSUME NEW r \in Requests, NEW u \in Users, NEW n \in Tokens, Register(r, u, n) PROVE HeldIsStored'
  BY <1>1 DEF Register, Generate, Unused, request, history, InsertInv, HeldIsStored
<1>2. ASSUME NEW r \in Requests, NEW u \in Users, LoginFind(r, u) PROVE HeldIsStored'
  BY <1>2 DEF LoginFind, rows, history, InsertInv, HeldIsStored
<1>3. ASSUME NEW r \in Requests, NEW t \in Tokens, RefreshFind(r, t) PROVE HeldIsStored'
  BY <1>3 DEF RefreshFind, rows, history, vars, request, InsertInv, HeldIsStored
<1>4. ASSUME NEW r \in Requests, NEW t \in Tokens, RefreshReject(r, t) PROVE HeldIsStored'
  BY <1>4 DEF RefreshReject, rows, history, vars, request, InsertInv, HeldIsStored
<1>5. ASSUME NEW r \in Requests, NEW t \in Tokens, LogoutFind(r, t) PROVE HeldIsStored'
  BY <1>5 DEF LogoutFind, rows, history, vars, request, InsertInv, HeldIsStored
<1>6. ASSUME NEW r \in Requests, NEW t \in Tokens, LogoutNothing(r, t) PROVE HeldIsStored'
  BY <1>6 DEF LogoutNothing, rows, history, vars, request, InsertInv, HeldIsStored
<1>7. ASSUME NEW r \in Requests, RefreshLoad(r) PROVE HeldIsStored'
  BY <1>7 DEF RefreshLoad, Finish, Goto, Fault, Exchanged, Locked, rows, history, InsertInv, HeldIsStored
<1>8. ASSUME NEW r \in Requests, RefreshOrphan(r) PROVE HeldIsStored'
  BY <1>8 DEF RefreshOrphan, Finish, Goto, Fault, Exchanged, Locked, rows, history, InsertInv, HeldIsStored
<1>9. ASSUME NEW r \in Requests, RevokeOld(r) PROVE HeldIsStored'
  BY <1>9 DEF RevokeOld, Finish, Goto, Fault, Exchanged, Locked, rows, history, InsertInv, HeldIsStored
<1>10. ASSUME NEW r \in Requests, RefreshCommit(r) PROVE HeldIsStored'
  BY <1>10 DEF RefreshCommit, Finish, Goto, Fault, Exchanged, Locked, rows, history, InsertInv, HeldIsStored
<1>11. ASSUME NEW r \in Requests, LogoutRevoke(r) PROVE HeldIsStored'
  BY <1>11 DEF LogoutRevoke, Finish, Goto, Fault, Exchanged, Locked, rows, history, InsertInv, HeldIsStored
<1>12. ASSUME NEW r \in Requests, LogoutMissed(r) PROVE HeldIsStored'
  BY <1>12 DEF LogoutMissed, Finish, Goto, Fault, Exchanged, Locked, rows, history, InsertInv, HeldIsStored
<1>13. ASSUME NEW r \in Requests, LoginOrphan(r) PROVE HeldIsStored'
  BY <1>13 DEF LoginOrphan, Finish, Goto, Fault, Exchanged, Locked, rows, history, InsertInv, HeldIsStored
<1>14. ASSUME NEW r \in Requests, RefreshError(r) PROVE HeldIsStored'
  BY <1>14 DEF RefreshError, Finish, Goto, Fault, Exchanged, Locked, rows, history, InsertInv, HeldIsStored
<1>15. ASSUME NEW r \in Requests, RefreshCommitLost(r) PROVE HeldIsStored'
  BY <1>15 DEF RefreshCommitLost, Finish, Goto, Fault, Exchanged, Locked, rows, history, InsertInv, HeldIsStored
<1>16. ASSUME NEW r \in Requests, LogoutError(r) PROVE HeldIsStored'
  BY <1>16 DEF LogoutError, Finish, Goto, Fault, Exchanged, Locked, rows, history, InsertInv, HeldIsStored
<1>17. ASSUME NEW r \in Requests, NEW n \in Tokens, LoginIssue(r, n) PROVE HeldIsStored'
  BY <1>17 DEF LoginIssue, Finish, Generate, Unused, rows, history, InsertInv, HeldIsStored
<1>18. ASSUME NEW r \in Requests, NEW n \in Tokens, RefreshIssue(r, n) PROVE HeldIsStored'
  BY <1>18 DEF RefreshIssue, Finish, Generate, Unused, rows, history, InsertInv, HeldIsStored
<1>19. ASSUME NEW u \in Users, DeleteUser(u) PROVE HeldIsStored'
  BY <1>19 DEF DeleteUser, request, history, InsertInv, HeldIsStored
<1>20. ASSUME NEW t \in Tokens, Expire(t) PROVE HeldIsStored'
  BY <1>20 DEF Expire, rows, history, request, InsertInv, HeldIsStored
<1>21. CASE UNCHANGED vars
  BY <1>21 DEF vars, rows, history, request, InsertInv, HeldIsStored
<1>22. ASSUME NEW r \in Requests, NEW u \in Users, NEW n \in Tokens, RegisterLost(r, u, n) PROVE HeldIsStored'
  BY <1>22 DEF RegisterLost, Fault, Generate, Unused, request, history, InsertInv, HeldIsStored
<1>23. ASSUME NEW r \in Requests, NEW n \in Tokens, LoginIssueLost(r, n) PROVE HeldIsStored'
  BY <1>23 DEF LoginIssueLost, Fault, Finish, Generate, Unused, rows, history, InsertInv, HeldIsStored
<1>24. ASSUME NEW r \in Requests, LoginError(r) PROVE HeldIsStored'
  BY <1>24 DEF LoginError, Finish, Goto, Fault, Exchanged, Locked, rows, history, InsertInv, HeldIsStored
<1> QED
  BY <1>1, <1>2, <1>3, <1>4, <1>5, <1>6, <1>7, <1>8, <1>9, <1>10, <1>11, <1>12, <1>13, <1>14, <1>15, <1>16, <1>17, <1>18, <1>19, <1>20, <1>21, <1>22, <1>23, <1>24
  DEF Next, Arrive, Serve, Trouble

\* The inductive invariant, part by part.
LEMMA TokenInvariant == Spec => []TokenInv
<1>1. Init => TokenInv
  BY DEF Init, TokenInv, InsertInv, LockInv, ChainInv, ExchangedOnce,
         OneLiveTokenPerSession, NoOrphanedToken, HeldIsStored
<1>2. TypeOK /\ TokenInv /\ [Next]_vars => TokenInv'
  BY InsertStep, LockStep, ChainStep, ExchangedOnceStep, OneLiveStep, OrphanStep, HeldStep
  DEF TokenInv
<1> QED
  BY <1>1, <1>2, TypeCorrect, PTL DEF Spec

\* However many Refresh requests find the same token active, the conditional
\* update and the rollback let one of them exchange it.
THEOREM TokenExchangedOnce == Spec => []ExchangedOnce
<1>1. TokenInv => ExchangedOnce
  BY DEF TokenInv
<1> QED
  BY <1>1, TokenInvariant, PTL

\* No interleaving of Login, Refresh and Logout gives a session two live tokens.
THEOREM SessionHasOneToken == Spec => []OneLiveTokenPerSession
<1>1. TokenInv => OneLiveTokenPerSession
  BY DEF TokenInv
<1> QED
  BY <1>1, TokenInvariant, PTL

\* A user may be deleted between any two statements of Login and Refresh, and
\* leaves no live token.
THEOREM TokensHaveUsers == Spec => []NoOrphanedToken
<1>1. TokenInv => NoOrphanedToken
  BY DEF TokenInv
<1> QED
  BY <1>1, TokenInvariant, PTL

\* What a client has received was committed.
THEOREM AnswersAreStored == Spec => []HeldIsStored
<1>1. TokenInv => HeldIsStored
  BY DEF TokenInv
<1> QED
  BY <1>1, TokenInvariant, PTL

-----------------------------------------------------------------------------
(* Revocation is final *)

\* Only a commit adds a successor, and it finds its old token live.
LEMMA EndedStep ==
    ASSUME TypeOK, InsertInv, LockInv, [Next]_vars, NEW z \in Tokens, token[z] \in Ended
    PROVE  /\ token'[z] \in Ended
           /\ \A n \in Tokens : parent'[n] = z => parent[n] = z
<1> DEFINE Final == /\ token'[z] \in Ended
                    /\ \A n \in Tokens : parent'[n] = z => parent[n] = z
<1> USE DEF TypeOK, Places, Ended
<1>1. ASSUME NEW r \in Requests, NEW u \in Users, NEW n \in Tokens, Register(r, u, n) PROVE Final
  BY <1>1 DEF Register, Generate, Unused, request, history, InsertInv, LockInv
<1>2. ASSUME NEW r \in Requests, NEW u \in Users, LoginFind(r, u) PROVE Final
  BY <1>2 DEF LoginFind, rows, history, InsertInv, LockInv
<1>3. ASSUME NEW r \in Requests, NEW t \in Tokens, RefreshFind(r, t) PROVE Final
  BY <1>3 DEF RefreshFind, rows, history, vars, request, InsertInv, LockInv
<1>4. ASSUME NEW r \in Requests, NEW t \in Tokens, RefreshReject(r, t) PROVE Final
  BY <1>4 DEF RefreshReject, rows, history, vars, request, InsertInv, LockInv
<1>5. ASSUME NEW r \in Requests, NEW t \in Tokens, LogoutFind(r, t) PROVE Final
  BY <1>5 DEF LogoutFind, rows, history, vars, request, InsertInv, LockInv
<1>6. ASSUME NEW r \in Requests, NEW t \in Tokens, LogoutNothing(r, t) PROVE Final
  BY <1>6 DEF LogoutNothing, rows, history, vars, request, InsertInv, LockInv
<1>7. ASSUME NEW r \in Requests, RefreshLoad(r) PROVE Final
  BY <1>7 DEF RefreshLoad, Finish, Goto, Fault, Exchanged, Locked, rows, history, InsertInv, LockInv
<1>8. ASSUME NEW r \in Requests, RefreshOrphan(r) PROVE Final
  BY <1>8 DEF RefreshOrphan, Finish, Goto, Fault, Exchanged, Locked, rows, history, InsertInv, LockInv
<1>9. ASSUME NEW r \in Requests, RevokeOld(r) PROVE Final
  BY <1>9 DEF RevokeOld, Finish, Goto, Fault, Exchanged, Locked, rows, history, InsertInv, LockInv
<1>10. ASSUME NEW r \in Requests, RefreshCommit(r) PROVE Final
  BY <1>10 DEF RefreshCommit, Finish, Goto, Fault, Exchanged, Locked, rows, history, InsertInv, LockInv
<1>11. ASSUME NEW r \in Requests, LogoutRevoke(r) PROVE Final
  BY <1>11 DEF LogoutRevoke, Finish, Goto, Fault, Exchanged, Locked, rows, history, InsertInv, LockInv
<1>12. ASSUME NEW r \in Requests, LogoutMissed(r) PROVE Final
  BY <1>12 DEF LogoutMissed, Finish, Goto, Fault, Exchanged, Locked, rows, history, InsertInv, LockInv
<1>13. ASSUME NEW r \in Requests, LoginOrphan(r) PROVE Final
  BY <1>13 DEF LoginOrphan, Finish, Goto, Fault, Exchanged, Locked, rows, history, InsertInv, LockInv
<1>14. ASSUME NEW r \in Requests, RefreshError(r) PROVE Final
  BY <1>14 DEF RefreshError, Finish, Goto, Fault, Exchanged, Locked, rows, history, InsertInv, LockInv
<1>15. ASSUME NEW r \in Requests, RefreshCommitLost(r) PROVE Final
  BY <1>15 DEF RefreshCommitLost, Finish, Goto, Fault, Exchanged, Locked, rows, history, InsertInv, LockInv
<1>16. ASSUME NEW r \in Requests, LogoutError(r) PROVE Final
  BY <1>16 DEF LogoutError, Finish, Goto, Fault, Exchanged, Locked, rows, history, InsertInv, LockInv
<1>17. ASSUME NEW r \in Requests, NEW n \in Tokens, LoginIssue(r, n) PROVE Final
  BY <1>17 DEF LoginIssue, Finish, Generate, Unused, rows, history, InsertInv, LockInv
<1>18. ASSUME NEW r \in Requests, NEW n \in Tokens, RefreshIssue(r, n) PROVE Final
  BY <1>18 DEF RefreshIssue, Finish, Generate, Unused, rows, history, InsertInv, LockInv
<1>19. ASSUME NEW u \in Users, DeleteUser(u) PROVE Final
  BY <1>19 DEF DeleteUser, request, history, InsertInv, LockInv
<1>20. ASSUME NEW t \in Tokens, Expire(t) PROVE Final
  BY <1>20 DEF Expire, rows, history, request, InsertInv, LockInv
<1>21. CASE UNCHANGED vars
  BY <1>21 DEF vars, rows, history, request, InsertInv, LockInv
<1>22. ASSUME NEW r \in Requests, NEW u \in Users, NEW n \in Tokens, RegisterLost(r, u, n) PROVE Final
  BY <1>22 DEF RegisterLost, Fault, Generate, Unused, request, history, InsertInv, LockInv
<1>23. ASSUME NEW r \in Requests, NEW n \in Tokens, LoginIssueLost(r, n) PROVE Final
  BY <1>23 DEF LoginIssueLost, Fault, Finish, Generate, Unused, rows, history, InsertInv, LockInv
<1>24. ASSUME NEW r \in Requests, LoginError(r) PROVE Final
  BY <1>24 DEF LoginError, Finish, Goto, Fault, Exchanged, Locked, rows, history, InsertInv, LockInv
<1> QED
  BY <1>1, <1>2, <1>3, <1>4, <1>5, <1>6, <1>7, <1>8, <1>9, <1>10, <1>11, <1>12, <1>13, <1>14, <1>15, <1>16, <1>17, <1>18, <1>19, <1>20, <1>21, <1>22, <1>23, <1>24
  DEF Next, Arrive, Serve, Trouble

\* Once Logout, Refresh or a deletion has ended a token, requests that found it
\* live can neither revive nor exchange it.
THEOREM RevocationIsFinal == Spec => RevokedIsFinal
<1>1. TypeOK /\ TokenInv /\ [Next]_vars =>
        [\A t \in Tokens : token[t] \in Ended =>
             /\ token'[t] \in Ended
             /\ \A n \in Tokens : parent'[n] = t => parent[n] = t]_vars
  BY EndedStep DEF TokenInv
<1> QED
  BY <1>1, TypeCorrect, TokenInvariant, PTL DEF Spec, RevokedIsFinal

-----------------------------------------------------------------------------
(* Refinement of Rotation *)

\* A step of a request maps to one step of Rotation when it commits, and to a
\* stutter otherwise.
LEMMA RotationStep ==
    ASSUME TypeOK, InsertInv, LockInv, [Next]_vars
    PROVE  [Promise!Next]_(Promise!rotationVars)
<1> DEFINE Step == [Promise!Next]_(Promise!rotationVars)
<1> USE DEF Promise!rotationVars
<1>1. ASSUME NEW r \in Requests, NEW u \in Users, NEW n \in Tokens, Register(r, u, n) PROVE Step
  <2>1. Promise!Open(u, n)
    BY <1>1 DEF Promise!Open, Register, Generate, Unused, history
  <2> QED BY <2>1 DEF Promise!Next
<1>2. ASSUME NEW r \in Requests, NEW n \in Tokens, LoginIssue(r, n) PROVE Step
  <2>1. who[r] \in Users
    BY <1>2 DEF LoginIssue, TypeOK
  <2>2. Promise!Issue(who[r], n)
    BY <1>2 DEF Promise!Issue, LoginIssue, Generate, Unused, history
  <2> QED BY <2>1, <2>2 DEF Promise!Next
<1>3. ASSUME NEW r \in Requests, pc[r] = "revoked", Exchanged(r) PROVE Step
  <2>1. old[r] \in Tokens /\ new[r] \in Tokens
    BY <1>3 DEF TypeOK
  <2>2. Promise!Exchange(old[r], new[r])
    BY <1>3 DEF Promise!Exchange, Exchanged, InsertInv, LockInv
  <2> QED BY <2>1, <2>2 DEF Promise!Next
<1>4. ASSUME NEW r \in Requests, pc[r] = "leaving", token[old[r]] = "live",
             token' = [token EXCEPT ![old[r]] = "revoked"],
             UNCHANGED <<account, owner, history>>
      PROVE  Step
  <2>1. old[r] \in Tokens
    BY <1>4 DEF TypeOK
  <2>2. Promise!Revoke(old[r])
    BY <1>4 DEF Promise!Revoke, history
  <2> QED BY <2>1, <2>2 DEF Promise!Next
<1>5. ASSUME NEW u \in Users, DeleteUser(u) PROVE Step
  <2>1. Promise!Close(u)
    BY <1>5 DEF Promise!Close, DeleteUser, history
  <2> QED BY <2>1 DEF Promise!Next
<1>6. CASE UNCHANGED rows
  BY <1>6 DEF rows, history
<1>7. ASSUME NEW r \in Requests, Arrive(r) PROVE Step
  <2>1. CASE \E u \in Users, n \in Tokens : Register(r, u, n)
    BY <2>1, <1>1
  <2>2. CASE UNCHANGED rows
    BY <2>2, <1>6
  <2> QED BY <1>7, <2>1, <2>2
    DEF Arrive, LoginFind, RefreshFind, RefreshReject, LogoutFind, LogoutNothing, vars
<1>8. ASSUME NEW r \in Requests, Serve(r) PROVE Step
  <2>1. CASE \E n \in Tokens : LoginIssue(r, n)
    BY <2>1, <1>2
  <2>2. CASE RefreshCommit(r)
    BY <2>2, <1>3 DEF RefreshCommit
  <2>3. CASE LogoutRevoke(r)
    BY <2>3, <1>4 DEF LogoutRevoke
  <2>4. CASE UNCHANGED rows
    BY <2>4, <1>6
  <2> QED BY <1>8, <2>1, <2>2, <2>3, <2>4
    DEF Serve, RefreshLoad, RefreshOrphan, RevokeOld, LogoutMissed, LoginOrphan, RefreshIssue
<1>9. ASSUME NEW r \in Requests, Trouble(r) PROVE Step
  <2>1. CASE RefreshCommitLost(r)
    BY <2>1, <1>3 DEF RefreshCommitLost
  <2>2. CASE LogoutError(r)
    <3>1. CASE UNCHANGED token
      BY <2>2, <3>1, <1>6 DEF LogoutError, rows
    <3>2. CASE token[old[r]] = "live" /\ token' = [token EXCEPT ![old[r]] = "revoked"]
      BY <2>2, <3>2, <1>4 DEF LogoutError
    <3> QED BY <2>2, <3>1, <3>2 DEF LogoutError
  <2>3. CASE RefreshError(r)
    BY <2>3, <1>6 DEF RefreshError
  <2>4. ASSUME NEW u \in Users, NEW n \in Tokens, RegisterLost(r, u, n) PROVE Step
    <3>1. Promise!Open(u, n)
      BY <2>4 DEF Promise!Open, RegisterLost, Generate, Unused, history
    <3> QED BY <3>1 DEF Promise!Next
  <2>5. ASSUME NEW n \in Tokens, LoginIssueLost(r, n) PROVE Step
    <3>1. who[r] \in Users
      BY <2>5 DEF LoginIssueLost, TypeOK
    <3>2. Promise!Issue(who[r], n)
      BY <2>5 DEF Promise!Issue, LoginIssueLost, Generate, Unused, history
    <3> QED BY <3>1, <3>2 DEF Promise!Next
  <2>6. CASE LoginError(r)
    BY <2>6, <1>6 DEF LoginError
  <2> QED BY <1>9, <2>1, <2>2, <2>3, <2>4, <2>5, <2>6 DEF Trouble
<1> QED
  BY <1>5, <1>6, <1>7, <1>8, <1>9 DEF Next, Expire, vars

\* Seen from outside, tokens are issued, exchanged and revoked in single steps:
\* the statements of Refresh and Logout implement Rotation.
THEOREM RefreshTokensImplementsRotation == Spec => RotatesInOneStep
<1>1. Init => Promise!Init
  BY DEF Init, Promise!Init
<1>2. TypeOK /\ TokenInv /\ [Next]_vars => [Promise!Next]_(Promise!rotationVars)
  BY RotationStep DEF TokenInv
<1> QED
  BY <1>1, <1>2, TypeCorrect, TokenInvariant, PTL DEF Spec, RotatesInOneStep, Promise!Spec

=============================================================================

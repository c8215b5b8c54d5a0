----------------------------- MODULE AccountProofs -----------------------------
(***************************************************************************)
(* For any users, sessions and settings: the invariants of AccountDesk,    *)
(* and that every step of it is a step of AccountLifecycle or none.        *)
(***************************************************************************)
EXTENDS AccountDesk, TLAPS

(* What a pass selected has to stay due for the removal to be allowed.     *)
IInv == TypeOK /\ DoomedStayDue /\ LockCounted

USE SettingsPositive, NoneIsNoValue

LEMMA InitIInv == Init => IInv
  BY DEF Init, IInv, TypeOK, DoomedStayDue, LockCounted, Live, Due

-----------------------------------------------------------------------------
LEMMA RevokeAllTyped ==
  ASSUME NEW u, open \in [Sessions -> {None} \union Live]
  PROVE  /\ RevokeAll(u) \in [Sessions -> {None} \union (Live \ {u})]
         /\ RevokeAll(u) \in [Sessions -> {None} \union Live]
  BY DEF RevokeAll

(* Failed attempts are counted to the limit, and only the limit locks.     *)
LEMMA FailedLogin ==
  ASSUME NEW n \in 0..MaxFailed
  PROVE  LET f == _apply_failed_login(n) IN
           /\ f.count \in 0..MaxFailed /\ f.lock \in BOOLEAN
           /\ f.lock => f.count = MaxFailed
  BY DEF _apply_failed_login

(* Every step keeps the invariant.                                         *)
LEMMA NextIInv == IInv /\ [Next]_vars => IInv'
<1> SUFFICES ASSUME IInv, [Next]_vars PROVE IInv'
  OBVIOUS
<1> USE DEF IInv, TypeOK, DoomedStayDue, LockCounted, Live, Due, uvars
<1>1. ASSUME NEW u \in Users, create_user(u) PROVE IInv'
  BY <1>1 DEF create_user
<1>2. ASSUME NEW u \in Users, login_refused(u) PROVE IInv'
  BY <1>2, FailedLogin DEF login_refused, MayTry
<1>3. ASSUME NEW u \in Users, NEW s \in Sessions, login(u, s) PROVE IInv'
  <2>1. u \in Live /\ open' = [open EXCEPT ![s] = u] /\ failed' = [failed EXCEPT ![u] = 0]
    BY <1>3 DEF login, MayLogin, MayTry
  <2>2. ~locked[u] /\ UNCHANGED <<life, locked, doomed>>
    BY <1>3 DEF login, MayLogin, MayTry
  <2>3. CASE Pending(u)
    <3>1. requested[u] # None /\ requested[u] < Grace /\ u \notin doomed
      BY <1>3, <2>3 DEF login, MayLogin, InGrace
    <3>2. requested' = [requested EXCEPT ![u] = None] /\ active' = [active EXCEPT ![u] = TRUE]
      BY <1>3, <2>3 DEF login, cancel_account_deletion
    <3> QED
      BY <2>1, <2>2, <3>1, <3>2
  <2>4. CASE ~Pending(u)
    BY <1>3, <2>1, <2>2, <2>4 DEF login
  <2> QED
    BY <2>3, <2>4
<1>4. ASSUME NEW s \in Sessions, revoke_session(s) PROVE IInv'
  BY <1>4 DEF revoke_session
<1>5. ASSUME NEW u \in Users, NEW s \in Sessions, request_account_deletion(s, u) PROVE IInv'
  BY <1>5, RevokeAllTyped DEF request_account_deletion, get_current_user
<1>6. ASSUME NEW u \in Users, NEW s \in Sessions, cancel_user_account_deletion(s, u) PROVE IInv'
  BY <1>6 DEF cancel_user_account_deletion, get_current_user, InGrace, cancel_account_deletion
<1>7. ASSUME NEW u \in Users, NEW s \in Sessions, change_password(s, u) PROVE IInv'
  BY <1>7, RevokeAllTyped DEF change_password, get_current_user
<1>8. ASSUME NEW u \in Users, update_user(u) PROVE IInv'
  BY <1>8 DEF update_user
<1>9. ASSUME NEW u \in Users, lock_user(u) PROVE IInv'
  BY <1>9, RevokeAllTyped DEF lock_user
<1>10. ASSUME NEW u \in Users, unlock_user(u) PROVE IInv'
  BY <1>10 DEF unlock_user, ClearLock
<1>11. ASSUME NEW u \in Users, reset_password(u) PROVE IInv'
  BY <1>11, RevokeAllTyped DEF reset_password, ClearLock
<1>12. CASE SelectDue
  BY <1>12 DEF SelectDue
<1>13. ASSUME NEW u \in Users, purge(u) PROVE IInv'
  BY <1>13, RevokeAllTyped DEF purge
<1>14. ASSUME NEW u \in Users, purge_error(u) PROVE IInv'
  BY <1>14 DEF purge_error
<1>15. CASE Restart
  BY <1>15 DEF Restart
<1>16. CASE Day
  BY <1>16 DEF Day, NextDay
<1>17. ASSUME NEW u \in Users, LockExpires(u) PROVE IInv'
  BY <1>17 DEF LockExpires
<1>18. CASE UNCHANGED vars
  BY <1>18 DEF vars
<1> QED
  BY <1>1, <1>2, <1>3, <1>4, <1>5, <1>6, <1>7, <1>8, <1>9, <1>10, <1>11, <1>12,
     <1>13, <1>14, <1>15, <1>16, <1>17, <1>18 DEF Next

(* The tables stay typed: a session belongs to a row, and only rows ask to *)
(* be deleted.                                                             *)
THEOREM AccountTypes == Spec => []TypeOK
  BY InitIInv, NextIInv, PTL DEF Spec, IInv

(* Whoever a purge pass selected stays due until the pass reaches them.    *)
THEOREM DueSafety == Spec => []DoomedStayDue
  BY InitIInv, NextIInv, PTL DEF Spec, IInv

(* A locked account has used up its attempts.                              *)
THEOREM LockSafety == Spec => []LockCounted
  BY InitIInv, NextIInv, PTL DEF Spec, IInv

-----------------------------------------------------------------------------
(* The refinement.  A step of one user moves that account and no other.    *)
LEMMA OneMoves ==
  ASSUME NEW u \in Users, NEW from, NEW to,
         PlaceOf(u) = from, PlaceOf(u)' = to, DaysOf(u)' = 0,
         \A v \in Users \ {u} : life'[v] = life[v] /\ requested'[v] = requested[v]
  PROVE  Deletion!Move(u, from, to)
<1>1. \A v \in Users \ {u} : PlaceOf(v)' = PlaceOf(v) /\ DaysOf(v)' = DaysOf(v)
  BY DEF PlaceOf, DaysOf
<1> QED
  BY <1>1 DEF Deletion!Move

LEMMA NoneMove ==
  ASSUME UNCHANGED <<life, requested>>
  PROVE  UNCHANGED Deletion!avars
  BY DEF Deletion!avars, PlaceOf, DaysOf

LEMMA InitRefines == Init => Deletion!Init
  BY DEF Init, Deletion!Init, PlaceOf, DaysOf

(* A cancellation inside the grace period restores the account.            *)
LEMMA CancelRestores ==
  ASSUME NEW u \in Users, IInv, cancel_account_deletion(u), UNCHANGED life
  PROVE  Deletion!Restore(u)
<1>1. life[u] = "live"
  BY DEF cancel_account_deletion, InGrace, IInv, TypeOK, Live
<1>2. PlaceOf(u) = "leaving" /\ DaysOf(u) < Grace
  BY <1>1 DEF cancel_account_deletion, InGrace, PlaceOf, DaysOf
<1>3. PlaceOf(u)' = "kept" /\ DaysOf(u)' = 0
  BY <1>1 DEF cancel_account_deletion, IInv, TypeOK, PlaceOf, DaysOf
<1>4. Deletion!Move(u, "leaving", "kept")
  BY <1>2, <1>3, OneMoves DEF cancel_account_deletion, IInv, TypeOK
<1> QED
  BY <1>2, <1>4 DEF Deletion!Restore

LEMMA StepRefines == IInv /\ [Next]_vars => [Deletion!Next]_(Deletion!avars)
<1> SUFFICES ASSUME IInv, [Next]_vars PROVE [Deletion!Next]_(Deletion!avars)
  OBVIOUS
<1> USE DEF IInv, TypeOK, Live
<1>1. ASSUME NEW u \in Users, create_user(u) PROVE Deletion!Next
  <2>1. PlaceOf(u) = "unknown" /\ PlaceOf(u)' = "kept" /\ DaysOf(u)' = 0
    BY <1>1 DEF create_user, PlaceOf, DaysOf
  <2>2. Deletion!Move(u, "unknown", "kept")
    BY <1>1, <2>1, OneMoves DEF create_user
  <2> QED
    BY <2>2 DEF Deletion!Next, Deletion!Join
<1>2. ASSUME NEW u \in Users, NEW s \in Sessions, login(u, s)
      PROVE  [Deletion!Next]_(Deletion!avars)
  <2>1. CASE Pending(u)
    BY <1>2, <2>1, CancelRestores DEF login, Deletion!Next
  <2>2. CASE ~Pending(u)
    BY <1>2, <2>2, NoneMove DEF login
  <2> QED
    BY <2>1, <2>2
<1>3. ASSUME NEW u \in Users, NEW s \in Sessions, cancel_user_account_deletion(s, u)
      PROVE  Deletion!Next
  BY <1>3, CancelRestores DEF cancel_user_account_deletion, Deletion!Next
<1>4. ASSUME NEW u \in Users, NEW s \in Sessions, request_account_deletion(s, u)
      PROVE  Deletion!Next
  <2>1. life[u] = "live"
    BY <1>4 DEF request_account_deletion, get_current_user
  <2>2. PlaceOf(u) = "kept" /\ PlaceOf(u)' = "leaving" /\ DaysOf(u)' = 0
    BY <1>4, <2>1 DEF request_account_deletion, PlaceOf, DaysOf
  <2>3. Deletion!Move(u, "kept", "leaving")
    BY <1>4, <2>2, OneMoves DEF request_account_deletion
  <2> QED
    BY <2>3 DEF Deletion!Next, Deletion!Leave
<1>5. ASSUME NEW u \in Users, purge(u) PROVE Deletion!Next
  <2>1. u \in Live /\ requested[u] # None /\ requested[u] > Grace
    BY <1>5 DEF purge, DoomedStayDue, Due
  <2>2. PlaceOf(u) = "leaving" /\ DaysOf(u) > Grace
    BY <2>1 DEF PlaceOf, DaysOf
  <2>3. PlaceOf(u)' = "removed" /\ DaysOf(u)' = 0
    BY <1>5 DEF purge, PlaceOf, DaysOf
  <2>4. Deletion!Move(u, "leaving", "removed")
    BY <1>5, <2>2, <2>3, OneMoves DEF purge
  <2> QED
    BY <2>2, <2>4 DEF Deletion!Next, Deletion!Remove
<1>6. CASE Day
  <2>1. \A u \in Users : PlaceOf(u)' = PlaceOf(u)
    BY <1>6 DEF Day, NextDay, PlaceOf
  <2>2. \A u \in Users :
          DaysOf(u)' = IF PlaceOf(u) = "leaving" THEN Deletion!NextDay(DaysOf(u)) ELSE DaysOf(u)
    BY <1>6 DEF Day, NextDay, PlaceOf, DaysOf, Deletion!NextDay
  <2>3. Deletion!Day
    BY <2>1, <2>2 DEF Deletion!Day
  <2> QED
    BY <2>3 DEF Deletion!Next
<1>7. ASSUME NEW u \in Users,
             \/ login_refused(u) \/ update_user(u) \/ lock_user(u) \/ unlock_user(u)
             \/ reset_password(u) \/ purge_error(u) \/ LockExpires(u)
      PROVE  UNCHANGED Deletion!avars
  BY <1>7, NoneMove
  DEF login_refused, update_user, lock_user, unlock_user, reset_password, purge_error,
      LockExpires, uvars
<1>8. ASSUME NEW u \in Users, NEW s \in Sessions, change_password(s, u)
      PROVE  UNCHANGED Deletion!avars
  BY <1>8, NoneMove DEF change_password
<1>9. ASSUME NEW s \in Sessions, revoke_session(s) PROVE UNCHANGED Deletion!avars
  BY <1>9, NoneMove DEF revoke_session, uvars
<1>10. CASE SelectDue \/ Restart \/ UNCHANGED vars
  BY <1>10, NoneMove DEF SelectDue, Restart, uvars, vars
<1> QED
  BY <1>1, <1>2, <1>3, <1>4, <1>5, <1>6, <1>7, <1>8, <1>9, <1>10 DEF Next

(* Accounts keep the promise of AccountLifecycle: restored only inside the *)
(* grace period, removed only after it, with a deadline that never moves.  *)
THEOREM AccountRefinement == Spec => DeletionKept
  BY InitIInv, NextIInv, InitRefines, StepRefines, PTL DEF Spec, DeletionKept, Deletion!Spec
=============================================================================

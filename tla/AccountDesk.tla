------------------------------ MODULE AccountDesk ------------------------------
(***************************************************************************)
(* Accounts from creation to purge (backend/app/services/account.py,       *)
(* api/routers/auth.py, api/deps.py, workers/tasks/purge_deleted_users.py):*)
(* sign-in and lockout, the administrator's switches, the request to       *)
(* delete an account, its cancellation and the purge.  A request is one    *)
(* step; a pass of the purge selects its users first and deletes them one  *)
(* transaction at a time, with requests in between.  Users are those an    *)
(* administrator manages; the bootstrap administrator is not among them.   *)
(***************************************************************************)
EXTENDS Naturals

CONSTANTS
  Users,
  Sessions,   \* ids of the auth sessions open at once
  None,
  Grace,      \* ACCOUNT_DELETION_GRACE_PERIOD_DAYS
  MaxFailed   \* AUTH_MAX_FAILED_ATTEMPTS

ASSUME SettingsPositive == Grace \in Nat \ {0} /\ MaxFailed \in Nat \ {0}
ASSUME NoneIsNoValue == None \notin Nat /\ None \notin Users

VARIABLES
  life,       \* no row yet, a row, or a row that was purged
  active,     \* User.is_active
  requested,  \* None, or the days since deletion_requested_at, to Grace + 1
  failed,     \* User.failed_login_attempts, counted to MaxFailed
  locked,     \* User.locked_until is in the future
  open,       \* the user of a session that is neither revoked nor expired
  doomed      \* users the purge pass in progress has selected and not reached

uvars == <<life, active, requested, failed, locked>>
vars == <<life, active, requested, failed, locked, open, doomed>>

Live == {u \in Users : life[u] = "live"}

Init ==
  /\ life = [u \in Users |-> "new"]
  /\ active = [u \in Users |-> FALSE]
  /\ requested = [u \in Users |-> None]
  /\ failed = [u \in Users |-> 0]
  /\ locked = [u \in Users |-> FALSE]
  /\ open = [s \in Sessions |-> None]
  /\ doomed = {}

(* Revoked and expired rows only refuse their tokens, so they are forgotten. *)
RevokeAll(u) == [s \in Sessions |-> IF open[s] = u THEN None ELSE open[s]]

-----------------------------------------------------------------------------
(* Creation by an administrator, or by the approval of a registration.     *)
create_user(u) ==
  /\ life[u] = "new"
  /\ life' = [life EXCEPT ![u] = "live"]
  /\ \E a \in BOOLEAN : active' = [active EXCEPT ![u] = a]
  /\ UNCHANGED <<requested, failed, locked, open, doomed>>

-----------------------------------------------------------------------------
(* Signing in.                                                             *)

Pending(u) == ~active[u] /\ requested[u] # None

MayTry(u) == u \in Live /\ (active[u] \/ Pending(u)) /\ ~locked[u]

_apply_failed_login(n) ==
  IF n + 1 < MaxFailed THEN [count |-> n + 1, lock |-> FALSE]
                       ELSE [count |-> MaxFailed, lock |-> TRUE]

(* A wrong password or second factor. *)
login_refused(u) ==
  /\ MayTry(u)
  /\ LET f == _apply_failed_login(failed[u]) IN
       /\ failed' = [failed EXCEPT ![u] = f.count]
       /\ locked' = [locked EXCEPT ![u] = f.lock]
  /\ UNCHANGED <<life, active, requested, open, doomed>>

(* A slip: whoever signs in before the purge is restored. *)
RestorableUntilPurge(u) == requested[u] # None

InGrace(u) == requested[u] # None /\ requested[u] < Grace

cancel_account_deletion(u) ==
  /\ InGrace(u)
  /\ requested' = [requested EXCEPT ![u] = None]
  /\ active' = [active EXCEPT ![u] = TRUE]

MayLogin(u, s) == MayTry(u) /\ open[s] = None /\ (Pending(u) => InGrace(u))

login(u, s) ==
  /\ MayLogin(u, s)
  /\ IF Pending(u) THEN cancel_account_deletion(u) ELSE UNCHANGED <<requested, active>>
  /\ failed' = [failed EXCEPT ![u] = 0]
  /\ open' = [open EXCEPT ![s] = u]
  /\ UNCHANGED <<life, locked, doomed>>

(* Logout, the revocation of a single session, and both timeouts. *)
revoke_session(s) ==
  /\ open[s] # None
  /\ open' = [open EXCEPT ![s] = None]
  /\ UNCHANGED <<uvars, doomed>>

-----------------------------------------------------------------------------
(* Requests of a signed-in user.                                           *)

get_current_user(s, u) == open[s] = u /\ active[u] /\ ~locked[u]

request_account_deletion(s, u) ==
  /\ get_current_user(s, u)
  /\ requested[u] = None
  /\ requested' = [requested EXCEPT ![u] = 0]
  /\ active' = [active EXCEPT ![u] = FALSE]
  /\ open' = RevokeAll(u)
  /\ UNCHANGED <<life, failed, locked, doomed>>

cancel_user_account_deletion(s, u) ==
  /\ get_current_user(s, u)
  /\ cancel_account_deletion(u)
  /\ UNCHANGED <<life, failed, locked, open, doomed>>

change_password(s, u) ==
  /\ get_current_user(s, u)
  /\ failed' = [failed EXCEPT ![u] = 0]
  /\ open' = [RevokeAll(u) EXCEPT ![s] = u]
  /\ UNCHANGED <<life, active, requested, locked, doomed>>

-----------------------------------------------------------------------------
(* The administrator's requests.                                           *)

update_user(u) ==
  /\ u \in Live
  /\ active' = [active EXCEPT ![u] = ~active[u]]
  /\ UNCHANGED <<life, requested, failed, locked, open, doomed>>

lock_user(u) ==
  /\ u \in Live
  /\ locked' = [locked EXCEPT ![u] = TRUE]
  /\ failed' = [failed EXCEPT ![u] = MaxFailed]
  /\ open' = RevokeAll(u)
  /\ UNCHANGED <<life, active, requested, doomed>>

(* A slip: the counter starts over and the lock stays. *)
CounterOnly(u) ==
  /\ failed' = [failed EXCEPT ![u] = 0]
  /\ UNCHANGED locked

ClearLock(u) ==
  /\ failed' = [failed EXCEPT ![u] = 0]
  /\ locked' = [locked EXCEPT ![u] = FALSE]

unlock_user(u) ==
  /\ u \in Live /\ ClearLock(u)
  /\ UNCHANGED <<life, active, requested, open, doomed>>

(* Both the administrator's reset and the confirmation of its token. *)
reset_password(u) ==
  /\ u \in Live /\ ClearLock(u)
  /\ open' = RevokeAll(u)
  /\ UNCHANGED <<life, active, requested, doomed>>

-----------------------------------------------------------------------------
(* The purge: select, then one transaction per user.                       *)

Due == {u \in Live : requested[u] # None /\ requested[u] > Grace}

(* A slip: only accounts that are still switched off are selected. *)
SelectInactive ==
  /\ doomed = {} /\ \E u \in Due : ~active[u]
  /\ doomed' = {u \in Due : ~active[u]}
  /\ UNCHANGED <<uvars, open>>

(* A slip: everyone who asked is selected. *)
SelectAll ==
  /\ doomed = {} /\ \E u \in Live : requested[u] # None
  /\ doomed' = {u \in Live : requested[u] # None}
  /\ UNCHANGED <<uvars, open>>

SelectDue ==
  /\ doomed = {} /\ Due # {}
  /\ doomed' = Due
  /\ UNCHANGED <<uvars, open>>

(* A slip: the sessions of the user stay. *)
PurgeRow(u) ==
  /\ u \in doomed
  /\ doomed' = doomed \ {u}
  /\ life' = [life EXCEPT ![u] = "gone"]
  /\ requested' = [requested EXCEPT ![u] = None]
  /\ UNCHANGED <<active, failed, locked, open>>

(* The row goes with its sessions; nothing looks at deletion_requested_at. *)
purge(u) ==
  /\ u \in doomed
  /\ doomed' = doomed \ {u}
  /\ life' = [life EXCEPT ![u] = "gone"]
  /\ active' = [active EXCEPT ![u] = FALSE]
  /\ requested' = [requested EXCEPT ![u] = None]
  /\ failed' = [failed EXCEPT ![u] = 0]
  /\ locked' = [locked EXCEPT ![u] = FALSE]
  /\ open' = RevokeAll(u)

(* An error on one user is rolled back and the pass goes on. *)
purge_error(u) ==
  /\ u \in doomed
  /\ doomed' = doomed \ {u}
  /\ UNCHANGED <<uvars, open>>

(* The process stops and the daemon starts over. *)
Restart ==
  /\ doomed # {}
  /\ doomed' = {}
  /\ UNCHANGED <<uvars, open>>

-----------------------------------------------------------------------------
NextDay(n) == IF n > Grace THEN n ELSE n + 1

Day ==
  /\ requested' = [u \in Users |-> IF requested[u] = None THEN None ELSE NextDay(requested[u])]
  /\ UNCHANGED <<life, active, failed, locked, open, doomed>>

LockExpires(u) ==
  /\ locked[u]
  /\ locked' = [locked EXCEPT ![u] = FALSE]
  /\ UNCHANGED <<life, active, requested, failed, open, doomed>>

Next ==
  \/ \E u \in Users :
       \/ create_user(u) \/ login_refused(u)
       \/ update_user(u) \/ lock_user(u) \/ unlock_user(u) \/ reset_password(u)
       \/ purge(u) \/ purge_error(u) \/ LockExpires(u)
       \/ \E s \in Sessions :
            \/ login(u, s) \/ change_password(s, u)
            \/ request_account_deletion(s, u) \/ cancel_user_account_deletion(s, u)
  \/ \E s \in Sessions : revoke_session(s)
  \/ SelectDue \/ Restart \/ Day

Spec == Init /\ [][Next]_vars

(* Time passes and the daemon comes back; the deletion of one user may     *)
(* fail, but not every time.                                               *)
FairSpec ==
  Spec /\ WF_vars(Day) /\ WF_vars(SelectDue) /\ \A u \in Users : SF_vars(purge(u))

-----------------------------------------------------------------------------
(* Sessions belong to rows, and only rows ask to be deleted.               *)
TypeOK ==
  /\ life \in [Users -> {"new", "live", "gone"}]
  /\ active \in [Users -> BOOLEAN]
  /\ requested \in [Users -> {None} \union 0..(Grace + 1)]
  /\ failed \in [Users -> 0..MaxFailed]
  /\ locked \in [Users -> BOOLEAN]
  /\ open \in [Sessions -> {None} \union Live]
  /\ \A u \in Users \ Live : requested[u] = None
  /\ doomed \in SUBSET Users

(* The selection of a pass is not checked again when a user's turn comes,  *)
(* and need not be: nobody it selected can be restored in the meantime.    *)
DoomedStayDue == doomed \subseteq Due

(* A locked account has used up its attempts, so it takes an unlock, a     *)
(* reset or a sign-in to start counting again.                             *)
LockCounted == \A u \in Users : locked[u] => failed[u] = MaxFailed

(* An account that asked to be deleted is restored or removed in the end,  *)
(* whatever fails on the way.                                              *)
DeletionCompletes ==
  \A u \in Users : requested[u] # None ~> requested[u] = None

(* As documented: users can cancel during the grace period.  An account    *)
(* whose request was cancelled is not removed.                             *)
OnlyLeaversPurged ==
  [][\A u \in Live : life'[u] = "gone" => requested[u] # None]_vars

-----------------------------------------------------------------------------
(* The privacy policy's lifecycle, whatever administrators do meanwhile.   *)
PlaceOf(u) ==
  CASE life[u] = "new"  -> "unknown"
    [] life[u] = "gone" -> "removed"
    [] life[u] = "live" -> IF requested[u] = None THEN "kept" ELSE "leaving"

DaysOf(u) == IF requested[u] = None THEN 0 ELSE requested[u]

Deletion == INSTANCE AccountLifecycle WITH
  Accounts <- Users,
  place <- [u \in Users |-> PlaceOf(u)],
  days <- [u \in Users |-> DaysOf(u)]

DeletionKept == Deletion!Spec
=============================================================================

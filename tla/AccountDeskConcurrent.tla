------------------------- MODULE AccountDeskConcurrent -------------------------
(***************************************************************************)
(* A sign-in takes time: it reads the account, verifies the password and   *)
(* the second factor, and commits later, whatever the account has become.  *)
(* Every other request and the purge run meanwhile.                        *)
(***************************************************************************)
EXTENDS AccountDesk

VARIABLE signing  \* the sign-in under way, if any: what it read and decided

cvars == <<vars, signing>>

ConcurrentInit == Init /\ signing = {}

LoginReads(u, s) ==
  /\ signing = {} /\ MayLogin(u, s)
  /\ signing' = {[user |-> u, id |-> s, restores |-> Pending(u), count |-> failed[u]]}
  /\ UNCHANGED vars

(* Only columns that change are written: the counter if it was not 0, and  *)
(* with it the end of a lock that has expired.                             *)
LoginCommits ==
  \E l \in signing :
    /\ l.user \in Live /\ open[l.id] = None
    /\ IF l.restores
         THEN /\ requested' = [requested EXCEPT ![l.user] = None]
              /\ active' = [active EXCEPT ![l.user] = TRUE]
         ELSE UNCHANGED <<requested, active>>
    /\ failed' = IF l.count = 0 THEN failed ELSE [failed EXCEPT ![l.user] = 0]
    /\ locked' = IF l.count < MaxFailed THEN locked ELSE [locked EXCEPT ![l.user] = FALSE]
    /\ open' = [open EXCEPT ![l.id] = l.user]
    /\ signing' = {}
    /\ UNCHANGED <<life, doomed>>

(* The client gives up, the process stops, or the row is gone. *)
LoginRollsBack ==
  /\ signing # {} /\ signing' = {}
  /\ UNCHANGED vars

ConcurrentNext ==
  \/ Next /\ UNCHANGED signing
  \/ \E u \in Users, s \in Sessions : LoginReads(u, s)
  \/ LoginCommits \/ LoginRollsBack

ConcurrentSpec == ConcurrentInit /\ [][ConcurrentNext]_cvars
=============================================================================

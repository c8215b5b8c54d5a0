--------------------------- MODULE AccountLifecycle ---------------------------
(***************************************************************************)
(* What the privacy policy promises about leaving: an account that asks to *)
(* be deleted can be restored until its grace period is over, is removed   *)
(* only after it is over, and its deadline never moves.  AccountDesk       *)
(* implements this under the mapping at the end of that module.            *)
(***************************************************************************)
EXTENDS Naturals

CONSTANTS Accounts, Grace

VARIABLES
  place,  \* "unknown", "kept", "leaving" or "removed"
  days    \* days since the account asked to leave, counted to Grace + 1

avars == <<place, days>>

Init ==
  /\ place = [a \in Accounts |-> "unknown"]
  /\ days = [a \in Accounts |-> 0]

Move(a, from, to) ==
  /\ place[a] = from
  /\ place' = [place EXCEPT ![a] = to]
  /\ days' = [days EXCEPT ![a] = 0]

Join(a) == Move(a, "unknown", "kept")
Leave(a) == Move(a, "kept", "leaving")
Restore(a) == days[a] < Grace /\ Move(a, "leaving", "kept")
Remove(a) == days[a] > Grace /\ Move(a, "leaving", "removed")

NextDay(n) == IF n > Grace THEN n ELSE n + 1

Day ==
  /\ days' = [a \in Accounts |-> IF place[a] = "leaving" THEN NextDay(days[a]) ELSE days[a]]
  /\ UNCHANGED place

Next == Day \/ \E a \in Accounts : Join(a) \/ Leave(a) \/ Restore(a) \/ Remove(a)

Spec == Init /\ [][Next]_avars
=============================================================================

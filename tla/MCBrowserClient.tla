--------------------------- MODULE MCBrowserClient ---------------------------
(***************************************************************************)
(* Two tabs and two calls: both in one tab, sharing its refresh, or one in *)
(* each, refreshing against each other; and, where rotations overlapped, a *)
(* read after them, which finds what they left.                            *)
(***************************************************************************)
EXTENDS BrowserClient

CONSTANTS t1, t2, k1, k2, k3, d1

MCTabs == {t1, t2}
MCCalls == {k1, k2, k3}
MCDialogs == {d1}
MCSlots == MCTabs \union MCCalls \union MCDialogs
MCDialogOf == [t \in MCTabs |-> d1]
MCCallOps == [c \in MCCalls |->
  IF c = k3 THEN {"read"} ELSE IF c = k2 THEN {"read", "logout"}
            ELSE {"login", "read", "secure", "mfa_enable", "mfa_disable",
                  "change_password", "revoke_single_session", "logout"}]

(* Tabs are alike: the first call runs in t1.  A read and a change of the  *)
(* password meet a call of either tab, the other operations one of their   *)
(* own; a logout meets a refresh or a rotation.  The last access token     *)
(* outlives the calls.                                                     *)
InOrder ==
  /\ \A c \in MCCalls : (\A k \in MCCalls : call[k].phase = "new") /\ call'[c].phase = "flying"
       => call'[c].tab = t1
  /\ call'[k3].phase # "new" => crossed # {} /\ \A c \in {k1, k2} : call'[c].phase \in {"done", "failed"}
  /\ call'[k3].phase = "flying" => call'[k3].tab = t1
  /\ call'[k2].op = "logout" => call'[k1].op \in {"read", "change_password"}
  /\ call'[k1].op \notin {"read", "change_password"} => call'[k2].tab = call'[k1].tab
  /\ aged' < MaxPairs
=============================================================================

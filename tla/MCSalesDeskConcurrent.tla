------------------------- MODULE MCSalesDeskConcurrent -------------------------
(***************************************************************************)
(* Two sessions at a time.  A run takes the endpoints its question is      *)
(* about: the pairs of updates in flight multiply with the rows.           *)
(***************************************************************************)
EXTENDS SalesDeskConcurrent, TLC

Sessions == Permutations(Requests)

(* The endpoints of a product and the daemon. *)
ProductNext ==
  \/ \E r \in Requests :
       \/ \E p \in Products : Load(r, ProductUpdates(p))
       \/ Load(r, apply_auto_archive_rules)
       \/ CommitRequest(r) \/ Rollback(r)
  \/ Time
ProductSpec == ConcurrentInit /\ [][ProductNext]_cvars
=============================================================================

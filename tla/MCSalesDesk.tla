----------------------------- MODULE MCSalesDesk -----------------------------
(***************************************************************************)
(* Serial runs of SalesDesk.  A behaviour takes the slice of the           *)
(* operations that concern its rows, because the columns of unrelated rows *)
(* multiply: a product takes every status and its own patches and          *)
(* transactions, or it is sold, returned, archived and deleted with rows   *)
(* linked to it, a deal or a content item and an asset.  Time and the      *)
(* daemon never stop.                                                      *)
(***************************************************************************)
EXTENDS SalesDesk

NeverUsed(rows) == \A x \in rows : life[x] = "new"
Traded(p) ==
  wf[p] \in {"draft", "archived"} /\ ledger[p] \subseteq {"sale", "return"} /\ status[p] # "broken"

DeskNext ==
  \/ CreateProduct \/ DeleteProduct \/ AutoArchive
  \/ \E p \in Products : GrowDue(p)
  \/ ChangeStatus /\ (NeverUsed(Artifacts) \/ \A p \in Products : Traded(p)')
  \/ NeverUsed(Artifacts) /\ (UpdateProduct \/ CreateTransaction)
  \/ /\ \A p \in Products : Traded(p)
     /\ \/ NeverUsed(Contents \union Assets) /\ (CreateDeal \/ UpdateDeal \/ IntakeDeal)
        \/ NeverUsed(Deals) /\ (CreateItem \/ UpdateItem \/ DeleteItem \/ CreateAsset \/ UpdateAsset)

DeskSpec ==
  Init /\ [][DeskNext]_vars /\ WF_vars(AutoArchive) /\ \A p \in Products : WF_vars(GrowDue(p))
=============================================================================

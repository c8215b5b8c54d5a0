------------------------------ MODULE MCDealDesk ------------------------------
(***************************************************************************)
(* DealDesk for TLC: the checklists requests send, and the slices its runs *)
(* look at.                                                                *)
(***************************************************************************)
EXTENDS DealDesk

(* Everything done; the base items only; one of them open again; an item   *)
(* of a later stage sent early and marked as not required; an own item     *)
(* that is required and open.                                              *)
MCLists ==
  {[on |-> Items \ CustomItems, done |-> Items \ CustomItems, required |-> {}],
   [on |-> BaseItems, done |-> BaseItems, required |-> BaseItems],
   [on |-> BaseItems, done |-> {}, required |-> BaseItems],
   [on |-> NegotiatingItems, done |-> NegotiatingItems, required |-> {}],
   [on |-> CustomItems, done |-> {}, required |-> CustomItems],
   EmptyList}

(* Nobody asks for a workflow status of an approved deal: only the         *)
(* automatic re-review can move it.                                        *)
Quiet(d) == {in \in Inputs : wf[d] = "approved" => in.asked = "unset"}
QuietNext ==
  \E r \in Requests, d \in Deals :
    \/ \E in \in Quiet(d) : Load(r, create_or_update_from_email(d, in))
    \/ \E in \in Quiet(d) : Load(r, update_deal_draft(d, in))
    \/ CommitRequest(r)
QuietSpec == DealsInit /\ [][QuietNext]_dvars

(* Sessions overlap over a deal in draft, with requests that name a stage, *)
(* a product or a list with open items; a race is the last of its deal.    *)
Brief ==
  {in \in Inputs :
     /\ in.asked = "unset" /\ ~in.other
     /\ \/ in.list = Unsent
        \/ in.stage = "unset" /\ in.list \in Checklist /\ in.list.on \subseteq BaseItems /\ in.list.done = {}}

Slight(u) == u.sale \/ (u.wf = {} /\ (u.checklist = {} \/ u.stage = {}))

(* The sessions are alike, so one of them comes first. *)
First == CHOOSE r \in Requests : TRUE

DealSlice(r) ==
  /\ raced = {}
  /\ \/ /\ r = First /\ \A q \in Requests \ {r} : pending[q] = {}
        /\ Intake(r) \/ PatchDeal(r) \/ Sell(r)
     \/ /\ r # First /\ \A d \in Deals : wf[d] = "draft"
        /\ \E q \in Requests \ {r} : \E u \in pending[q] : Slight(u)
        /\ \/ \E d \in Deals, in \in Brief :
                Load(r, create_or_update_from_email(d, in)) \/ Load(r, update_deal_draft(d, in))
           \/ Sell(r)

RacesNext ==
  \/ \E r \in Requests : DealSlice(r) \/ CommitRequest(r) \/ Rollback(r)
  \/ \E d \in Deals : ProductDeleted(d)
=============================================================================

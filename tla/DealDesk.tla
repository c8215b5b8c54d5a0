------------------------------- MODULE DealDesk -------------------------------
(***************************************************************************)
(* Deal drafts and their checklists (backend/app/services/deal_service.py, *)
(* deal_checklists.py): a thread's deal is created and updated by intake,  *)
(* patched by its editors and closed by the sale of its product.  Sessions *)
(* work as in SalesDeskConcurrent: a handler decides on the row it read,   *)
(* and the columns it changed land at its commit.  One session is the      *)
(* serial desk.                                                            *)
(***************************************************************************)
EXTENDS Workflow, Naturals, FiniteSets

CONSTANTS
  Deals,             \* one per e-mail thread: thread_id is unique
  BaseItems,         \* keys the checklist of every stage requires
  NegotiatingItems,  \* keys it requires from negotiating on
  WonItems,          \* keys it requires once won
  CustomItems,       \* keys no stage knows
  Lists,             \* the checklists a request may send
  Unsent,            \* a field the request leaves out
  Requests           \* sessions open at once

Items == BaseItems \union NegotiatingItems \union WonItems \union CustomItems

(* A checklist is its items and which of them are done and required. *)
Checklist ==
  {c \in [on : SUBSET Items, done : SUBSET Items, required : SUBSET Items] :
     c.done \subseteq c.on /\ c.required \subseteq c.on}

ASSUME ListsAreChecklists == Lists \subseteq Checklist /\ Unsent \notin Checklist

Stages == {"intake", "review", "negotiating", "won", "lost"}

VARIABLES
  exists,     \* the thread has a deal draft
  stage,      \* DealDraft.status
  wf,         \* DealDraft.workflow_status
  checklist,  \* DealDraft.checklist
  linked,     \* DealDraft.product_id is not NULL
  deleted,    \* the product the deal links to, or would, is deleted
  pending,    \* per session, the update it is going to flush, if any
  raced       \* deals that changed while another session held an update

dealrows == <<exists, stage, wf, checklist, linked, deleted>>
dvars == <<exists, stage, wf, checklist, linked, deleted, pending, raced>>

EmptyList == [on |-> {}, done |-> {}, required |-> {}]

DealsInit ==
  /\ exists = [d \in Deals |-> FALSE]
  /\ stage = [d \in Deals |-> "intake"]
  /\ wf = [d \in Deals |-> "draft"]
  /\ checklist = [d \in Deals |-> EmptyList]
  /\ linked = [d \in Deals |-> FALSE]
  /\ deleted = [d \in Deals |-> FALSE]
  /\ pending = [r \in Requests |-> {}]
  /\ raced = {}

-----------------------------------------------------------------------------
(* Checklists.                                                             *)

DefaultItems(s) ==
  UNION {BaseItems,
         IF s \in {"negotiating", "won"} THEN NegotiatingItems ELSE {},
         IF s = "won" THEN WonItems ELSE {}}

(* The items the stage knows, required, with the marks of the current      *)
(* list; the request's list overrides marks and adds items of its own.     *)
(* What the current list has beyond that is dropped.                       *)
merge_checklist(current, s, override) ==
  LET base == DefaultItems(s)
  IN  [on       |-> base \union override.on,
       done     |-> override.done \union (current.done \intersect (base \ override.on)),
       required |-> base \union override.required]

missing_required_items(c) == c.required \ c.done

(* Slips: one of the two stages is entered unchecked. *)
NegotiatesUnchecked(s, c) == s = "won" => missing_required_items(c) = {}
WinsUnchecked(s, c) == s = "negotiating" => missing_required_items(c) = {}

MayEnter(s, c) == s \in {"negotiating", "won"} => missing_required_items(c) = {}

-----------------------------------------------------------------------------
(* An update: the columns whose value the handler changed, as sets with    *)
(* the new value or none.                                                  *)

Changed(old, new) == IF new = old THEN {} ELSE {new}
After(old, change) == IF change = {} THEN old ELSE CHOOSE v \in change : TRUE

Update(d, new, sale, s, w, c, l) ==
  [deal |-> d, new |-> new, sale |-> sale, stage |-> Changed(stage[d], s), wf |-> Changed(wf[d], w),
   checklist |-> Changed(checklist[d], c), linked |-> Changed(linked[d], l)]

(* A second draft of a thread violates the unique thread_id; a sale also   *)
(* updates the product, and a deal cannot link to a deleted one.           *)
Committable(u) ==
  /\ exists[u.deal] = ~u.new
  /\ deleted[u.deal] => ~u.sale /\ u.linked # {TRUE}

Apply(u) ==
  /\ exists' = [exists EXCEPT ![u.deal] = TRUE]
  /\ stage' = [stage EXCEPT ![u.deal] = After(@, u.stage)]
  /\ wf' = [wf EXCEPT ![u.deal] = After(@, u.wf)]
  /\ checklist' = [checklist EXCEPT ![u.deal] = After(@, u.checklist)]
  /\ linked' = [linked EXCEPT ![u.deal] = After(@, u.linked)]
  /\ UNCHANGED deleted

-----------------------------------------------------------------------------
(* What a request may send: a stage, a workflow status (with the reason it *)
(* needs), a product, some other relevant field (of no consequence beside  *)
(* a workflow status), a checklist.                                        *)
Inputs ==
  {in \in [stage : Stages \union {"unset"}, asked : Requested, linked : BOOLEAN,
           other : BOOLEAN, list : Lists \union {Unsent}] : in.other => in.asked = "unset"}

NextStage(d, in) == IF in.stage = "unset" THEN stage[d] ELSE in.stage
Sent(in) == IF in.list = Unsent THEN EmptyList ELSE in.list

Allowed(d, target) == validate_workflow_status_change(wf[d], target, TRUE)

(* The first intake of a thread: any stage its checklist allows. *)
IntakeNew(d, in) ==
  LET s == IF in.stage = "unset" THEN "intake" ELSE in.stage
      c == merge_checklist(EmptyList, s, Sent(in))
      w == IF in.asked = "unset" THEN "draft" ELSE in.asked
  IN  {u \in {Update(d, TRUE, FALSE, s, w, c, in.linked)} : MayEnter(s, c)}

(* Intake does not count a sent checklist as a relevant change. *)
IntakeAgain(d, in) ==
  LET s == NextStage(d, in)
      c == merge_checklist(checklist[d], s, Sent(in))
      w == TargetStatus(wf[d], in.asked, in.other \/ in.linked # linked[d])
  IN  {u \in {Update(d, FALSE, FALSE, s, w, c, in.linked)} : Allowed(d, w) /\ MayEnter(s, c)}

create_or_update_from_email(d, in) ==
  IF exists[d] THEN IntakeAgain(d, in) ELSE IntakeNew(d, in)

(* A sent checklist first replaces the stored one. *)
update_deal_draft(d, in) ==
  LET s == NextStage(d, in)
      stored == IF in.list = Unsent THEN checklist[d] ELSE in.list
      c == merge_checklist(stored, s, Sent(in))
      w == TargetStatus(wf[d], in.asked,
                        \/ in.other \/ in.linked # linked[d]
                        \/ in.list # Unsent /\ in.list # checklist[d])
  IN  {u \in {Update(d, FALSE, FALSE, s, w, c, in.linked)} :
         exists[d] /\ Allowed(d, w) /\ MayEnter(s, c)}

(* The sale of the linked product wins and archives the deal. *)
finalize_product_sale(d) ==
  {u \in {Update(d, FALSE, TRUE, "won", "archived", checklist[d], TRUE)} :
     exists[d] /\ linked[d] /\ Allowed(d, "archived")}

-----------------------------------------------------------------------------
Load(r, updates) ==
  /\ pending[r] = {}
  /\ \E u \in updates : pending' = [pending EXCEPT ![r] = {u}]
  /\ UNCHANGED <<dealrows, raced>>

Intake(r) == \E d \in Deals, in \in Inputs : Load(r, create_or_update_from_email(d, in))
PatchDeal(r) == \E d \in Deals, in \in Inputs : Load(r, update_deal_draft(d, in))
Sell(r) == \E d \in Deals : Load(r, finalize_product_sale(d))

(* Some other session has decided on this deal and not yet committed. *)
Contended(r, d) == \E q \in Requests \ {r} : \E v \in pending[q] : v.deal = d

CommitRequest(r) ==
  /\ \E u \in pending[r] :
       /\ Committable(u) /\ Apply(u)
       /\ raced' = IF Contended(r, u.deal) THEN raced \union {u.deal} ELSE raced
  /\ pending' = [pending EXCEPT ![r] = {}]

Rollback(r) ==
  /\ pending[r] # {}
  /\ pending' = [pending EXCEPT ![r] = {}]
  /\ UNCHANGED <<dealrows, raced>>

(* Deleting the product clears product_id in the database. *)
ProductDeleted(d) ==
  /\ ~deleted[d]
  /\ deleted' = [deleted EXCEPT ![d] = TRUE]
  /\ linked' = [linked EXCEPT ![d] = FALSE]
  /\ UNCHANGED <<exists, stage, wf, checklist, pending, raced>>

DealsNext ==
  \/ \E r \in Requests : Intake(r) \/ PatchDeal(r) \/ Sell(r) \/ CommitRequest(r) \/ Rollback(r)
  \/ \E d \in Deals : ProductDeleted(d)

DealsSpec == DealsInit /\ [][DealsNext]_dvars

-----------------------------------------------------------------------------
DealsTypeOK ==
  /\ exists \in [Deals -> BOOLEAN]
  /\ stage \in [Deals -> Stages]
  /\ wf \in [Deals -> WorkflowStatus]
  /\ checklist \in [Deals -> Checklist]
  /\ linked \in [Deals -> BOOLEAN]
  /\ deleted \in [Deals -> BOOLEAN]
  /\ raced \subseteq Deals
  /\ \A r \in Requests : Cardinality(pending[r]) <= 1

Complete(d) == DefaultItems(stage[d]) \subseteq checklist[d].done

(* A deal in negotiation has everything done that its stage requires,      *)
(* however often it was patched, re-read from its thread or moved since,   *)
(* unless an update was committed while another session held one.          *)
NegotiatedDealComplete ==
  \A d \in Deals \ raced : stage[d] = "negotiating" => Complete(d)

(* Only the sale of a linked product closes a deal whose checklist is not  *)
(* complete: a deal without a product is won through its checklist, unless *)
(* sessions raced for it.  The deletion of the product is no such race.    *)
WonThroughChecklist ==
  [][\A d \in Deals \ raced :
        stage'[d] = "won" /\ stage[d] # "won" /\ ~linked[d] => Complete(d)']_dvars

(* As documented: required items are validated when a deal moves into      *)
(* review, too.                                                            *)
ReviewedDealComplete == \A d \in Deals : stage[d] = "review" => Complete(d)

(* As documented: a change of a relevant field of an approved deal, its    *)
(* checklist among them, sends it back to review.                          *)
ApprovedChecklistReviewed ==
  [][\A d \in Deals : wf[d] = "approved" /\ wf'[d] = "approved"
        => checklist'[d] = checklist[d]]_dvars
=============================================================================

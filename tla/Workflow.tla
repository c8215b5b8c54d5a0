------------------------------ MODULE Workflow ------------------------------
(***************************************************************************)
(* The review workflow that products, content items, deal drafts,          *)
(* knowledge documents and assets share (backend/app/services/workflow.py).*)
(* Every operator here is a pure function of its arguments: the modules    *)
(* that own rows EXTEND this one and decide when a row may move.           *)
(***************************************************************************)

WorkflowStatus ==
  {"draft", "in_review", "approved", "rejected", "published", "archived"}

WORKFLOW_TRANSITIONS ==
  [draft     |-> {"in_review", "archived"},
   in_review |-> {"approved", "rejected", "draft"},
   approved  |-> {"published", "archived", "in_review"},
   rejected  |-> {"draft", "in_review", "archived"},
   published |-> {"in_review", "archived"},
   archived  |-> {"in_review"}]

WORKFLOW_REVIEW_DECISION_STATES == {"approved", "rejected", "published"}

(* A slip: a row that keeps its status may lose its reason. *)
ReasonOnlyOnChange(current, target, hasReason) ==
  /\ current = target \/ target \in WORKFLOW_TRANSITIONS[current]
  /\ target # current /\ target \in WORKFLOW_REVIEW_DECISION_STATES => hasReason

(* hasReason: the review_reason is a string that is not blank. *)
validate_workflow_status_change(current, target, hasReason) ==
  /\ current = target \/ target \in WORKFLOW_TRANSITIONS[current]
  /\ target \in WORKFLOW_REVIEW_DECISION_STATES => hasReason

(* relevant: some changed field is one of the entity's re-review fields. *)
requires_re_review(current, relevant) ==
  current \in {"approved", "published"} /\ relevant

(* The status a request leads to: the one it asks for, or else back to     *)
(* review when it changes a relevant field of an approved or published     *)
(* row, or else the one the row has.  Asking for a status, even for the    *)
(* current one, switches the automatic re-review off.                      *)
Requested == WorkflowStatus \union {"unset"}

TargetStatus(current, asked, relevant) ==
  IF asked # "unset" THEN asked
  ELSE IF requires_re_review(current, relevant) THEN "in_review" ELSE current
=============================================================================

------------------------- MODULE CorrespondenceProofs -------------------------
(***************************************************************************)
(* E-mail drafts, writing profiles, documents and deals, for any number of *)
(* sessions at once and of threads, drafts and rows.                       *)
(***************************************************************************)
EXTENDS MCCorrespondence, SequenceTheorems, FiniteSetTheorems, TLAPS

-----------------------------------------------------------------------------
(* Deals. What a pending update would make of stage and checklist.         *)
StageAfter(u) == After(stage[u.deal], u.stage)
ListAfter(u) == After(checklist[u.deal], u.checklist)

(* It enters or keeps a stage only with the list that stage needs, or as   *)
(* the sale of the product it linked to when it was read.                  *)
UpdateOK(u) ==
  /\ u.deal \in Deals
  /\ ~u.sale /\ StageAfter(u) \in {"negotiating", "won"} => DefaultItems(StageAfter(u)) \subseteq ListAfter(u).done
  /\ u.sale => StageAfter(u) = "won" /\ (linked[u.deal] \/ deleted[u.deal])

DealInv ==
  /\ DOMAIN stage = Deals /\ DOMAIN checklist = Deals /\ DOMAIN linked = Deals /\ DOMAIN deleted = Deals
  /\ DOMAIN pending = Requests
  /\ \A r \in Requests : \A u \in pending[r] : u.deal \notin raced => UpdateOK(u)
  /\ NegotiatedDealComplete

LEMMA AfterChanged == \A old, new : After(old, Changed(old, new)) = new
<1> SUFFICES ASSUME NEW old, NEW new PROVE After(old, Changed(old, new)) = new
  OBVIOUS
<1>1. CASE new = old
  BY <1>1 DEF After, Changed
<1>2. CASE new # old
  BY <1>2, Zenon DEF After, Changed
<1> QED
  BY <1>1, <1>2

LEMMA DealUpdated ==
  ASSUME DealInv, NEW d \in Deals, NEW new, NEW sale \in BOOLEAN, NEW s, NEW w, NEW c, NEW l,
         ~sale /\ s \in {"negotiating", "won"} => DefaultItems(s) \subseteq c.done,
         sale => s = "won" /\ linked[d],
         NEW u, u = Update(d, new, sale, s, w, c, l)
  PROVE  UpdateOK(u)
<1>1. /\ u.deal = d /\ u.sale = sale /\ u.stage = Changed(stage[d], s)
      /\ u.checklist = Changed(checklist[d], c)
  BY DEF Update
<1>2. StageAfter(u) = s /\ ListAfter(u) = c
  BY <1>1, AfterChanged DEF StageAfter, ListAfter
<1> QED
  BY <1>1, <1>2 DEF UpdateOK

(* A merged list that may enter a stage has done what the stage needs.     *)
LEMMA EnteredComplete ==
  ASSUME NEW current, NEW s, NEW override, NEW c, c = merge_checklist(current, s, override),
         MayEnter(s, c), s \in {"negotiating", "won"}
  PROVE  DefaultItems(s) \subseteq c.done
<1>1. c.required = DefaultItems(s) \union override.required
  BY DEF merge_checklist
<1> QED
  BY <1>1 DEF MayEnter, missing_required_items

LEMMA IntakeDecided ==
  ASSUME DealInv, NEW d \in Deals, NEW in \in Inputs, NEW u \in create_or_update_from_email(d, in)
  PROVE  UpdateOK(u)
<1>1. CASE exists[d]
  <2>1. PICK s, c, w : /\ s = NextStage(d, in) /\ c = merge_checklist(checklist[d], s, Sent(in))
                       /\ w = TargetStatus(wf[d], in.asked, in.other \/ in.linked # linked[d])
    OBVIOUS
  <2>2. u = Update(d, FALSE, FALSE, s, w, c, in.linked) /\ MayEnter(s, c)
    BY <1>1, <2>1 DEF create_or_update_from_email, IntakeAgain
  <2> QED
    BY <2>1, <2>2, EnteredComplete, DealUpdated
<1>2. CASE ~exists[d]
  <2>1. PICK s, c, w : /\ s = IF in.stage = "unset" THEN "intake" ELSE in.stage
                       /\ c = merge_checklist(EmptyList, s, Sent(in))
                       /\ w = IF in.asked = "unset" THEN "draft" ELSE in.asked
    OBVIOUS
  <2>2. u = Update(d, TRUE, FALSE, s, w, c, in.linked) /\ MayEnter(s, c)
    BY <1>2, <2>1 DEF create_or_update_from_email, IntakeNew
  <2> QED
    BY <2>1, <2>2, EnteredComplete, DealUpdated
<1> QED
  BY <1>1, <1>2

LEMMA PatchDecided ==
  ASSUME DealInv, NEW d \in Deals, NEW in \in Inputs, NEW u \in update_deal_draft(d, in)
  PROVE  UpdateOK(u)
<1>1. PICK s, stored, c, w :
        /\ s = NextStage(d, in) /\ stored = IF in.list = Unsent THEN checklist[d] ELSE in.list
        /\ c = merge_checklist(stored, s, Sent(in))
        /\ w = TargetStatus(wf[d], in.asked,
                 \/ in.other \/ in.linked # linked[d]
                 \/ in.list # Unsent /\ in.list # checklist[d])
  OBVIOUS
<1>2. u = Update(d, FALSE, FALSE, s, w, c, in.linked) /\ MayEnter(s, c)
  BY <1>1 DEF update_deal_draft
<1> QED
  BY <1>1, <1>2, EnteredComplete, DealUpdated

LEMMA SaleDecided ==
  ASSUME DealInv, NEW d \in Deals, NEW u \in finalize_product_sale(d)
  PROVE  UpdateOK(u)
<1>1. linked[d] /\ u = Update(d, FALSE, TRUE, "won", "archived", checklist[d], TRUE)
  BY DEF finalize_product_sale
<1> QED
  BY <1>1, DealUpdated

LEMMA InitDeals == DealsInit => DealInv
  BY DEF DealsInit, DealInv, NegotiatedDealComplete

LEMMA LoadStep ==
  ASSUME DealInv, NEW r \in Requests, NEW updates, Load(r, updates), \A u \in updates : UpdateOK(u)
  PROVE  DealInv'
<1>1. PICK v \in updates : pending' = [pending EXCEPT ![r] = {v}]
  BY DEF Load
<1>2. UNCHANGED <<stage, checklist, linked, deleted, raced>>
  BY DEF Load, dealrows
<1>3. ASSUME NEW u, UpdateOK(u) PROVE UpdateOK(u)'
  BY <1>2, <1>3 DEF UpdateOK, StageAfter, ListAfter
<1>4. ASSUME NEW q \in Requests, NEW u \in pending'[q], u.deal \notin raced PROVE UpdateOK(u)'
  BY <1>1, <1>3, <1>4 DEF DealInv
<1> QED
  BY <1>1, <1>2, <1>4 DEF DealInv, NegotiatedDealComplete, Complete

(* A commit marks the deals other sessions hold: no update that was read   *)
(* before it is left for a deal without a mark.                            *)
LEMMA CommitRequestStep ==
  ASSUME DealInv, NEW r \in Requests, CommitRequest(r)
  PROVE  /\ DealInv'
         /\ \A d \in Deals \ raced : stage'[d] = "won" /\ stage[d] # "won" /\ ~linked[d] => Complete(d)'
<1>1. PICK u \in pending[r] :
        /\ Committable(u) /\ Apply(u)
        /\ raced' = IF Contended(r, u.deal) THEN raced \union {u.deal} ELSE raced
  BY DEF CommitRequest
<1>2. u.deal \notin raced => UpdateOK(u)
  BY <1>1 DEF DealInv
<1>3. raced \subseteq raced' /\ pending' = [pending EXCEPT ![r] = {}] /\ DOMAIN pending' = Requests
  BY <1>1 DEF CommitRequest, DealInv
<1>4. /\ stage' = [stage EXCEPT ![u.deal] = StageAfter(u)]
      /\ checklist' = [checklist EXCEPT ![u.deal] = ListAfter(u)]
      /\ linked' = [linked EXCEPT ![u.deal] = After(@, u.linked)] /\ deleted' = deleted
      /\ DOMAIN linked' = Deals /\ DOMAIN deleted' = Deals
  BY <1>1 DEF Apply, DealInv, StageAfter, ListAfter
<1>5. ASSUME NEW d \in Deals, d # u.deal
      PROVE  stage'[d] = stage[d] /\ checklist'[d] = checklist[d] /\ linked'[d] = linked[d]
  BY <1>4, <1>5 DEF DealInv
<1>6. u.deal \in Deals => stage'[u.deal] = StageAfter(u) /\ checklist'[u.deal] = ListAfter(u)
  BY <1>4 DEF DealInv
<1>7. u.deal \in Deals \ raced /\ ~u.sale /\ StageAfter(u) \in {"negotiating", "won"} => Complete(u.deal)'
  BY <1>2, <1>6 DEF UpdateOK, Complete
<1>8. u.deal \notin raced /\ u.sale => StageAfter(u) = "won" /\ linked[u.deal]
  BY <1>1, <1>2 DEF UpdateOK, Committable
<1>9. NegotiatedDealComplete'
  <2> SUFFICES ASSUME NEW d \in Deals, d \notin raced', stage'[d] = "negotiating"
               PROVE  DefaultItems(stage'[d]) \subseteq checklist'[d].done
    BY DEF NegotiatedDealComplete, Complete
  <2>1. CASE d = u.deal
    BY <1>3, <1>6, <1>7, <1>8, <2>1 DEF Complete
  <2>2. CASE d # u.deal
    BY <1>3, <1>5, <2>2 DEF DealInv, NegotiatedDealComplete, Complete
  <2> QED
    BY <2>1, <2>2
<1>10. \A d \in Deals \ raced : stage'[d] = "won" /\ stage[d] # "won" /\ ~linked[d] => Complete(d)'
  BY <1>5, <1>6, <1>7, <1>8
<1>11. ASSUME NEW q \in Requests, NEW v \in pending'[q], v.deal \notin raced' PROVE UpdateOK(v)'
  <2>1. q # r /\ v \in pending[q]
    BY <1>3, <1>11 DEF DealInv
  <2>2. v.deal # u.deal
    BY <1>1, <1>11, <2>1 DEF Contended
  <2>3. UpdateOK(v)
    BY <1>3, <1>11, <2>1 DEF DealInv
  <2>4. v.deal \in Deals
    BY <2>3 DEF UpdateOK
  <2>5. /\ stage'[v.deal] = stage[v.deal] /\ checklist'[v.deal] = checklist[v.deal]
        /\ linked'[v.deal] = linked[v.deal] /\ deleted' = deleted
    BY <1>4, <1>5, <2>2, <2>4
  <2> QED
    BY <2>3, <2>5 DEF UpdateOK, StageAfter, ListAfter
<1> QED
  BY <1>3, <1>4, <1>9, <1>10, <1>11 DEF DealInv

LEMMA RollbackStep ==
  ASSUME DealInv, NEW r \in Requests, Rollback(r)
  PROVE  DealInv'
<1>1. UNCHANGED <<stage, checklist, linked, deleted, raced>> /\ pending' = [pending EXCEPT ![r] = {}]
  BY DEF Rollback, dealrows
<1>2. ASSUME NEW u, UpdateOK(u) PROVE UpdateOK(u)'
  BY <1>1, <1>2 DEF UpdateOK, StageAfter, ListAfter
<1>3. ASSUME NEW q \in Requests, NEW u \in pending'[q], u.deal \notin raced PROVE UpdateOK(u)'
  BY <1>1, <1>2, <1>3 DEF DealInv
<1> QED
  BY <1>1, <1>3 DEF DealInv, NegotiatedDealComplete, Complete

LEMMA DeletedStep ==
  ASSUME DealInv, NEW d \in Deals, ProductDeleted(d)
  PROVE  DealInv'
<1>1. /\ UNCHANGED <<stage, checklist, pending, raced>>
      /\ deleted' = [deleted EXCEPT ![d] = TRUE] /\ linked' = [linked EXCEPT ![d] = FALSE]
  BY DEF ProductDeleted
<1>2. ASSUME NEW u, UpdateOK(u) PROVE UpdateOK(u)'
  BY <1>1, <1>2 DEF UpdateOK, StageAfter, ListAfter, DealInv
<1> QED
  BY <1>1, <1>2 DEF DealInv, NegotiatedDealComplete, Complete

LEMMA NextDeals ==
  ASSUME DealInv, [DealsNext]_dvars
  PROVE  /\ DealInv'
         /\ [\A d \in Deals \ raced : stage'[d] = "won" /\ stage[d] # "won" /\ ~linked[d] => Complete(d)']_dvars
<1>1. CASE UNCHANGED dvars
  <2>1. UNCHANGED <<stage, checklist, linked, deleted, pending, raced>>
    BY <1>1 DEF dvars
  <2>2. ASSUME NEW u, UpdateOK(u) PROVE UpdateOK(u)'
    BY <2>1, <2>2 DEF UpdateOK, StageAfter, ListAfter
  <2> QED
    BY <1>1, <2>1, <2>2 DEF DealInv, NegotiatedDealComplete, Complete
<1>2. ASSUME NEW r \in Requests, Intake(r) \/ PatchDeal(r) \/ Sell(r)
      PROVE  DealInv' /\ stage' = stage
  <2>1. stage' = stage
    BY <1>2 DEF Intake, PatchDeal, Sell, Load, dealrows
  <2>2. CASE Intake(r)
    BY <2>1, <2>2, IntakeDecided, LoadStep DEF Intake
  <2>3. CASE PatchDeal(r)
    BY <2>1, <2>3, PatchDecided, LoadStep DEF PatchDeal
  <2>4. CASE Sell(r)
    BY <2>1, <2>4, SaleDecided, LoadStep DEF Sell
  <2> QED
    BY <1>2, <2>2, <2>3, <2>4
<1>3. ASSUME NEW r \in Requests, Rollback(r) PROVE DealInv' /\ stage' = stage
  BY <1>3, RollbackStep DEF Rollback, dealrows
<1>4. ASSUME NEW d \in Deals, ProductDeleted(d) PROVE DealInv' /\ stage' = stage
  BY <1>4, DeletedStep DEF ProductDeleted
<1> QED
  BY <1>1, <1>2, <1>3, <1>4, CommitRequestStep DEF DealsNext

LEMMA DealsAlways == DealsSpec => []DealInv
  BY InitDeals, NextDeals, PTL DEF DealsSpec

(* For any sessions, whatever they send: a deal in negotiation has done    *)
(* what its stage requires, unless sessions raced for it.                  *)
THEOREM NegotiationSafety == DealsSpec => []NegotiatedDealComplete
<1>1. DealInv => NegotiatedDealComplete
  BY DEF DealInv
<1> QED
  BY <1>1, DealsAlways, PTL

(* And a deal is won through its checklist or by the sale of its product,  *)
(* even when the product is deleted under the sale's feet.                 *)
THEOREM WinningSafety == DealsSpec => WonThroughChecklist
  BY DealsAlways, NextDeals, PTL DEF DealsSpec, WonThroughChecklist

(* And the table stays typed. What a session is about to flush is typed,   *)
(* whatever lists its request sent and whichever row it was decided on.    *)
UpdateTyped(u) ==
  /\ u.deal \in Deals /\ u.stage \subseteq Stages /\ u.wf \subseteq WorkflowStatus
  /\ u.checklist \subseteq Checklist /\ u.linked \subseteq BOOLEAN

DealTypeInv ==
  /\ DealsTypeOK /\ DOMAIN pending = Requests
  /\ \A r \in Requests : \A u \in pending[r] : UpdateTyped(u)

LEMMA AfterIn ==
  ASSUME NEW S, NEW old \in S, NEW change, change \subseteq S
  PROVE  After(old, change) \in S
<1>1. CASE change = {}
  BY <1>1 DEF After
<1>2. CASE change # {}
  <2>1. PICK v : v = CHOOSE x \in change : TRUE
    OBVIOUS
  <2>2. v \in change
    BY <1>2, <2>1, Zenon
  <2> QED
    BY <1>2, <2>1, <2>2 DEF After
<1> QED
  BY <1>1, <1>2

(* A merged list is a checklist: what is done or required is on it.        *)
LEMMA MergedList ==
  ASSUME NEW s, NEW current \in Checklist, NEW override \in Checklist
  PROVE  merge_checklist(current, s, override) \in Checklist
<1>1. PICK base, on, done, required :
        /\ base = DefaultItems(s) /\ on = base \union override.on
        /\ done = override.done \union (current.done \intersect (base \ override.on))
        /\ required = base \union override.required
  OBVIOUS
<1>2. base \subseteq Items
  BY <1>1 DEF DefaultItems, Items
<1>3. /\ override.on \subseteq Items /\ override.done \subseteq override.on
      /\ override.required \subseteq override.on
  BY DEF Checklist
<1>4. /\ on \subseteq Items /\ done \subseteq on /\ required \subseteq on
  BY <1>1, <1>2, <1>3
<1>5. merge_checklist(current, s, override) = [on |-> on, done |-> done, required |-> required]
  BY <1>1 DEF merge_checklist
<1>6. done \subseteq Items /\ required \subseteq Items
  BY <1>4
<1> QED
  BY <1>4, <1>5, <1>6 DEF Checklist

LEMMA UpdateTypes ==
  ASSUME NEW d \in Deals, NEW new, NEW sale, NEW s \in Stages, NEW w \in WorkflowStatus,
         NEW c \in Checklist, NEW l \in BOOLEAN, NEW u, u = Update(d, new, sale, s, w, c, l)
  PROVE  UpdateTyped(u)
  BY DEF Update, UpdateTyped, Changed

LEMMA EmptyChecklist == EmptyList \in Checklist
  BY DEF EmptyList, Checklist

LEMMA TargetTyped ==
  ASSUME NEW current \in WorkflowStatus, NEW asked \in Requested, NEW relevant
  PROVE  TargetStatus(current, asked, relevant) \in WorkflowStatus
  BY DEF TargetStatus, Requested, WorkflowStatus

LEMMA IntakeTypes ==
  ASSUME DealTypeInv, NEW d \in Deals, NEW in \in Inputs, NEW u \in create_or_update_from_email(d, in)
  PROVE  UpdateTyped(u)
<1>1. /\ stage[d] \in Stages /\ wf[d] \in WorkflowStatus /\ checklist[d] \in Checklist
      /\ in.stage \in Stages \union {"unset"} /\ in.asked \in Requested /\ in.linked \in BOOLEAN
      /\ in.list \in Lists \union {Unsent}
  BY DEF DealTypeInv, DealsTypeOK, Inputs
<1>2. PICK sent : sent = Sent(in) /\ sent \in Checklist
  BY <1>1, EmptyChecklist, ListsAreChecklists DEF Sent
<1>3. CASE exists[d]
  <2>1. PICK s, w : /\ s = NextStage(d, in)
                    /\ w = TargetStatus(wf[d], in.asked, in.other \/ in.linked # linked[d])
    OBVIOUS
  <2>2. PICK c : c = merge_checklist(checklist[d], s, sent)
    OBVIOUS
  <2>3. s \in Stages /\ w \in WorkflowStatus
    BY <1>1, <2>1, TargetTyped DEF NextStage
  <2>4. c \in Checklist
    BY <1>1, <1>2, <2>2, MergedList
  <2>5. u = Update(d, FALSE, FALSE, s, w, c, in.linked)
    BY <1>2, <1>3, <2>1, <2>2 DEF create_or_update_from_email, IntakeAgain
  <2> QED
    BY <1>1, <2>3, <2>4, <2>5, UpdateTypes
<1>4. CASE ~exists[d]
  <2>1. PICK s, w : /\ s = IF in.stage = "unset" THEN "intake" ELSE in.stage
                    /\ w = IF in.asked = "unset" THEN "draft" ELSE in.asked
    OBVIOUS
  <2>2. PICK c : c = merge_checklist(EmptyList, s, sent)
    OBVIOUS
  <2>3. s \in Stages /\ w \in WorkflowStatus
    BY <1>1, <2>1 DEF Stages, Requested, WorkflowStatus
  <2>4. c \in Checklist
    BY <1>2, <2>2, EmptyChecklist, MergedList
  <2>5. u = Update(d, TRUE, FALSE, s, w, c, in.linked)
    BY <1>2, <1>4, <2>1, <2>2 DEF create_or_update_from_email, IntakeNew
  <2> QED
    BY <1>1, <2>3, <2>4, <2>5, UpdateTypes
<1> QED
  BY <1>3, <1>4

LEMMA PatchTypes ==
  ASSUME DealTypeInv, NEW d \in Deals, NEW in \in Inputs, NEW u \in update_deal_draft(d, in)
  PROVE  UpdateTyped(u)
<1>1. /\ stage[d] \in Stages /\ wf[d] \in WorkflowStatus /\ checklist[d] \in Checklist
      /\ in.stage \in Stages \union {"unset"} /\ in.asked \in Requested /\ in.linked \in BOOLEAN
      /\ in.list \in Lists \union {Unsent}
  BY DEF DealTypeInv, DealsTypeOK, Inputs
<1>2. PICK sent, stored : /\ sent = Sent(in) /\ sent \in Checklist /\ stored \in Checklist
                          /\ stored = IF in.list = Unsent THEN checklist[d] ELSE in.list
  BY <1>1, EmptyChecklist, ListsAreChecklists DEF Sent
<1>3. PICK s, w : /\ s = NextStage(d, in)
                  /\ w = TargetStatus(wf[d], in.asked,
                           \/ in.other \/ in.linked # linked[d]
                           \/ in.list # Unsent /\ in.list # checklist[d])
  OBVIOUS
<1>4. PICK c : c = merge_checklist(stored, s, sent)
  OBVIOUS
<1>5. s \in Stages /\ w \in WorkflowStatus
  BY <1>1, <1>3, TargetTyped DEF NextStage
<1>6. c \in Checklist
  BY <1>2, <1>4, MergedList
<1>7. u = Update(d, FALSE, FALSE, s, w, c, in.linked)
  BY <1>2, <1>3, <1>4 DEF update_deal_draft
<1> QED
  BY <1>1, <1>5, <1>6, <1>7, UpdateTypes

LEMMA SaleTypes ==
  ASSUME DealTypeInv, NEW d \in Deals, NEW u \in finalize_product_sale(d)
  PROVE  UpdateTyped(u)
<1>1. PICK c : c = checklist[d] /\ c \in Checklist
  BY DEF DealTypeInv, DealsTypeOK
<1>2. u = Update(d, FALSE, TRUE, "won", "archived", c, TRUE)
  BY <1>1 DEF finalize_product_sale
<1>3. "won" \in Stages /\ "archived" \in WorkflowStatus /\ TRUE \in BOOLEAN
  BY DEF Stages, WorkflowStatus
<1> QED
  BY <1>1, <1>2, <1>3, UpdateTypes

LEMMA AtMostOne ==
  /\ Cardinality({}) <= 1
  /\ \A u : Cardinality({u}) <= 1
  BY FS_EmptySet, FS_Singleton

LEMMA LoadTypes ==
  ASSUME DealTypeInv, NEW r \in Requests, NEW updates, Load(r, updates), \A u \in updates : UpdateTyped(u)
  PROVE  DealTypeInv'
<1>1. PICK v \in updates : pending' = [pending EXCEPT ![r] = {v}]
  BY DEF Load
<1>2. UNCHANGED <<exists, stage, wf, checklist, linked, deleted, raced>>
  BY DEF Load, dealrows
<1>3. \A q \in Requests : \A u \in pending'[q] : UpdateTyped(u)
  BY <1>1 DEF DealTypeInv
<1>4. \A q \in Requests : Cardinality(pending'[q]) <= 1
  BY <1>1, AtMostOne DEF DealTypeInv, DealsTypeOK
<1> QED
  BY <1>1, <1>2, <1>3, <1>4 DEF DealTypeInv, DealsTypeOK, UpdateTyped

LEMMA ReleaseTypes ==
  ASSUME DealTypeInv, NEW r \in Requests, pending' = [pending EXCEPT ![r] = {}]
  PROVE  /\ DOMAIN pending' = Requests
         /\ \A q \in Requests : \A u \in pending'[q] : UpdateTyped(u)
         /\ \A q \in Requests : Cardinality(pending'[q]) <= 1
  BY AtMostOne DEF DealTypeInv, DealsTypeOK

LEMMA CommitTypes ==
  ASSUME DealTypeInv, NEW r \in Requests, CommitRequest(r)
  PROVE  DealTypeInv'
<1>1. PICK u \in pending[r] :
        /\ Apply(u)
        /\ raced' = IF Contended(r, u.deal) THEN raced \union {u.deal} ELSE raced
  BY DEF CommitRequest
<1>2. UpdateTyped(u)
  BY <1>1 DEF DealTypeInv
<1>3. PICK d, s, w, c, l :
        /\ d = u.deal /\ s = After(stage[d], u.stage) /\ w = After(wf[d], u.wf)
        /\ c = After(checklist[d], u.checklist) /\ l = After(linked[d], u.linked)
  OBVIOUS
<1>4. d \in Deals /\ s \in Stages /\ w \in WorkflowStatus /\ c \in Checklist /\ l \in BOOLEAN
  BY <1>2, <1>3, AfterIn DEF UpdateTyped, DealTypeInv, DealsTypeOK
<1>5. /\ exists' = [exists EXCEPT ![d] = TRUE] /\ stage' = [stage EXCEPT ![d] = s]
      /\ wf' = [wf EXCEPT ![d] = w] /\ checklist' = [checklist EXCEPT ![d] = c]
      /\ linked' = [linked EXCEPT ![d] = l] /\ deleted' = deleted
  BY <1>1, <1>3 DEF Apply
<1>6. /\ exists' \in [Deals -> BOOLEAN] /\ stage' \in [Deals -> Stages] /\ wf' \in [Deals -> WorkflowStatus]
      /\ checklist' \in [Deals -> Checklist] /\ linked' \in [Deals -> BOOLEAN]
      /\ deleted' \in [Deals -> BOOLEAN]
  BY <1>4, <1>5 DEF DealTypeInv, DealsTypeOK
<1>7. raced' \subseteq Deals
  BY <1>1, <1>3, <1>4 DEF DealTypeInv, DealsTypeOK
<1>8. pending' = [pending EXCEPT ![r] = {}]
  BY DEF CommitRequest
<1> QED
  BY <1>6, <1>7, <1>8, ReleaseTypes DEF DealTypeInv, DealsTypeOK, UpdateTyped

LEMMA NextDealTypes ==
  ASSUME DealTypeInv, [DealsNext]_dvars
  PROVE  DealTypeInv'
<1>1. CASE UNCHANGED dvars
  BY <1>1 DEF dvars, DealTypeInv, DealsTypeOK, UpdateTyped
<1>2. ASSUME NEW r \in Requests, Intake(r) PROVE DealTypeInv'
  BY <1>2, IntakeTypes, LoadTypes DEF Intake
<1>3. ASSUME NEW r \in Requests, PatchDeal(r) PROVE DealTypeInv'
  BY <1>3, PatchTypes, LoadTypes DEF PatchDeal
<1>4. ASSUME NEW r \in Requests, Sell(r) PROVE DealTypeInv'
  BY <1>4, SaleTypes, LoadTypes DEF Sell
<1>5. ASSUME NEW r \in Requests, Rollback(r) PROVE DealTypeInv'
  BY <1>5, ReleaseTypes DEF Rollback, dealrows, DealTypeInv, DealsTypeOK, UpdateTyped
<1>6. ASSUME NEW d \in Deals, ProductDeleted(d) PROVE DealTypeInv'
  BY <1>6 DEF ProductDeleted, DealTypeInv, DealsTypeOK, UpdateTyped
<1> QED
  BY <1>1, <1>2, <1>3, <1>4, <1>5, <1>6, CommitTypes DEF DealsNext

LEMMA InitDealTypes == DealsInit => DealTypeInv
<1>1. {"intake"} \subseteq Stages /\ {"draft"} \subseteq WorkflowStatus
  BY DEF Stages, WorkflowStatus
<1> QED
  BY <1>1, EmptyChecklist, AtMostOne DEF DealsInit, DealTypeInv, DealsTypeOK

(* For any sessions and whatever they send, the deals hold what their      *)
(* columns can, and no list marks an item that is not on it.               *)
THEOREM DealTypes == DealsSpec => []DealsTypeOK
<1>1. DealTypeInv => DealsTypeOK
  BY DEF DealTypeInv
<1> QED
  BY <1>1, InitDealTypes, NextDealTypes, PTL DEF DealsSpec

-----------------------------------------------------------------------------
(* Documents. A change that nobody decided on leaves what was decided on,  *)
(* or takes the document out of the states a prompt draws from.            *)
Decisive == {"approved", "published"}
IsDoc(row) ==
  /\ row = [life |-> "row", text |-> row.text, source |-> row.source, status |-> row.status,
            outdated |-> row.outdated, why |-> row.why, at |-> row.at, version |-> row.version]
  /\ row.version \in Nat \ {0}

FlushOK(f) ==
  /\ f.doc \in Docs /\ f.decision \in BOOLEAN
  /\ \/ /\ f.kind = "create" /\ IsDoc(f.want) /\ f.want.version = 1
        /\ f.read = NoDoc /\ (f.want.status \in Decisive => f.decision)
     \/ /\ f.kind = "update" /\ IsDoc(f.read) /\ IsDoc(f.want)
        /\ (~f.decision /\ f.want = f.read) \/ f.want.version = f.read.version + 1
        /\ f.want.status \in Decisive /\ ~f.decision =>
             f.read.status \in Decisive /\ Said(f.want) = Said(f.read)
     \/ f.kind = "delete" /\ f.want = NoDoc /\ ~f.decision
     \/ f.kind = "seed" /\ f.want = Shipped /\ ~f.decision
     \/ f.kind = "promote" /\ f.read = Legacy /\ f.want = Shipped /\ ~f.decision

(* Snapshots and decisions of a document that no update overtook; in its   *)
(* first version nobody has decided on a default.                          *)
Missing(d) == IF d \in seeded THEN 1 ELSE 0
Kept(d) ==
  /\ snapshot[d].count = doc[d].version - Missing(d)
  /\ snapshot[d].count > 0 => snapshot[d].row = doc[d]
  /\ doc[d].status \in Decisive => LastDecision(d) = Said(doc[d])
  /\ d \in seeded /\ doc[d].version = 1 => decided[d] = NoDoc

DocInv ==
  /\ DOMAIN doc = Docs /\ DOMAIN snapshot = Docs /\ DOMAIN decided = Docs /\ DOMAIN edit = Editors
  /\ \A d \in Docs : snapshot[d].count \in Nat
  /\ \A d \in Docs : d \notin seeded /\ snapshot[d].count = 0 => decided[d] = NoDoc
  /\ \A d \in Docs : Lives(d) /\ d \notin overtaken => Kept(d)
  /\ \A d \in Docs : Lives(d) => IsDoc(doc[d])
  /\ \A x \in Editors : edit[x] # Idle => FlushOK(edit[x])
  /\ \A x \in Editors :
       edit[x] # Idle /\ edit[x].kind = "promote" /\ edit[x].doc \notin overtaken
         => edit[x].doc \in seeded

LEMMA DocIsSome == \A row : IsDoc(row) => row # NoDoc
  BY DEF IsDoc, NoDoc

LEMMA ShippedRows ==
  /\ IsDoc(Shipped) /\ Shipped.version = 1 /\ Shipped.status = "published"
  /\ IsDoc(Legacy) /\ Legacy.version = 1 /\ Legacy.status = "draft"
  BY DEF Shipped, Legacy, Row, IsDoc

LEMMA InitDocs == KnowledgeInit => DocInv
<1> SUFFICES ASSUME KnowledgeInit PROVE DocInv
  OBVIOUS
<1>1. \A d \in Docs : snapshot[d].count = 0 /\ decided[d] = NoDoc
  BY DEF KnowledgeInit
<1>2. \A d \in Docs : Lives(d) => d \in seeded /\ doc[d] = Legacy
  BY DEF KnowledgeInit, Lives
<1>3. \A d \in Docs : Lives(d) => IsDoc(doc[d]) /\ Kept(d)
  BY <1>1, <1>2, ShippedRows DEF Kept, Missing, Decisive
<1> QED
  BY <1>1, <1>3 DEF KnowledgeInit, DocInv

LEMMA FlushFields ==
  ASSUME NEW d, NEW kind, NEW want, NEW decision, NEW f, f = Flush(d, kind, want, decision)
  PROVE  f.doc = d /\ f.kind = kind /\ f.read = doc[d] /\ f.want = want /\ f.decision = decision
  BY DEF Flush

LEMMA CreateDocDecided ==
  ASSUME DocInv, NEW d \in Docs, NEW f \in create_doc(d)
  PROVE  FlushOK(f)
<1>1. PICK t \in Wordings, s \in KnowledgeSourceReviewStatus, w \in WorkflowStatus,
           o \in BOOLEAN, why \in BOOLEAN :
        f = Flush(d, "create", Row(t, s, w, o, o \/ why), Decision(w))
  BY DEF create_doc
<1>2. PICK want : want = Row(t, s, w, o, o \/ why)
  OBVIOUS
<1>3. IsDoc(want) /\ want.version = 1 /\ want.status = w
  BY <1>2 DEF Row, IsDoc
<1>4. Decision(w) \in BOOLEAN /\ (w \in Decisive => Decision(w))
  BY DEF Decision, Decisive, WORKFLOW_REVIEW_DECISION_STATES
<1>5. /\ f.doc = d /\ f.kind = "create" /\ f.read = doc[d] /\ f.want = want
      /\ f.decision = Decision(w) /\ doc[d] = NoDoc
  BY <1>1, <1>2, FlushFields DEF create_doc, FreeId
<1> QED
  BY <1>3, <1>4, <1>5 DEF FlushOK

(* A default that waits for its trust was seeded, unless it was overtaken. *)
LEMMA SeedDecided ==
  ASSUME DocInv, NEW d \in Docs, NEW f \in ensure_default_knowledge_docs(d)
  PROVE  /\ FlushOK(f) /\ f.doc = d
         /\ f.kind = "promote" /\ d \notin overtaken => d \in seeded
<1>1. \/ f = Flush(d, "seed", Shipped, FALSE)
      \/ /\ f = Flush(d, "promote", Shipped, FALSE)
         /\ doc[d] = Legacy /\ snapshot[d].count = 0
  BY DEF ensure_default_knowledge_docs, _is_untouched_legacy_system_default
<1>2. CASE f = Flush(d, "seed", Shipped, FALSE)
  <2>1. f.doc = d /\ f.kind = "seed" /\ f.want = Shipped /\ f.decision = FALSE
    BY <1>2 DEF Flush
  <2> QED
    BY <2>1 DEF FlushOK
<1>3. CASE /\ f = Flush(d, "promote", Shipped, FALSE)
           /\ doc[d] = Legacy /\ snapshot[d].count = 0
  <2>1. /\ f.doc = d /\ f.kind = "promote" /\ f.read = Legacy /\ f.want = Shipped
        /\ f.decision = FALSE
    BY <1>3 DEF Flush
  <2>2. Lives(d)
    BY <1>3, ShippedRows, DocIsSome DEF Lives
  <2>3. d \notin overtaken => d \in seeded
    BY <1>3, <2>2, ShippedRows DEF DocInv, Kept, Missing
  <2> QED
    BY <2>1, <2>3 DEF FlushOK
<1> QED
  BY <1>1, <1>2, <1>3

LEMMA UpdateDocDecided ==
  ASSUME DocInv, NEW d \in Docs, NEW p, NEW f \in update_doc(d, p)
  PROVE  FlushOK(f)
<1>1. PICK row, next, want : row = doc[d] /\ next = Updated(row, p) /\ want = Versioned(row, p)
  OBVIOUS
<1>2. Lives(d) /\ f = Flush(d, "update", want, Decision(p.status))
  BY <1>1 DEF update_doc
<1>3. IsDoc(row)
  BY <1>1, <1>2 DEF DocInv
<1>4. PICK outdated, why, at, text, source, status :
        /\ outdated = YesNo(p.outdated, row.outdated) /\ why = YesNo(p.why, row.why)
        /\ at = (IF p.outdated = Unset THEN row.at ELSE outdated)
        /\ text = Given(p.text, row.text) /\ source = Given(p.source, row.source)
        /\ status = TargetStatus(row.status, p.status, RelevantChange(row, p))
  OBVIOUS
<1>5. next = [row EXCEPT !.text = text, !.source = source, !.outdated = outdated, !.why = why,
                         !.at = at, !.status = status]
  BY <1>1, <1>4 DEF Updated
<1>6. next = [life |-> "row", text |-> text, source |-> source, status |-> status,
              outdated |-> outdated, why |-> why, at |-> at, version |-> row.version]
  <2>1. PICK t, s, w, o, y, a, v :
          row = [life |-> "row", text |-> t, source |-> s, status |-> w, outdated |-> o,
                 why |-> y, at |-> a, version |-> v]
    BY <1>3 DEF IsDoc
  <2> QED
    BY <1>5, <2>1
<1>7. want = (IF next # row \/ p.reason THEN [next EXCEPT !.version = @ + 1] ELSE next)
  BY <1>1 DEF Versioned
<1>8. /\ IsDoc(want) /\ (want = row \/ want.version = row.version + 1)
      /\ want.text = text /\ want.source = source /\ want.status = status
  <2>1. CASE next # row \/ p.reason
    <3>1. want = [life |-> "row", text |-> text, source |-> source, status |-> status,
                  outdated |-> outdated, why |-> why, at |-> at, version |-> row.version + 1]
      BY <1>6, <1>7, <2>1
    <3>2. row.version + 1 \in Nat \ {0}
      BY <1>3 DEF IsDoc
    <3> QED
      BY <3>1, <3>2 DEF IsDoc
  <2>2. CASE ~(next # row \/ p.reason)
    <3>1. want = row
      BY <1>7, <2>2
    <3>2. row.text = text /\ row.source = source /\ row.status = status
      BY <1>6, <2>2
    <3> QED
      BY <1>3, <3>1, <3>2
  <2> QED
    BY <2>1, <2>2
<1>9. status \in Decisive /\ ~Decision(p.status) => row.status \in Decisive /\ text = row.text /\ source = row.source
  <2>1. ASSUME status \in Decisive, ~Decision(p.status) PROVE p.status = "unset"
    BY <1>4, <2>1 DEF TargetStatus, Decisive, Decision, WORKFLOW_REVIEW_DECISION_STATES
  <2>2. ASSUME status \in Decisive, p.status = "unset"
        PROVE  row.status \in Decisive /\ ~RelevantChange(row, p)
    BY <1>4, <2>2 DEF TargetStatus, requires_re_review, Decisive
  <2> QED
    BY <1>4, <2>1, <2>2 DEF RelevantChange, Given
<1>10. Decision(p.status) => want.version = row.version + 1
  <2> SUFFICES ASSUME Decision(p.status) PROVE want.version = row.version + 1
    OBVIOUS
  <2>1. status = p.status
    BY <1>4 DEF Decision, WORKFLOW_REVIEW_DECISION_STATES, TargetStatus
  <2>2. PatchAccepted(doc[d], p)
    BY DEF update_doc
  <2>3. next.status = status
    BY <1>6
  <2>4. PatchAccepted(row, p) /\ next.status = status
    BY <1>1, <2>2, <2>3
  <2>5. validate_workflow_status_change(row.status, next.status, p.reason)
    BY <1>1, <2>4 DEF PatchAccepted
  <2>6. p.reason
    BY <2>1, <2>3, <2>5 DEF validate_workflow_status_change, Decision
  <2> QED
    BY <1>6, <1>7, <2>6
<1>11. /\ f.doc = d /\ f.kind = "update" /\ f.read = row /\ f.want = want /\ f.decision = Decision(p.status)
       /\ Decision(p.status) \in BOOLEAN
  BY <1>1, <1>2, FlushFields DEF Decision
<1> QED
  BY <1>1, <1>3, <1>8, <1>9, <1>10, <1>11 DEF FlushOK, Said

LEMMA DeleteDocDecided ==
  ASSUME DocInv, NEW d \in Docs, NEW f \in delete_doc(d)
  PROVE  FlushOK(f)
<1>1. f = Flush(d, "delete", NoDoc, FALSE)
  BY DEF delete_doc
<1>2. f.doc = d /\ f.kind = "delete" /\ f.read = doc[d] /\ f.want = NoDoc /\ f.decision = FALSE
  BY <1>1 DEF Flush
<1> QED
  BY <1>2 DEF FlushOK

LEMMA BeginEditStep ==
  ASSUME DocInv, NEW x \in Editors, BeginEdit(x)
  PROVE  DocInv'
<1>0. PICK d \in Docs : \E f \in Flushes(d) : edit' = [edit EXCEPT ![x] = f]
  BY DEF BeginEdit
<1>1. PICK f \in Flushes(d) : edit' = [edit EXCEPT ![x] = f]
  BY <1>0
<1>2. UNCHANGED <<doc, snapshot, decided, overtaken, seeded>>
  BY DEF BeginEdit
<1>3. FlushOK(f) /\ (f.kind = "promote" /\ f.doc \notin overtaken => f.doc \in seeded)
  <2>1. CASE f \in create_doc(d)
    <3>1. f.kind = "create"
      BY <2>1 DEF create_doc, Flush
    <3> QED
      BY <2>1, <3>1, CreateDocDecided
  <2>2. CASE f \in delete_doc(d)
    <3>1. f.kind = "delete"
      BY <2>2 DEF delete_doc, Flush
    <3> QED
      BY <2>2, <3>1, DeleteDocDecided
  <2>3. ASSUME NEW p \in Patches, f \in update_doc(d, p)
        PROVE  FlushOK(f) /\ f.kind = "update"
    <3>1. f.kind = "update"
      BY <2>3 DEF update_doc, Flush
    <3> QED
      BY <2>3, <3>1, UpdateDocDecided
  <2>4. CASE f \in ensure_default_knowledge_docs(d)
    BY <2>4, SeedDecided
  <2> QED
    BY <1>1, <2>1, <2>2, <2>3, <2>4 DEF Flushes
<1>4. \A y \in Editors : edit'[y] # Idle => FlushOK(edit'[y])
  BY <1>1, <1>3 DEF DocInv
<1>5. \A y \in Editors : edit'[y] # Idle /\ edit'[y].kind = "promote" /\ edit'[y].doc \notin overtaken
        => edit'[y].doc \in seeded
  BY <1>1, <1>3 DEF DocInv
<1> QED
  BY <1>1, <1>2, <1>4, <1>5 DEF DocInv, Lives, FlushOK, Kept, Missing, LastDecision

LEMMA DropEditStep ==
  ASSUME DocInv, NEW x \in Editors, DropEdit(x)
  PROVE  DocInv'
<1>1. UNCHANGED <<doc, snapshot, decided, overtaken, seeded>> /\ edit' = [edit EXCEPT ![x] = Idle]
  BY DEF DropEdit
<1>2. \A y \in Editors : edit'[y] # Idle => edit'[y] = edit[y] /\ edit[y] # Idle
  BY <1>1 DEF DocInv
<1>3. \A y \in Editors : edit'[y] # Idle => FlushOK(edit'[y])
  BY <1>2 DEF DocInv
<1> QED
  BY <1>1, <1>2, <1>3 DEF DocInv, Lives, FlushOK, Kept, Missing, LastDecision

(* An update that lands on the row it was decided on writes what it wanted; *)
(* any other one writes a document, and marks it.                          *)
LEMMA MergedDoc ==
  ASSUME NEW o, NEW f, IsDoc(o), IsDoc(f.read), IsDoc(f.want), NEW row, row = Merged(o, f)
  PROVE  IsDoc(row) /\ (f.read = o => row = f.want)
<1>1. PICK r, w : r = f.read /\ w = f.want
  OBVIOUS
<1>2. row = [c \in DOMAIN o |-> IF w[c] = r[c] THEN o[c] ELSE w[c]]
  BY <1>1 DEF Merged
<1>3. DOMAIN o = {"life", "text", "source", "status", "outdated", "why", "at", "version"}
  BY DEF IsDoc
<1>4. IsDoc(row)
  <2>1. PICK t, s, u, d, y, a, v :
          /\ t = IF w.text = r.text THEN o.text ELSE w.text
          /\ s = IF w.source = r.source THEN o.source ELSE w.source
          /\ u = IF w.status = r.status THEN o.status ELSE w.status
          /\ d = IF w.outdated = r.outdated THEN o.outdated ELSE w.outdated
          /\ y = IF w.why = r.why THEN o.why ELSE w.why
          /\ a = IF w.at = r.at THEN o.at ELSE w.at
          /\ v = IF w.version = r.version THEN o.version ELSE w.version
    OBVIOUS
  <2>2. w.life = "row" /\ r.life = "row" /\ o.life = "row" /\ v \in Nat \ {0}
    BY <1>1, <2>1 DEF IsDoc
  <2>3. row = [life |-> "row", text |-> t, source |-> s, status |-> u, outdated |-> d,
               why |-> y, at |-> a, version |-> v]
    BY <1>2, <1>3, <2>1, <2>2
  <2> QED
    BY <2>2, <2>3 DEF IsDoc
<1>5. ASSUME r = o PROVE row = w
  <2>1. row = [c \in DOMAIN o |-> IF w[c] = o[c] THEN o[c] ELSE w[c]]
    BY <1>2, <1>5
  <2> QED
    BY <1>1, <2>1 DEF IsDoc
<1> QED
  BY <1>1, <1>4, <1>5

LEMMA CommitEditStep ==
  ASSUME DocInv, NEW x \in Editors, CommitEdit(x)
  PROVE  DocInv'
<1>1. PICK f, d : f = edit[x] /\ d = f.doc
  OBVIOUS
<1>2. PICK row : row = IF Rewrites(f) THEN Merged(doc[d], f) ELSE f.want
  OBVIOUS
<1>3. /\ f # Idle /\ Lands(f)
      /\ doc' = [doc EXCEPT ![d] = row]
      /\ snapshot' = IF _snapshot_doc(f)
                       THEN [snapshot EXCEPT ![d] = [row |-> f.want, count |-> @.count + 1]]
                       ELSE snapshot
      /\ decided' = IF f.decision THEN [decided EXCEPT ![d] = Said(f.want)] ELSE decided
      /\ overtaken' = IF Stale(f) THEN overtaken \union {d} ELSE overtaken
      /\ seeded' = IF f.kind = "seed" THEN seeded \union {d} ELSE seeded
      /\ edit' = [edit EXCEPT ![x] = Idle]
  BY <1>1, <1>2 DEF CommitEdit
<1>4. FlushOK(f) /\ d \in Docs /\ f.decision \in BOOLEAN /\ snapshot[d].count \in Nat
  BY <1>1, <1>3 DEF DocInv, FlushOK
<1>5. Rewrites(f) => IsDoc(doc[d]) /\ IsDoc(f.read) /\ IsDoc(f.want)
  BY <1>1, <1>3, <1>4, ShippedRows DEF FlushOK, Lands, DocInv, Rewrites
<1>6. /\ \A y \in Editors : edit'[y] # Idle => edit'[y] = edit[y] /\ edit[y] # Idle
      /\ overtaken \subseteq overtaken' /\ seeded \subseteq seeded'
  BY <1>3 DEF DocInv
<1>7. \A e \in Docs : e # d =>
        /\ doc'[e] = doc[e] /\ snapshot'[e] = snapshot[e] /\ decided'[e] = decided[e]
        /\ e \in seeded' <=> e \in seeded
  BY <1>3 DEF DocInv
<1>8. doc'[d] = row
  BY <1>3, <1>4 DEF DocInv
<1>9. row # NoDoc => IsDoc(row)
  BY <1>2, <1>4, <1>5, MergedDoc, ShippedRows DEF FlushOK, Rewrites
<1>10. ASSUME d \notin overtaken'
       PROVE  /\ row = f.want /\ d \notin overtaken
              /\ Rewrites(f) => f.read = doc[d]
  BY <1>1, <1>2, <1>3, <1>5, <1>10, MergedDoc DEF Stale
<1>11. /\ _snapshot_doc(f) => snapshot'[d].row = f.want /\ snapshot'[d].count = snapshot[d].count + 1
       /\ ~_snapshot_doc(f) => snapshot'[d] = snapshot[d]
       /\ f.decision => decided'[d] = Said(f.want)
       /\ ~f.decision => decided'[d] = decided[d]
  BY <1>3, <1>4 DEF DocInv
<1>12. f.decision => _snapshot_doc(f)
  BY <1>4, DocIsSome DEF FlushOK, _snapshot_doc, IsDoc
<1>13. Said(f.want) # NoDoc
  BY DEF Said, NoDoc
<1>14. ASSUME d \notin overtaken', row # NoDoc
       PROVE  /\ snapshot'[d].count = row.version - Missing(d)'
              /\ snapshot'[d].count > 0 => snapshot'[d].row = row
              /\ row.status \in Decisive => LastDecision(d)' = Said(row)
              /\ d \in seeded' /\ row.version = 1 => decided'[d] = NoDoc
  <2>0. /\ row = f.want /\ d \notin overtaken
        /\ Rewrites(f) => f.read = doc[d]
    BY <1>10, <1>14
  <2>1. CASE f.kind = "create"
    <3>1. IsDoc(f.want) /\ f.want.version = 1 /\ f.read = NoDoc /\ (f.want.status \in Decisive => f.decision)
      BY <1>4, <2>1 DEF FlushOK
    <3>2. snapshot[d].count = 0 /\ d \notin seeded'
      BY <1>1, <1>3, <2>1 DEF Lands, FreeId
    <3>3. _snapshot_doc(f)
      BY <2>1, <3>1, DocIsSome DEF _snapshot_doc
    <3> QED
      BY <1>11, <1>13, <2>0, <3>1, <3>2, <3>3 DEF Missing, LastDecision
  <2>2. CASE f.kind = "update"
    <3>1. /\ IsDoc(f.want) /\ IsDoc(f.read)
          /\ (~f.decision /\ f.want = f.read) \/ f.want.version = f.read.version + 1
          /\ f.want.status \in Decisive /\ ~f.decision =>
               f.read.status \in Decisive /\ Said(f.want) = Said(f.read)
      BY <1>4, <2>2 DEF FlushOK
    <3>2. f.read = doc[d] /\ Kept(d)
      BY <1>4, <2>0, <2>2, <3>1, DocIsSome DEF DocInv, Lives, Rewrites
    <3>3. Missing(d)' = Missing(d) /\ Missing(d) \in {0, 1} /\ (d \in seeded' <=> d \in seeded)
      BY <1>3, <2>2 DEF Missing
    <3>4. CASE ~f.decision /\ f.want = f.read
      <4>1. snapshot'[d] = snapshot[d] /\ decided'[d] = decided[d] /\ row = doc[d]
        BY <1>11, <2>0, <3>2, <3>4 DEF _snapshot_doc
      <4> QED
        BY <3>2, <3>3, <4>1 DEF Kept, LastDecision
    <3>5. CASE f.want.version = f.read.version + 1
      <4>1. f.read.version \in Nat \ {0}
        BY <3>1 DEF IsDoc
      <4>2. _snapshot_doc(f)
        BY <2>2, <3>5, <4>1 DEF _snapshot_doc
      <4>3. snapshot'[d].row = row /\ snapshot'[d].count = snapshot[d].count + 1
        BY <1>11, <2>0, <4>2
      <4>4. snapshot[d].count = f.read.version - Missing(d)
        BY <3>2 DEF Kept
      <4>5. snapshot'[d].count = row.version - Missing(d)' /\ row.version # 1
        BY <2>0, <3>3, <3>5, <4>1, <4>3, <4>4
      <4>6. row.status \in Decisive => LastDecision(d)' = Said(row)
        <5>1. CASE f.decision
          BY <1>11, <1>13, <2>0, <5>1 DEF LastDecision
        <5>2. CASE ~f.decision
          BY <1>11, <2>0, <3>1, <3>2, <3>3, <5>2 DEF LastDecision, Kept
        <5> QED
          BY <5>1, <5>2
      <4> QED
        BY <4>3, <4>5, <4>6
    <3> QED
      BY <3>1, <3>4, <3>5
  <2>3. CASE f.kind = "seed"
    <3>1. f.want = Shipped /\ ~f.decision /\ ~_snapshot_doc(f)
      BY <1>4, <2>3 DEF FlushOK, _snapshot_doc
    <3>2. snapshot[d].count = 0 /\ d \notin seeded /\ d \in seeded'
      BY <1>1, <1>3, <2>3 DEF Lands, FreeId
    <3>3. decided'[d] = NoDoc /\ snapshot'[d].count = 0
      BY <1>4, <1>11, <3>1, <3>2 DEF DocInv
    <3> QED
      BY <2>0, <3>1, <3>2, <3>3, ShippedRows DEF Missing, LastDecision
  <2>4. CASE f.kind = "promote"
    <3>1. f.want = Shipped /\ f.read = Legacy /\ ~f.decision /\ ~_snapshot_doc(f)
      BY <1>4, <2>4 DEF FlushOK, _snapshot_doc
    <3>2. d \in seeded /\ d \in seeded' /\ doc[d] = Legacy
      BY <1>1, <1>3, <1>6, <2>0, <2>4, <3>1 DEF DocInv, Rewrites, CommitEdit
    <3>3. Kept(d)
      BY <1>4, <2>0, <3>2, ShippedRows, DocIsSome DEF DocInv, Lives
    <3>4. decided'[d] = NoDoc /\ snapshot'[d].count = 0
      BY <1>11, <3>1, <3>2, <3>3, ShippedRows DEF Kept, Missing
    <3> QED
      BY <2>0, <3>1, <3>2, <3>4, ShippedRows DEF Missing, LastDecision
  <2> QED
    BY <1>4, <1>14, <2>0, <2>1, <2>2, <2>3, <2>4 DEF FlushOK
<1>15. ASSUME NEW e \in Docs, doc'[e] # NoDoc PROVE IsDoc(doc'[e])
  BY <1>7, <1>8, <1>9, <1>15 DEF DocInv, Lives
<1>16. ASSUME NEW e \in Docs, doc'[e] # NoDoc, e \notin overtaken'
       PROVE  Kept(e)'
  <2>1. CASE e = d
    BY <1>8, <1>14, <1>16, <2>1 DEF Kept
  <2>2. CASE e # d
    <3>1. Kept(e)
      BY <1>6, <1>7, <1>16, <2>2 DEF DocInv, Lives
    <3> QED
      BY <1>7, <2>2, <3>1 DEF Kept, Missing, LastDecision
  <2> QED
    BY <2>1, <2>2
<1>17. ASSUME NEW e \in Docs
       PROVE  /\ snapshot'[e].count \in Nat
              /\ e \notin seeded' /\ snapshot'[e].count = 0 => decided'[e] = NoDoc
  <2>1. CASE e = d
    <3>1. CASE _snapshot_doc(f)
      BY <1>4, <1>11, <2>1, <3>1
    <3>2. CASE ~_snapshot_doc(f)
      BY <1>4, <1>6, <1>11, <1>12, <2>1, <3>2 DEF DocInv
    <3> QED
      BY <3>1, <3>2
  <2>2. CASE e # d
    BY <1>7, <2>2 DEF DocInv
  <2> QED
    BY <2>1, <2>2
<1>18. ASSUME NEW y \in Editors, edit'[y] # Idle
       PROVE  /\ FlushOK(edit'[y])
              /\ edit'[y].kind = "promote" /\ edit'[y].doc \notin overtaken' => edit'[y].doc \in seeded'
  BY <1>6, <1>18 DEF DocInv
<1>19. DOMAIN doc' = Docs /\ DOMAIN snapshot' = Docs /\ DOMAIN decided' = Docs /\ DOMAIN edit' = Editors
  BY <1>3 DEF DocInv
<1> QED
  BY <1>15, <1>16, <1>17, <1>18, <1>19 DEF DocInv, Lives, FlushOK

LEMMA NextDocs ==
  ASSUME DocInv, [KnowledgeNext]_kvars
  PROVE  DocInv'
<1>1. CASE UNCHANGED kvars
  BY <1>1 DEF kvars, DocInv, Lives, FlushOK, Kept, Missing, LastDecision
<1> QED
  BY <1>1, BeginEditStep, CommitEditStep, DropEditStep DEF KnowledgeNext

LEMMA DocsAlways == KnowledgeSpec => []DocInv
  BY InitDocs, NextDocs, PTL DEF KnowledgeSpec

(* For any sessions, patches and starts: unless an update overtook another *)
(* one, the prompt is given what somebody approved or published, or a      *)
(* default as it was shipped, and a document has a snapshot of each version *)
(* that an editor wrote, the last of which is its row.                     *)
THEOREM PromptSafety == KnowledgeSpec => []PromptTextDecided
<1>1. DocInv => PromptTextDecided
  BY DEF DocInv, PromptTextDecided, _prompt_ready_docs, Decisive, Kept, Missing
<1> QED
  BY <1>1, DocsAlways, PTL

(* And the rows stay typed, a document two updates were merged into        *)
(* included.                                                               *)
DocRows ==
  [life : {"row"}, text : Wordings, source : KnowledgeSourceReviewStatus, status : WorkflowStatus,
   outdated : BOOLEAN, why : BOOLEAN, at : BOOLEAN, version : Nat \ {0}]

FlushTyped(f) ==
  /\ f.doc \in Docs
  /\ \/ f.kind = "create" /\ f.want \in DocRows /\ f.want.version = 1
     \/ f.kind = "seed" /\ f.want \in DocRows /\ f.want.version = 1
     \/ f.kind \in {"update", "promote"} /\ f.read \in DocRows /\ f.want \in DocRows
     \/ f.kind = "delete" /\ f.want = NoDoc

DocTypeInv ==
  /\ DOMAIN doc = Docs /\ DOMAIN edit = Editors /\ overtaken \subseteq Docs /\ seeded \subseteq Docs
  /\ \A d \in Docs : Lives(d) => doc[d] \in DocRows /\ doc[d].version <= MaxDocVersions
  /\ \A x \in Editors : edit[x] # Idle => FlushTyped(edit[x])

LEMMA RowIsSome == NoDoc \notin DocRows
  BY DEF NoDoc, DocRows

LEMMA DocRowIs ==
  ASSUME NEW text \in Wordings, NEW source \in KnowledgeSourceReviewStatus, NEW status \in WorkflowStatus,
         NEW outdated \in BOOLEAN, NEW why \in BOOLEAN, NEW at \in BOOLEAN, NEW version \in Nat \ {0}
  PROVE  [life |-> "row", text |-> text, source |-> source, status |-> status, outdated |-> outdated,
          why |-> why, at |-> at, version |-> version] \in DocRows
  BY DEF DocRows

LEMMA CreateDocTypes ==
  ASSUME NEW d \in Docs, NEW f \in create_doc(d)
  PROVE  FlushTyped(f)
<1>1. PICK t \in Wordings, s \in KnowledgeSourceReviewStatus, w \in WorkflowStatus,
           o \in BOOLEAN, why \in BOOLEAN :
        f = Flush(d, "create", Row(t, s, w, o, o \/ why), Decision(w))
  BY DEF create_doc
<1>2. PICK want, y : want = Row(t, s, w, o, y) /\ y = (o \/ why)
  OBVIOUS
<1>3. want = [life |-> "row", text |-> t, source |-> s, status |-> w, outdated |-> o, why |-> y,
              at |-> o, version |-> 1]
  BY <1>2 DEF Row
<1>4. y \in BOOLEAN /\ 1 \in Nat \ {0}
  BY <1>2
<1>5. want \in DocRows /\ want.version = 1
  BY <1>3, <1>4, DocRowIs
<1>6. f.doc = d /\ f.kind = "create" /\ f.want = want
  BY <1>1, <1>2, FlushFields
<1> QED
  BY <1>5, <1>6 DEF FlushTyped

LEMMA DefaultsTyped == Shipped \in DocRows /\ Legacy \in DocRows /\ Shipped.version = 1 /\ Legacy.version = 1
<1>1. /\ "approved" \in KnowledgeSourceReviewStatus /\ "pending" \in KnowledgeSourceReviewStatus
      /\ "published" \in WorkflowStatus /\ "draft" \in WorkflowStatus
      /\ FALSE \in BOOLEAN /\ 1 \in Nat \ {0} /\ Default \in Wordings
  BY DefaultHasType DEF KnowledgeSourceReviewStatus, WorkflowStatus
<1> QED
  BY <1>1, DocRowIs DEF Shipped, Legacy, Row

LEMMA SeedTypes ==
  ASSUME NEW d \in Docs, NEW f \in ensure_default_knowledge_docs(d)
  PROVE  FlushTyped(f)
<1>1. \/ f = Flush(d, "seed", Shipped, FALSE)
      \/ f = Flush(d, "promote", Shipped, FALSE) /\ doc[d] = Legacy
  BY DEF ensure_default_knowledge_docs, _is_untouched_legacy_system_default
<1>2. CASE f = Flush(d, "seed", Shipped, FALSE)
  BY <1>2, DefaultsTyped DEF Flush, FlushTyped
<1>3. CASE f = Flush(d, "promote", Shipped, FALSE) /\ doc[d] = Legacy
  BY <1>3, DefaultsTyped DEF Flush, FlushTyped
<1> QED
  BY <1>1, <1>2, <1>3

LEMMA YesNoTyped ==
  ASSUME NEW asked, NEW stored \in BOOLEAN
  PROVE  YesNo(asked, stored) \in BOOLEAN
<1>1. CASE asked = Unset
  BY <1>1 DEF YesNo
<1>2. CASE asked # Unset
  <2>1. PICK yes, S : yes = YesNo(asked, stored) /\ S = {"yes", "text"}
    OBVIOUS
  <2>2. yes = (asked \in S)
    BY <1>2, <2>1, Zenon DEF YesNo
  <2>3. yes \in BOOLEAN
    BY <2>2
  <2> QED
    BY <2>1, <2>3
<1> QED
  BY <1>1, <1>2

LEMMA UpdateDocTypes ==
  ASSUME DocTypeInv, NEW d \in Docs, NEW p \in Patches, NEW f \in update_doc(d, p)
  PROVE  FlushTyped(f)
<1>1. PICK row, next, want : row = doc[d] /\ next = Updated(row, p) /\ want = Versioned(row, p)
  OBVIOUS
<1>2. Lives(d) /\ f = Flush(d, "update", want, Decision(p.status)) /\ row \in DocRows
  BY <1>1 DEF update_doc, DocTypeInv
<1>3. PICK outdated, why, at, text, source, status :
        /\ outdated = YesNo(p.outdated, row.outdated) /\ why = YesNo(p.why, row.why)
        /\ at = (IF p.outdated = Unset THEN row.at ELSE outdated)
        /\ text = Given(p.text, row.text) /\ source = Given(p.source, row.source)
        /\ status = TargetStatus(row.status, p.status, RelevantChange(row, p))
  OBVIOUS
<1>4. /\ row.text \in Wordings /\ row.source \in KnowledgeSourceReviewStatus
      /\ row.status \in WorkflowStatus /\ row.version \in Nat \ {0}
      /\ row.outdated \in BOOLEAN /\ row.why \in BOOLEAN /\ row.at \in BOOLEAN
  BY <1>2 DEF DocRows
<1>5. /\ p.text \in Wordings \union {Unset} /\ p.source \in KnowledgeSourceReviewStatus \union {Unset}
      /\ p.status \in Requested
  BY PatchesAreRequests DEF Patch
<1>6. outdated \in BOOLEAN /\ why \in BOOLEAN /\ at \in BOOLEAN
  BY <1>3, <1>4, YesNoTyped
<1>7. text \in Wordings /\ source \in KnowledgeSourceReviewStatus
  BY <1>3, <1>4, <1>5 DEF Given
<1>8. status \in WorkflowStatus
  BY <1>3, <1>4, <1>5, TargetTyped
<1>9. next = [life |-> "row", text |-> text, source |-> source, status |-> status,
              outdated |-> outdated, why |-> why, at |-> at, version |-> row.version]
  <2>1. next = [row EXCEPT !.text = text, !.source = source, !.outdated = outdated, !.why = why,
                           !.at = at, !.status = status]
    BY <1>1, <1>3 DEF Updated
  <2> QED
    BY <1>2, <2>1 DEF DocRows
<1>10. want = (IF next # row \/ p.reason THEN [next EXCEPT !.version = @ + 1] ELSE next)
  BY <1>1 DEF Versioned
<1>11. PICK v \in Nat \ {0} :
         want = [life |-> "row", text |-> text, source |-> source, status |-> status,
                 outdated |-> outdated, why |-> why, at |-> at, version |-> v]
  <2>1. CASE next # row \/ p.reason
    <3>1. want = [life |-> "row", text |-> text, source |-> source, status |-> status,
                  outdated |-> outdated, why |-> why, at |-> at, version |-> row.version + 1]
      BY <1>9, <1>10, <2>1
    <3>2. row.version + 1 \in Nat \ {0}
      BY <1>4
    <3> QED
      BY <3>1, <3>2
  <2>2. CASE ~(next # row \/ p.reason)
    BY <1>4, <1>9, <1>10, <2>2
  <2> QED
    BY <2>1, <2>2
<1>12. want \in DocRows
  BY <1>6, <1>7, <1>8, <1>11, DocRowIs
<1>13. f.doc = d /\ f.kind = "update" /\ f.read = row /\ f.want = want
  BY <1>1, <1>2, FlushFields
<1> QED
  BY <1>2, <1>12, <1>13 DEF FlushTyped

LEMMA DeleteDocTypes ==
  ASSUME NEW d \in Docs, NEW f \in delete_doc(d)
  PROVE  FlushTyped(f)
<1>1. f = Flush(d, "delete", NoDoc, FALSE)
  BY DEF delete_doc
<1>2. f.doc = d /\ f.kind = "delete" /\ f.want = NoDoc
  BY <1>1 DEF Flush
<1> QED
  BY <1>2 DEF FlushTyped

(* Every column of a merged row is one of the row's or of the update's.    *)
LEMMA MergedTypes ==
  ASSUME NEW o \in DocRows, NEW f, f.read \in DocRows, f.want \in DocRows, NEW row, row = Merged(o, f)
  PROVE  row \in DocRows /\ row.version \in {o.version, f.want.version}
<1>1. PICK r, w : r = f.read /\ w = f.want
  OBVIOUS
<1>2. row = [c \in DOMAIN o |-> IF w[c] = r[c] THEN o[c] ELSE w[c]]
  BY <1>1 DEF Merged
<1>3. DOMAIN o = {"life", "text", "source", "status", "outdated", "why", "at", "version"}
  BY DEF DocRows
<1>4. PICK t, s, u, d, y, a, v :
        /\ t = IF w.text = r.text THEN o.text ELSE w.text
        /\ s = IF w.source = r.source THEN o.source ELSE w.source
        /\ u = IF w.status = r.status THEN o.status ELSE w.status
        /\ d = IF w.outdated = r.outdated THEN o.outdated ELSE w.outdated
        /\ y = IF w.why = r.why THEN o.why ELSE w.why
        /\ a = IF w.at = r.at THEN o.at ELSE w.at
        /\ v = IF w.version = r.version THEN o.version ELSE w.version
  OBVIOUS
<1>5. w.life = "row" /\ r.life = "row" /\ o.life = "row" /\ v \in {o.version, w.version}
  BY <1>1, <1>4 DEF DocRows
<1>6. row = [life |-> "row", text |-> t, source |-> s, status |-> u, outdated |-> d,
             why |-> y, at |-> a, version |-> v]
  BY <1>2, <1>3, <1>4, <1>5
<1>7. /\ t \in Wordings /\ s \in KnowledgeSourceReviewStatus /\ u \in WorkflowStatus
      /\ d \in BOOLEAN /\ y \in BOOLEAN /\ a \in BOOLEAN /\ v \in Nat \ {0}
  BY <1>1, <1>4 DEF DocRows
<1> QED
  BY <1>1, <1>5, <1>6, <1>7, DocRowIs

LEMMA CommitEditTypes ==
  ASSUME DocTypeInv, NEW x \in Editors, CommitEdit(x)
  PROVE  DocTypeInv'
<1>1. PICK f, d : f = edit[x] /\ d = f.doc
  OBVIOUS
<1>2. PICK row : row = IF Rewrites(f) THEN Merged(doc[d], f) ELSE f.want
  OBVIOUS
<1>3. /\ f # Idle /\ Lands(f)
      /\ doc' = [doc EXCEPT ![d] = row]
      /\ overtaken' = IF Stale(f) THEN overtaken \union {d} ELSE overtaken
      /\ seeded' = IF f.kind = "seed" THEN seeded \union {d} ELSE seeded
      /\ edit' = [edit EXCEPT ![x] = Idle]
  BY <1>1, <1>2 DEF CommitEdit
<1>4. FlushTyped(f) /\ d \in Docs
  BY <1>1, <1>3 DEF DocTypeInv, FlushTyped
<1>5. \A y \in Editors : edit'[y] # Idle => FlushTyped(edit'[y])
  BY <1>3 DEF DocTypeInv
<1>6. row # NoDoc => row \in DocRows /\ row.version <= MaxDocVersions
  <2>1. CASE f.kind \in {"create", "seed"}
    BY <1>2, <1>4, <2>1, VersionBound DEF FlushTyped, Rewrites
  <2>2. CASE Rewrites(f)
    <3>1. /\ doc[d] \in DocRows /\ doc[d].version <= MaxDocVersions
          /\ f.read \in DocRows /\ f.want \in DocRows
      BY <1>1, <1>3, <1>4, <2>2 DEF DocTypeInv, FlushTyped, Lands, Rewrites
    <3>2. f.want.version <= MaxDocVersions
      BY <1>3, <2>2, <3>1, RowIsSome DEF Lands, Rewrites
    <3>3. row = Merged(doc[d], f)
      BY <1>2, <2>2
    <3>4. row \in DocRows /\ row.version \in {doc[d].version, f.want.version}
      BY <3>1, <3>3, MergedTypes
    <3> QED
      BY <3>1, <3>2, <3>4
  <2>3. CASE f.kind = "delete"
    BY <1>2, <1>4, <2>3 DEF FlushTyped, Rewrites
  <2> QED
    BY <1>4, <2>1, <2>2, <2>3 DEF FlushTyped, Rewrites
<1>7. \A e \in Docs : doc'[e] # NoDoc => doc'[e] \in DocRows /\ doc'[e].version <= MaxDocVersions
  BY <1>3, <1>4, <1>6 DEF DocTypeInv, Lives
<1> QED
  BY <1>3, <1>4, <1>5, <1>7 DEF DocTypeInv, Lives, FlushTyped

LEMMA NextDocTypes ==
  ASSUME DocTypeInv, [KnowledgeNext]_kvars
  PROVE  DocTypeInv'
<1>1. CASE UNCHANGED kvars
  BY <1>1 DEF kvars, DocTypeInv, Lives, FlushTyped
<1>2. ASSUME NEW x \in Editors, BeginEdit(x) PROVE DocTypeInv'
  <2>1. PICK d \in Docs : \E f \in Flushes(d) : edit' = [edit EXCEPT ![x] = f]
    BY <1>2 DEF BeginEdit
  <2>2. PICK f \in Flushes(d) : edit' = [edit EXCEPT ![x] = f]
    BY <2>1
  <2>3. FlushTyped(f)
    BY <2>1, <2>2, CreateDocTypes, UpdateDocTypes, DeleteDocTypes, SeedTypes DEF Flushes
  <2>4. \A y \in Editors : edit'[y] # Idle => FlushTyped(edit'[y])
    BY <2>2, <2>3 DEF DocTypeInv
  <2> QED
    BY <1>2, <2>2, <2>4 DEF BeginEdit, DocTypeInv, Lives, FlushTyped
<1>3. ASSUME NEW x \in Editors, DropEdit(x) PROVE DocTypeInv'
  <2>1. \A y \in Editors : edit'[y] # Idle => FlushTyped(edit'[y])
    BY <1>3 DEF DropEdit, DocTypeInv
  <2> QED
    BY <1>3, <2>1 DEF DropEdit, DocTypeInv, Lives, FlushTyped
<1> QED
  BY <1>1, <1>2, <1>3, CommitEditTypes DEF KnowledgeNext

(* Whatever the sessions patch and however their updates are merged, the   *)
(* documents hold what their columns can.                                  *)
THEOREM KnowledgeTypes == KnowledgeSpec => []KnowledgeTypeOK
<1>1. KnowledgeInit => DocTypeInv
  BY DefaultsTyped, VersionBound DEF KnowledgeInit, DocTypeInv, Lives
<1>2. DocTypeInv => KnowledgeTypeOK
  BY VersionBound DEF DocTypeInv, KnowledgeTypeOK, DocRows
<1> QED
  BY <1>1, <1>2, NextDocTypes, PTL DEF KnowledgeSpec

-----------------------------------------------------------------------------
(* E-mail drafts. What a row may look like, and what an update of it keeps *)
(* whatever text was approved last.                                        *)
Numbered == [number : Nat, text : Texts]
IsDraft(row) ==
  /\ row = [row |-> TRUE, thread |-> row.thread, template |-> row.template, parent |-> row.parent,
            number |-> row.number, text |-> row.text, level |-> row.level, status |-> row.status,
            approved |-> row.approved, reason |-> row.reason, handoff |-> row.handoff,
            versions |-> row.versions]
  /\ row.number \in Nat /\ row.text \in Texts

Approval(row, text) ==
  /\ \/ row.approved = TRUE /\ row.status = "approved" /\ row.text = text
     \/ row.approved = FALSE /\ row.status # "approved"
  /\ row.handoff \in {"ready_for_send", "handed_off"} =>
       row.status = "approved" /\ row.text \notin Blank

Chronicle(vs, text) ==
  /\ vs \in Seq(Numbered) /\ vs # <<>>
  /\ \A i \in 1..Len(vs) : vs[i].number = i
  /\ vs[Len(vs)].text = text

Sound(row, text) == Approval(row, text) /\ Chronicle(row.versions, row.text)

Longer(old, new) == new = old \/ \E v \in Numbered : new = Append(old, v)

Change(u) ==
  /\ IsDraft(u.read) /\ IsDraft(u.want) /\ u.decision \in BOOLEAN
  /\ u.want.thread = u.read.thread /\ u.want.number = u.read.number
  /\ \A a : Sound(u.read, a) =>
       /\ Sound(u.want, IF u.decision THEN u.read.text ELSE a)
       /\ Longer(u.read.versions, u.want.versions)

LEMMA TopIsMax ==
  ASSUME NEW S, NEW top \in S, S \subseteq Nat, \A y \in S : top >= y
  PROVE  Max(S) = top
<1>1. PICK m : m = Max(S)
  OBVIOUS
<1>2. m \in S /\ \A y \in S : m >= y
  BY <1>1, Zenon DEF Max
<1>3. m >= top /\ top >= m /\ m \in Nat /\ top \in Nat
  BY <1>2
<1> QED
  BY <1>1, <1>3

LEMMA ChronicleGrows ==
  ASSUME NEW vs, NEW old, NEW text \in Texts, Chronicle(vs, old),
         NEW v, v = [number |-> 1 + Max({vs[i].number : i \in DOMAIN vs}), text |-> text],
         NEW new, new = Append(vs, v)
  PROVE  Chronicle(new, text) /\ v \in Numbered
<1> DEFINE S == {vs[i].number : i \in DOMAIN vs}
<1>1. vs \in Seq(Numbered) /\ Len(vs) \in Nat \ {0} /\ DOMAIN vs = 1..Len(vs)
  BY EmptySeq, LenProperties DEF Chronicle
<1>2. S = 1..Len(vs)
  BY <1>1 DEF Chronicle
<1>3. Max(S) = Len(vs)
  <2> HIDE DEF S
  <2>1. Len(vs) \in S /\ S \subseteq Nat /\ \A y \in S : Len(vs) >= y
    BY <1>1, <1>2
  <2> QED
    BY <2>1, TopIsMax
<1>4. v = [number |-> 1 + Len(vs), text |-> text]
  BY <1>3
<1>5. v \in Numbered
  BY <1>1, <1>4 DEF Numbered
<1>6. /\ new \in Seq(Numbered) /\ new # <<>> /\ Len(new) = Len(vs) + 1
      /\ \A i \in 1..Len(vs) : new[i] = vs[i]
      /\ new[Len(vs) + 1] = v
  BY <1>1, <1>5, AppendProperties
<1>7. ASSUME NEW i \in 1..Len(new) PROVE new[i].number = i
  <2>1. CASE i \in 1..Len(vs)
    BY <1>6, <2>1 DEF Chronicle
  <2>2. CASE i = Len(vs) + 1
    BY <1>1, <1>4, <1>6, <2>2
  <2> QED
    BY <1>1, <1>6, <2>1, <2>2
<1>8. new[Len(new)].text = text
  BY <1>4, <1>6
<1> QED
  BY <1>5, <1>6, <1>7, <1>8 DEF Chronicle

Settled(row, yes, reason, status, handoff) ==
  [row EXCEPT !.approved = yes, !.reason = reason, !.status = status, !.handoff = handoff]

LEMMA ApprovalColumns ==
  ASSUME NEW row, IsDraft(row), NEW yes, NEW reason, NEW st, NEW ho,
         NEW want, want = Settled(row, yes, reason, st, ho)
  PROVE  want = [row |-> TRUE, thread |-> row.thread, template |-> row.template, parent |-> row.parent,
                 number |-> row.number, text |-> row.text, level |-> row.level,
                 status |-> st, approved |-> yes, reason |-> reason, handoff |-> ho,
                 versions |-> row.versions]
<1>1. PICK h, g, p, n, t, l, w, y, r, o, vs :
        row = [row |-> TRUE, thread |-> h, template |-> g, parent |-> p, number |-> n, text |-> t,
               level |-> l, status |-> w, approved |-> y, reason |-> r, handoff |-> o, versions |-> vs]
  BY DEF IsDraft
<1> QED
  BY <1>1 DEF Settled

LEMMA Wanted ==
  ASSUME NEW d, NEW want, NEW decision, NEW u, u = Wanting(d, want, decision)
  PROVE  u.doing = "updating" /\ u.draft = d /\ u.read = draft[d] /\ u.want = want /\ u.decision = decision
  BY DEF Wanting

LEMMA ApprovalChanges ==
  ASSUME NEW d, IsDraft(draft[d]), NEW u \in set_draft_approval(d)
  PROVE  Change(u) /\ u.doing = "updating" /\ u.draft = d /\ u.read = draft[d]
<1>1. PICK row : row = draft[d]
  OBVIOUS
<1>2. PICK v \in [yes : BOOLEAN, reason : BOOLEAN] :
        u = Wanting(d, [row EXCEPT !.approved = v.yes, !.reason = v.reason,
                                   !.status = IF v.yes THEN "approved" ELSE "rejected",
                                   !.handoff = IF v.yes THEN @ ELSE "blocked"], v.yes)
  BY <1>1 DEF set_draft_approval
<1>3. PICK yes, reason : yes = v.yes /\ reason = v.reason /\ yes \in BOOLEAN
  OBVIOUS
<1>4. PICK st, ho : st = (IF yes THEN "approved" ELSE "rejected")
                    /\ ho = (IF yes THEN row.handoff ELSE "blocked")
  OBVIOUS
<1>5. PICK want : want = Settled(row, yes, reason, st, ho)
  OBVIOUS
<1>6. u.doing = "updating" /\ u.draft = d /\ u.read = row /\ u.want = want /\ u.decision = yes
  BY <1>1, <1>2, <1>3, <1>4, <1>5, Wanted DEF Settled
<1>7. want = [row |-> TRUE, thread |-> row.thread, template |-> row.template, parent |-> row.parent,
              number |-> row.number, text |-> row.text, level |-> row.level,
              status |-> st, approved |-> yes, reason |-> reason, handoff |-> ho,
              versions |-> row.versions]
  <2>1. IsDraft(row)
    BY <1>1
  <2> QED
    BY <1>5, <2>1, ApprovalColumns
<1>8. IsDraft(want) /\ want.thread = row.thread /\ want.number = row.number
  BY <1>1, <1>7 DEF IsDraft
<1>9. ASSUME NEW a, Sound(row, a)
      PROVE  Sound(want, IF yes THEN row.text ELSE a) /\ Longer(row.versions, want.versions)
  <2>1. want.text = row.text /\ want.versions = row.versions
    BY <1>7
  <2>2. CASE yes
    <3>1. want.approved = TRUE /\ want.status = "approved" /\ want.handoff = row.handoff
      BY <1>7, <1>4, <2>2
    <3> QED
      BY <1>9, <2>1, <2>2, <3>1 DEF Sound, Approval, Longer
  <2>3. CASE ~yes
    <3>1. want.approved = FALSE /\ want.status = "rejected" /\ want.handoff = "blocked"
      BY <1>3, <1>7, <1>4, <2>3
    <3> QED
      BY <1>9, <2>1, <2>3, <3>1 DEF Sound, Approval, Longer
  <2> QED
    BY <2>2, <2>3
<1> QED
  BY <1>1, <1>3, <1>6, <1>8, <1>9 DEF Change

LEMMA ContentChanges ==
  ASSUME NEW d, IsDraft(draft[d]), NEW u \in update_draft_content(d)
  PROVE  Change(u) /\ u.doing = "updating" /\ u.draft = d /\ u.read = draft[d]
<1>1. PICK row : row = draft[d]
  OBVIOUS
<1>2. PICK t \in Texts :
        u = Wanting(d, _append_draft_version([row EXCEPT !.text = t, !.approved = FALSE,
                                                 !.status = "pending", !.handoff = "blocked"]), FALSE)
  BY <1>1 DEF update_draft_content
<1>3. PICK edited : edited = [row EXCEPT !.text = t, !.approved = FALSE, !.status = "pending",
                                         !.handoff = "blocked"]
  OBVIOUS
<1>4. edited = [row |-> TRUE, thread |-> row.thread, template |-> row.template, parent |-> row.parent,
                number |-> row.number, text |-> t, level |-> row.level, status |-> "pending",
                approved |-> FALSE, reason |-> row.reason, handoff |-> "blocked",
                versions |-> row.versions]
  <2>1. PICK h, g, p, n, t0, l, w, y, r, o, vs0 :
          row = [row |-> TRUE, thread |-> h, template |-> g, parent |-> p, number |-> n, text |-> t0,
                 level |-> l, status |-> w, approved |-> y, reason |-> r, handoff |-> o, versions |-> vs0]
    BY <1>1 DEF IsDraft
  <2> QED
    BY <1>3, <2>1
<1>5. PICK v : v = [number |-> 1 + Max({row.versions[i].number : i \in DOMAIN row.versions}), text |-> t]
  OBVIOUS
<1>6. PICK vs, want : vs = Append(row.versions, v) /\ want = [edited EXCEPT !.versions = vs]
  OBVIOUS
<1>7. u = Wanting(d, want, FALSE)
  <2>1. edited.versions = row.versions /\ edited.text = t
    BY <1>4
  <2>2. _append_draft_version(edited) = want
    BY <1>5, <1>6, <2>1 DEF _append_draft_version
  <2> QED
    BY <1>2, <1>3, <2>2
<1>8. u.doing = "updating" /\ u.draft = d /\ u.read = row /\ u.want = want /\ u.decision = FALSE
  BY <1>1, <1>7 DEF Wanting
<1>9. want = [row |-> TRUE, thread |-> row.thread, template |-> row.template, parent |-> row.parent,
              number |-> row.number, text |-> t, level |-> row.level, status |-> "pending",
              approved |-> FALSE, reason |-> row.reason, handoff |-> "blocked", versions |-> vs]
  BY <1>4, <1>6
<1>10. IsDraft(want) /\ want.thread = row.thread /\ want.number = row.number
  BY <1>1, <1>9 DEF IsDraft
<1>11. ASSUME NEW a, Sound(row, a)
       PROVE  Sound(want, a) /\ Longer(row.versions, want.versions)
  <2>1. Chronicle(vs, t) /\ v \in Numbered
    BY <1>5, <1>6, <1>11, ChronicleGrows DEF Sound
  <2>2. /\ want.text = t /\ want.versions = vs /\ want.approved = FALSE /\ want.status = "pending"
        /\ want.handoff = "blocked"
    BY <1>9
  <2> QED
    BY <1>6, <2>1, <2>2 DEF Sound, Approval, Longer
<1> QED
  BY <1>1, <1>8, <1>10, <1>11 DEF Change

LEMMA HandoffChanges ==
  ASSUME NEW d, IsDraft(draft[d]), NEW u \in set_draft_handoff(d)
  PROVE  Change(u) /\ u.doing = "updating" /\ u.draft = d /\ u.read = draft[d]
<1>1. PICK row : row = draft[d]
  OBVIOUS
<1>2. PICK to \in {"draft", "blocked", "ready_for_send", "handed_off"} :
        _validate_handoff_transition(row, to) /\ u = Wanting(d, [row EXCEPT !.handoff = to], FALSE)
  BY <1>1 DEF set_draft_handoff
<1>3. PICK want : want = [row EXCEPT !.handoff = to]
  OBVIOUS
<1>4. u.doing = "updating" /\ u.draft = d /\ u.read = row /\ u.want = want /\ u.decision = FALSE
  BY <1>1, <1>2, <1>3 DEF Wanting
<1>5. want = [row |-> TRUE, thread |-> row.thread, template |-> row.template, parent |-> row.parent,
              number |-> row.number, text |-> row.text, level |-> row.level, status |-> row.status,
              approved |-> row.approved, reason |-> row.reason, handoff |-> to,
              versions |-> row.versions]
  <2>1. PICK h, g, p, n, t0, l, w, y, r, o, vs0 :
          row = [row |-> TRUE, thread |-> h, template |-> g, parent |-> p, number |-> n, text |-> t0,
                 level |-> l, status |-> w, approved |-> y, reason |-> r, handoff |-> o, versions |-> vs0]
    BY <1>1 DEF IsDraft
  <2> QED
    BY <1>3, <2>1
<1>6. IsDraft(want) /\ want.thread = row.thread /\ want.number = row.number
  BY <1>1, <1>5 DEF IsDraft
<1>7. ASSUME NEW a, Sound(row, a)
      PROVE  Sound(want, a) /\ Longer(row.versions, want.versions)
  <2>1. /\ want.text = row.text /\ want.versions = row.versions /\ want.approved = row.approved
        /\ want.status = row.status /\ want.handoff = to
    BY <1>5
  <2>2. to \in {"ready_for_send", "handed_off"} => row.status = "approved" /\ row.text \notin Blank
    BY <1>2, <1>7 DEF _validate_handoff_transition, Sound, Approval
  <2> QED
    BY <1>7, <2>1, <2>2 DEF Sound, Approval, Longer
<1> QED
  BY <1>1, <1>4, <1>6, <1>7 DEF Change

(* The flush of an update over the row it was decided on makes it the row  *)
(* that was wanted; over any row it leaves thread and number.              *)
LEMMA FlushExact ==
  ASSUME NEW u, Change(u), NEW a, Sound(u.read, a)
  PROVE  Flushed(u.read, u) = u.want
<1>1. PICK old, new : old = u.read.versions /\ new = u.want.versions
  OBVIOUS
<1>2. Chronicle(old, u.read.text) /\ Longer(old, new)
  BY <1>1 DEF Change, Sound
<1>3. old \in Seq(Numbered) /\ Len(old) \in Nat
  BY <1>2, LenProperties DEF Chronicle
<1>4. old \o SubSeq(new, Len(old) + 1, Len(new)) = new
  <2>1. CASE new = old
    BY <1>3, <2>1, SubSeqEmpty, ConcatEmptySeq
  <2>2. CASE \E v \in Numbered : new = Append(old, v)
    <3>1. PICK v \in Numbered : new = Append(old, v)
      BY <2>2
    <3>2. new \in Seq(Numbered) /\ Len(new) = Len(old) + 1 /\ \A i \in 1..Len(old) : new[i] = old[i]
      BY <1>3, <3>1, AppendProperties
    <3>3. SubSeq(new, 1, Len(old)) \o SubSeq(new, Len(old) + 1, Len(new)) = SubSeq(new, 1, Len(new))
      <4>1. 1 \in 1..Len(new)+1 /\ Len(old) \in 1-1..Len(new) /\ Len(new) \in Len(old)..Len(new)
        BY <1>3, <3>2
      <4> QED
        BY <3>2, <4>1, ConcatAdjacentSubSeq
    <3>4. SubSeq(new, 1, Len(new)) = new
      BY <3>2, SubSeqFull
    <3>5. SubSeq(new, 1, Len(old)) = old
      BY <1>3, <3>2
    <3> QED
      BY <3>3, <3>4, <3>5
  <2> QED
    BY <1>2, <2>1, <2>2 DEF Longer
<1>5. PICK r, w : r = u.read /\ w = u.want /\ IsDraft(r) /\ IsDraft(w)
  BY DEF Change
<1>6. Flushed(r, u) = [c \in DOMAIN r |-> IF c = "versions" THEN new
                                          ELSE IF w[c] = r[c] THEN r[c] ELSE w[c]]
  BY <1>1, <1>4, <1>5 DEF Flushed
<1>7. Flushed(r, u) = w
  BY <1>1, <1>5, <1>6 DEF IsDraft
<1> QED
  BY <1>5, <1>7

LEMMA FlushKeeps ==
  ASSUME NEW u, Change(u), NEW row, IsDraft(row), NEW next, next = Flushed(row, u)
  PROVE  IsDraft(next) /\ next.thread = row.thread /\ next.number = row.number
<1>1. PICK r, w : r = u.read /\ w = u.want
  OBVIOUS
<1>2. IsDraft(r) /\ IsDraft(w) /\ w.thread = r.thread /\ w.number = r.number
  BY <1>1 DEF Change
<1>3. PICK vs : next = [c \in DOMAIN row |-> IF c = "versions" THEN vs
                                             ELSE IF w[c] = r[c] THEN row[c] ELSE w[c]]
  BY <1>1 DEF Flushed
<1>4. next = [row |-> next.row, thread |-> next.thread, template |-> next.template,
              parent |-> next.parent, number |-> next.number, text |-> next.text,
              level |-> next.level, status |-> next.status, approved |-> next.approved,
              reason |-> next.reason, handoff |-> next.handoff, versions |-> next.versions]
  BY <1>3 DEF IsDraft
<1>5. r.row = TRUE /\ w.row = TRUE /\ row.row = TRUE
  BY <1>2 DEF IsDraft
<1>6. next.row = row.row /\ next.thread = row.thread /\ next.number = row.number
  BY <1>2, <1>3, <1>5 DEF IsDraft
<1>7. next.text = row.text \/ next.text = w.text
  BY <1>3 DEF IsDraft
<1> QED
  BY <1>2, <1>4, <1>5, <1>6, <1>7 DEF IsDraft

-----------------------------------------------------------------------------
(* The drafts with their sessions. An update was decided on the row that   *)
(* is still there, unless somebody else worked on it; the draft about to   *)
(* be inserted has a number above those of its thread, unless two were     *)
(* generated for it at once.                                               *)
Generates(c) == c.doing \in {"asking", "inserting"}
Updates(c) == c.doing = "updating"

ChangeOK(u) ==
  /\ Change(u) /\ u.draft \in Drafts /\ Stored(u.draft)
  /\ u.draft \notin crossed => u.read = draft[u.draft]

InsertOK(c) ==
  /\ IsDraft(c.row) /\ c.row.thread = c.thread /\ \A a : Sound(c.row, a)
  /\ c.thread \notin doubled =>
       \A d \in Drafts : Stored(d) /\ draft[d].thread = c.thread => c.row.number > draft[d].number

RowsOK ==
  \A d \in Drafts : Stored(d) =>
    IsDraft(draft[d]) /\ (d \notin crossed => Sound(draft[d], approved[d]))

NumbersApart ==
  \A d, e \in Drafts : Stored(d) /\ Stored(e) /\ d # e /\ draft[d].thread = draft[e].thread =>
    draft[d].thread \in doubled \/ draft[d].number # draft[e].number

Highest(t) ==
  \A e \in Drafts : Stored(e) /\ draft[e].thread = draft[t].thread => draft[t].number >= draft[e].number
NumbersTop ==
  \A d \in Drafts : Stored(d) =>
    \E t \in Drafts : Stored(t) /\ draft[t].thread = draft[d].thread /\ Highest(t)

SessionsApart ==
  \A s, o \in Clerks : s # o =>
    /\ Updates(clerk[s]) /\ Updates(clerk[o]) /\ clerk[s].draft = clerk[o].draft =>
         clerk[s].draft \in crossed
    /\ Generates(clerk[s]) /\ Generates(clerk[o]) /\ clerk[s].thread = clerk[o].thread =>
         clerk[s].thread \in doubled

WorkOK(c) == (Updates(c) => ChangeOK(c)) /\ (c.doing = "inserting" => InsertOK(c))

EmailInv ==
  /\ DOMAIN draft = Drafts /\ DOMAIN approved = Drafts /\ DOMAIN clerk = Clerks
  /\ RowsOK /\ NumbersApart /\ NumbersTop /\ SessionsApart
  /\ \A s \in Clerks : WorkOK(clerk[s])

LEMMA InitEmail == EmailInit => EmailInv
<1> SUFFICES ASSUME EmailInit PROVE EmailInv
  OBVIOUS
<1>1. \A d \in Drafts : ~Stored(d)
  BY DEF EmailInit, Stored
<1>2. \A s \in Clerks : ~Updates(clerk[s]) /\ ~Generates(clerk[s]) /\ clerk[s].doing # "inserting"
  BY DEF EmailInit, Resting, Updates, Generates
<1>3. DOMAIN draft = Drafts /\ DOMAIN approved = Drafts /\ DOMAIN clerk = Clerks
  BY DEF EmailInit
<1> QED
  BY <1>1, <1>2, <1>3 DEF EmailInv, RowsOK, NumbersApart, NumbersTop, SessionsApart, WorkOK

(* A step that leaves the rows alone keeps what was true of them.          *)
LEMMA RowsAlone ==
  ASSUME EmailInv, UNCHANGED <<draft, approved>>, crossed \subseteq crossed', doubled \subseteq doubled'
  PROVE  /\ RowsOK' /\ NumbersApart' /\ NumbersTop'
         /\ \A c : WorkOK(c) => WorkOK(c)'
<1>1. \A d : Stored(d)' <=> Stored(d)
  BY DEF Stored
<1>2. RowsOK'
  BY <1>1 DEF EmailInv, RowsOK
<1>3. NumbersApart'
  BY <1>1 DEF EmailInv, NumbersApart
<1>4. \A t : Highest(t)' <=> Highest(t)
  BY <1>1 DEF Highest
<1>5. NumbersTop'
  BY <1>1, <1>4 DEF EmailInv, NumbersTop
<1>6. ASSUME NEW c, ChangeOK(c) PROVE ChangeOK(c)'
  BY <1>1, <1>6 DEF ChangeOK
<1>7. ASSUME NEW c, InsertOK(c) PROVE InsertOK(c)'
  BY <1>1, <1>7 DEF InsertOK
<1> QED
  BY <1>2, <1>3, <1>5, <1>6, <1>7 DEF WorkOK

(* One session takes up other work.                                        *)
LEMMA SessionTurns ==
  ASSUME EmailInv, NEW s \in Clerks, NEW c, clerk' = [clerk EXCEPT ![s] = c],
         UNCHANGED <<draft, approved>>, crossed \subseteq crossed', doubled \subseteq doubled',
         WorkOK(c)',
         \A o \in Clerks : Updates(c) /\ Updates(clerk[o]) /\ clerk[o].draft = c.draft /\ o # s =>
           c.draft \in crossed',
         \A o \in Clerks : Generates(c) /\ Generates(clerk[o]) /\ clerk[o].thread = c.thread /\ o # s =>
           c.thread \in doubled'
  PROVE  EmailInv'
<1>1. clerk'[s] = c /\ \A o \in Clerks : o # s => clerk'[o] = clerk[o]
  BY DEF EmailInv
<1>2. ASSUME NEW o \in Clerks PROVE WorkOK(clerk[o])'
  <2>1. PICK w : w = clerk'[o]
    OBVIOUS
  <2>2. WorkOK(w)'
    BY <1>1, <2>1, RowsAlone DEF EmailInv
  <2> QED
    BY <2>1, <2>2
<1>3. ASSUME NEW a \in Clerks, NEW o \in Clerks, a # o
      PROVE  /\ Updates(clerk'[a]) /\ Updates(clerk'[o]) /\ clerk'[a].draft = clerk'[o].draft =>
                  clerk'[a].draft \in crossed'
             /\ Generates(clerk'[a]) /\ Generates(clerk'[o]) /\ clerk'[a].thread = clerk'[o].thread =>
                  clerk'[a].thread \in doubled'
  BY <1>1, <1>3 DEF EmailInv, SessionsApart
<1>4. SessionsApart'
  BY <1>3 DEF SessionsApart, Updates, Generates
<1>5. RowsOK' /\ NumbersApart' /\ NumbersTop'
  BY RowsAlone
<1> QED
  BY <1>2, <1>4, <1>5 DEF EmailInv

LEMMA AskStep ==
  ASSUME EmailInv, NEW s \in Clerks, Ask(s)
  PROVE  EmailInv'
<1>1. PICK ask : /\ ask \in (UNION {create_draft(h) : h \in Threads})
                            \union (UNION {refine_draft(d) : d \in {x \in Drafts : Stored(x)}})
                 /\ clerk' = [clerk EXCEPT ![s] = ask]
                 /\ doubled' = IF \E o \in Clerks : clerk[o].doing \in {"asking", "inserting"}
                                                   /\ clerk[o].thread = ask.thread
                                 THEN doubled \union {ask.thread} ELSE doubled
                 /\ UNCHANGED <<draft, approved, crossed>>
  BY DEF Ask
<1>2. ask.doing = "asking"
  BY <1>1 DEF create_draft, refine_draft, Asking
<1>3. WorkOK(ask)'
  BY <1>2 DEF WorkOK, Updates
<1>4. doubled \subseteq doubled'
  BY <1>1
<1>5. \A o \in Clerks : Generates(clerk[o]) /\ clerk[o].thread = ask.thread => ask.thread \in doubled'
  BY <1>1 DEF Generates
<1> QED
  BY <1>1, <1>2, <1>3, <1>4, <1>5, SessionTurns DEF Updates

LEMMA NextNumber ==
  ASSUME EmailInv, NEW h, NEW n, n = _next_thread_version_number(h)
  PROVE  n \in Nat /\ \A d \in Drafts : Stored(d) /\ draft[d].thread = h => n > draft[d].number
<1>1. CASE DraftsOf(h) = {}
  BY <1>1 DEF _next_thread_version_number, DraftsOf
<1>2. CASE DraftsOf(h) # {}
  <2>1. PICK t \in Drafts : Stored(t) /\ draft[t].thread = h /\ Highest(t)
    BY <1>2 DEF DraftsOf, EmailInv, NumbersTop
  <2>2. PICK S : S = {draft[d].number : d \in DraftsOf(h)}
    OBVIOUS
  <2>3. S \subseteq Nat
    BY <2>2 DEF DraftsOf, EmailInv, RowsOK, IsDraft
  <2>4. draft[t].number \in S
    BY <2>1, <2>2 DEF DraftsOf
  <2>5. \A y \in S : draft[t].number >= y
    BY <2>1, <2>2 DEF DraftsOf, Highest
  <2>6. Max(S) = draft[t].number
    BY <2>3, <2>4, <2>5, TopIsMax
  <2>7. n = 1 + draft[t].number
    BY <1>2, <2>2, <2>6 DEF _next_thread_version_number
  <2>8. ASSUME NEW d \in Drafts, Stored(d), draft[d].thread = h PROVE draft[d].number \in S
    BY <2>2, <2>8 DEF DraftsOf
  <2>9. PICK top : top = draft[t].number /\ top \in Nat /\ n = 1 + top
    BY <2>3, <2>4, <2>7
  <2>10. ASSUME NEW y \in S PROVE n > y
    <3>1. y \in Nat /\ top >= y
      BY <2>3, <2>5, <2>9
    <3> QED
      BY <2>9, <3>1
  <2> QED
    BY <2>8, <2>9, <2>10
<1> QED
  BY <1>1, <1>2

LEMMA AnswerStep ==
  ASSUME EmailInv, NEW s \in Clerks, Answer(s)
  PROVE  EmailInv'
<1>1. PICK ask : ask = clerk[s] /\ ask.doing = "asking"
  BY DEF Answer
<1>2. PICK result \in Answers(ask) :
        clerk' = [clerk EXCEPT ![s] = [doing |-> "inserting", thread |-> ask.thread,
                                       row |-> Generated(ask, result)]]
  BY <1>1 DEF Answer
<1>3. UNCHANGED <<draft, approved, crossed, doubled>>
  BY DEF Answer
<1>4. result.text \in Texts
  <2>1. PICK raw \in Texts, flags \in Incoming :
          result = IF ask.parent = Nobody THEN generate_email_draft(raw, flags)
                   ELSE refine_email_draft(raw, flags)
    BY DEF Answers
  <2>2. result.text = redact_sensitive(raw)
    BY <2>1 DEF generate_email_draft, refine_email_draft
  <2> QED
    BY <2>2, TextsRedacted DEF redact_sensitive
<1>5. PICK n : n = _next_thread_version_number(ask.thread)
  OBVIOUS
<1>6. PICK vs, text : text = result.text /\ vs = <<[number |-> 1, text |-> text]>>
  OBVIOUS
<1>7. PICK row : row = Generated(ask, result)
  OBVIOUS
<1>8. row = [row |-> TRUE, thread |-> ask.thread, template |-> ask.template, parent |-> ask.parent,
             number |-> n, text |-> text, level |-> result.level, status |-> "pending",
             approved |-> FALSE, reason |-> FALSE, handoff |-> "blocked", versions |-> vs]
  BY <1>5, <1>6, <1>7 DEF Generated
<1>9. n \in Nat /\ \A d \in Drafts : Stored(d) /\ draft[d].thread = ask.thread => n > draft[d].number
  BY <1>5, NextNumber
<1>10. IsDraft(row) /\ row.thread = ask.thread /\ row.number = n
  BY <1>4, <1>6, <1>8, <1>9 DEF IsDraft
<1>11. ASSUME NEW a PROVE Sound(row, a)
  <2>1. [number |-> 1, text |-> text] \in Numbered
    BY <1>4, <1>6 DEF Numbered
  <2>2. PICK v : v = [number |-> 1, text |-> text]
    OBVIOUS
  <2>3. vs = <<v>> /\ v \in Numbered /\ v.number = 1 /\ v.text = text
    BY <1>6, <2>1, <2>2
  <2>4. vs \in Seq(Numbered) /\ Len(vs) = 1 /\ vs[1] = v /\ vs # <<>>
    BY <2>3
  <2>5. Chronicle(vs, text)
    BY <2>3, <2>4 DEF Chronicle
  <2>6. row.approved = FALSE /\ row.status = "pending" /\ row.handoff = "blocked"
        /\ row.versions = vs /\ row.text = text
    BY <1>8
  <2> QED
    BY <2>5, <2>6 DEF Sound, Approval
<1>12. PICK c : c = [doing |-> "inserting", thread |-> ask.thread, row |-> row]
  OBVIOUS
<1>13. c.doing = "inserting" /\ c.thread = ask.thread /\ c.row = row
  BY <1>12
<1>14. WorkOK(c)
  BY <1>9, <1>10, <1>11, <1>13 DEF WorkOK, InsertOK, Updates
<1>15. WorkOK(c)'
  BY <1>3, <1>14, RowsAlone
<1>16. \A o \in Clerks : Generates(clerk[o]) /\ clerk[o].thread = c.thread /\ o # s => c.thread \in doubled
  BY <1>1, <1>13 DEF EmailInv, SessionsApart, Generates
<1>17. clerk' = [clerk EXCEPT ![s] = c]
  BY <1>2, <1>7, <1>12
<1> QED
  BY <1>3, <1>13, <1>15, <1>16, <1>17, SessionTurns DEF Updates

LEMMA HandleStep ==
  ASSUME EmailInv, NEW s \in Clerks, Handle(s)
  PROVE  EmailInv'
<1>1. PICK d \in Drafts :
        \E u \in set_draft_approval(d) \union update_draft_content(d) \union set_draft_handoff(d) :
          /\ clerk' = [clerk EXCEPT ![s] = u]
          /\ crossed' = IF \E o \in Clerks : clerk[o].doing = "updating" /\ clerk[o].draft = d
                          THEN crossed \union {d} ELSE crossed
  BY DEF Handle
<1>2. PICK u \in set_draft_approval(d) \union update_draft_content(d) \union set_draft_handoff(d) :
          /\ clerk' = [clerk EXCEPT ![s] = u]
          /\ crossed' = IF \E o \in Clerks : clerk[o].doing = "updating" /\ clerk[o].draft = d
                          THEN crossed \union {d} ELSE crossed
  BY <1>1
<1>3. UNCHANGED <<draft, approved, doubled>>
  BY DEF Handle
<1>4. Stored(d)
  BY <1>2 DEF set_draft_approval, update_draft_content, set_draft_handoff
<1>5. IsDraft(draft[d])
  BY <1>4 DEF EmailInv, RowsOK
<1>6. Change(u) /\ u.doing = "updating" /\ u.draft = d /\ u.read = draft[d]
  BY <1>2, <1>5, ApprovalChanges, ContentChanges, HandoffChanges
<1>7. WorkOK(u)
  BY <1>4, <1>6 DEF WorkOK, ChangeOK
<1>8. crossed \subseteq crossed'
  BY <1>2
<1>9. WorkOK(u)'
  BY <1>3, <1>7, <1>8, RowsAlone
<1>10. \A o \in Clerks : Updates(clerk[o]) /\ clerk[o].draft = u.draft => u.draft \in crossed'
  BY <1>2, <1>6 DEF Updates
<1> QED
  BY <1>2, <1>3, <1>6, <1>8, <1>9, <1>10, SessionTurns DEF Generates

LEMMA DropWorkStep ==
  ASSUME EmailInv, NEW s \in Clerks, DropWork(s)
  PROVE  EmailInv'
<1>1. clerk' = [clerk EXCEPT ![s] = Resting] /\ UNCHANGED <<draft, approved, crossed, doubled>>
  BY DEF DropWork
<1>2. Resting.doing = "nothing"
  BY DEF Resting
<1>3. WorkOK(Resting)' /\ ~Updates(Resting) /\ ~Generates(Resting)
  BY <1>2 DEF WorkOK, Updates, Generates
<1> QED
  BY <1>1, <1>3, SessionTurns

LEMMA CommitDraftStep ==
  ASSUME EmailInv, NEW s \in Clerks, CommitDraft(s)
  PROVE  EmailInv'
<1>1. PICK c, row : c = clerk[s] /\ row = c.row /\ c.doing = "inserting"
  BY DEF CommitDraft
<1>2. PICK d \in Drafts : ~Stored(d) /\ draft' = [draft EXCEPT ![d] = row]
  BY <1>1 DEF CommitDraft
<1>3. clerk' = [clerk EXCEPT ![s] = Resting] /\ UNCHANGED <<approved, crossed, doubled>>
  BY DEF CommitDraft
<1>4. /\ IsDraft(row) /\ row.thread = c.thread /\ \A a : Sound(row, a)
      /\ c.thread \notin doubled =>
           \A e \in Drafts : Stored(e) /\ draft[e].thread = c.thread => row.number > draft[e].number
  BY <1>1 DEF EmailInv, WorkOK, InsertOK
<1>5. draft'[d] = row /\ \A e \in Drafts : e # d => draft'[e] = draft[e]
  BY <1>2 DEF EmailInv
<1>6. Stored(d)' /\ \A e \in Drafts : e # d => (Stored(e)' <=> Stored(e))
  BY <1>4, <1>5 DEF Stored, IsDraft, NoRow
<1>7. RowsOK'
  BY <1>3, <1>4, <1>5, <1>6 DEF EmailInv, RowsOK
<1>8. NumbersApart'
  <2>1. ASSUME NEW e \in Drafts, e # d, Stored(e), draft[e].thread = row.thread
        PROVE  row.thread \in doubled \/ draft[e].number # row.number
    BY <1>4, <2>1 DEF EmailInv, RowsOK, IsDraft
  <2>2. ASSUME NEW a \in Drafts, NEW b \in Drafts, Stored(a)', Stored(b)', a # b,
               draft'[a].thread = draft'[b].thread
        PROVE  draft'[a].thread \in doubled \/ draft'[a].number # draft'[b].number
    <3>1. CASE a = d
      BY <1>5, <1>6, <2>1, <2>2, <3>1
    <3>2. CASE b = d
      BY <1>5, <1>6, <2>1, <2>2, <3>2
    <3>3. CASE a # d /\ b # d
      BY <1>5, <1>6, <2>2, <3>3 DEF EmailInv, NumbersApart
    <3> QED
      BY <3>1, <3>2, <3>3
  <2> QED
    BY <1>3, <2>2 DEF NumbersApart
<1>9. NumbersTop'
  <2> SUFFICES ASSUME NEW e \in Drafts, Stored(e)'
               PROVE  \E t \in Drafts : Stored(t)' /\ draft'[t].thread = draft'[e].thread /\ Highest(t)'
    BY DEF NumbersTop
  <2>1. CASE draft'[e].thread # row.thread
    <3>1. e # d /\ Stored(e) /\ draft'[e] = draft[e]
      BY <1>5, <1>6, <2>1
    <3>2. PICK t \in Drafts : Stored(t) /\ draft[t].thread = draft[e].thread /\ Highest(t)
      BY <3>1 DEF EmailInv, NumbersTop
    <3>3. t # d
      BY <1>2, <3>2
    <3>4. Highest(t)'
      BY <1>5, <1>6, <2>1, <3>1, <3>2, <3>3 DEF Highest
    <3> QED
      BY <1>5, <1>6, <3>1, <3>2, <3>3, <3>4
  <2>2. CASE draft'[e].thread = row.thread
    <3>1. CASE \E t \in Drafts : Stored(t) /\ draft[t].thread = row.thread
      <4>1. PICK t \in Drafts : Stored(t) /\ draft[t].thread = row.thread /\ Highest(t)
        BY <3>1 DEF EmailInv, NumbersTop
      <4>2. t # d /\ draft'[t] = draft[t]
        BY <1>2, <1>5, <4>1
      <4>3. draft[t].number \in Nat /\ row.number \in Nat
        BY <1>4, <4>1 DEF EmailInv, RowsOK, IsDraft
      <4>4. \A b \in Drafts : Stored(b) => draft[b].number \in Nat
        BY DEF EmailInv, RowsOK, IsDraft
      <4>5. CASE draft[t].number >= row.number
        <5>1. Highest(t)'
          BY <1>5, <1>6, <4>1, <4>2, <4>5 DEF Highest
        <5> QED
          BY <1>6, <2>2, <4>1, <4>2, <5>1
      <4>6. CASE row.number > draft[t].number
        <5>1. Highest(d)'
          BY <1>5, <1>6, <4>1, <4>3, <4>4, <4>6 DEF Highest
        <5> QED
          BY <1>5, <1>6, <2>2, <5>1
      <4> QED
        BY <4>3, <4>5, <4>6
    <3>2. CASE ~\E t \in Drafts : Stored(t) /\ draft[t].thread = row.thread
      <4>1. Highest(d)'
        BY <1>4, <1>5, <1>6, <3>2 DEF Highest, IsDraft
      <4> QED
        BY <1>5, <1>6, <2>2, <4>1
    <3> QED
      BY <3>1, <3>2
  <2> QED
    BY <2>1, <2>2
<1>10. clerk'[s] = Resting /\ \A o \in Clerks : o # s => clerk'[o] = clerk[o]
  BY <1>3 DEF EmailInv
<1>11. ~Updates(Resting) /\ ~Generates(Resting) /\ Resting.doing # "inserting"
  BY DEF Updates, Generates, Resting
<1>12. SessionsApart'
  BY <1>3, <1>10, <1>11 DEF EmailInv, SessionsApart, Updates, Generates
<1>13. ASSUME NEW u, ChangeOK(u) PROVE ChangeOK(u)'
  <2>1. u.draft \in Drafts /\ u.draft # d
    BY <1>2, <1>13 DEF ChangeOK
  <2> QED
    BY <1>3, <1>5, <1>6, <1>13, <2>1 DEF ChangeOK
<1>14. ASSUME NEW o \in Clerks, o # s PROVE WorkOK(clerk[o])'
  <2>1. PICK w : w = clerk[o] /\ w = clerk'[o]
    BY <1>10, <1>14
  <2>2. (Updates(w) => ChangeOK(w)) /\ (w.doing = "inserting" => InsertOK(w))
    BY <2>1 DEF EmailInv, WorkOK
  <2>3. w.doing = "inserting" /\ w.thread = c.thread => w.thread \in doubled
    BY <1>1, <1>14, <2>1 DEF EmailInv, SessionsApart, Generates
  <2>4. w.doing = "inserting" => InsertOK(w)'
    <3>1. ASSUME w.doing = "inserting", w.thread \notin doubled, NEW e \in Drafts, Stored(e)',
                 draft'[e].thread = w.thread
          PROVE  w.row.number > draft'[e].number
      <4>1. e # d
        BY <1>4, <1>5, <2>3, <3>1
      <4> QED
        BY <1>5, <1>6, <2>2, <3>1, <4>1 DEF InsertOK
    <3> QED
      BY <1>3, <2>2, <3>1 DEF InsertOK
  <2>5. WorkOK(w)'
    BY <1>13, <2>2, <2>4 DEF WorkOK
  <2> QED
    BY <2>1, <2>5
<1>15. WorkOK(clerk[s])'
  BY <1>10, <1>11 DEF WorkOK, Updates
<1> QED
  BY <1>2, <1>3, <1>7, <1>8, <1>9, <1>12, <1>14, <1>15 DEF EmailInv

LEMMA CommitUpdateStep ==
  ASSUME EmailInv, NEW s \in Clerks, CommitUpdate(s)
  PROVE  EmailInv'
<1>1. PICK u, d : u = clerk[s] /\ d = u.draft /\ Updates(u)
  BY DEF CommitUpdate, Updates
<1>2. PICK row, next : row = draft[d] /\ next = Flushed(row, u)
  OBVIOUS
<1>3. Change(u) /\ d \in Drafts /\ Stored(d) /\ (d \notin crossed => u.read = row)
  BY <1>1, <1>2 DEF EmailInv, WorkOK, ChangeOK
<1>4. /\ draft' = [draft EXCEPT ![d] = next]
      /\ approved' = IF u.decision THEN [approved EXCEPT ![d] = u.read.text] ELSE approved
      /\ clerk' = [clerk EXCEPT ![s] = Resting] /\ UNCHANGED <<crossed, doubled>>
  BY <1>1, <1>2 DEF CommitUpdate
<1>5. IsDraft(row) /\ (d \notin crossed => Sound(row, approved[d]))
  BY <1>2, <1>3 DEF EmailInv, RowsOK
<1>6. IsDraft(next) /\ next.thread = row.thread /\ next.number = row.number
  BY <1>2, <1>3, <1>5, FlushKeeps
<1>7. draft'[d] = next /\ \A e \in Drafts : e # d => draft'[e] = draft[e] /\ approved'[e] = approved[e]
  BY <1>3, <1>4 DEF EmailInv
<1>8. approved'[d] = (IF u.decision THEN u.read.text ELSE approved[d])
  BY <1>3, <1>4 DEF EmailInv
<1>9. ASSUME d \notin crossed PROVE Sound(next, approved'[d])
  <2>1. u.read = row /\ Sound(u.read, approved[d])
    BY <1>3, <1>5, <1>9
  <2>2. next = u.want
    BY <1>2, <1>3, <2>1, FlushExact
  <2> QED
    BY <1>3, <1>8, <2>1, <2>2 DEF Change
<1>10. \A e \in Drafts : Stored(e)' <=> Stored(e)
  BY <1>3, <1>6, <1>7 DEF Stored, IsDraft, NoRow
<1>11. \A e \in Drafts : draft'[e].thread = draft[e].thread /\ draft'[e].number = draft[e].number
  BY <1>2, <1>6, <1>7
<1>12. RowsOK'
  <2> SUFFICES ASSUME NEW e \in Drafts, Stored(e)'
               PROVE  IsDraft(draft'[e]) /\ (e \notin crossed => Sound(draft'[e], approved'[e]))
    BY <1>4 DEF RowsOK
  <2>1. CASE e = d
    BY <1>6, <1>7, <1>9, <2>1
  <2>2. CASE e # d
    BY <1>7, <1>10, <2>2 DEF EmailInv, RowsOK
  <2> QED
    BY <2>1, <2>2
<1>13. NumbersApart'
  BY <1>4, <1>10, <1>11 DEF EmailInv, NumbersApart
<1>14. \A t \in Drafts : Highest(t) => Highest(t)'
  BY <1>10, <1>11 DEF Highest
<1>15. NumbersTop'
  BY <1>10, <1>11, <1>14 DEF EmailInv, NumbersTop
<1>16. clerk'[s] = Resting /\ \A o \in Clerks : o # s => clerk'[o] = clerk[o]
  BY <1>4 DEF EmailInv
<1>17. ~Updates(Resting) /\ ~Generates(Resting) /\ Resting.doing # "inserting"
  BY DEF Updates, Generates, Resting
<1>18. SessionsApart'
  BY <1>4, <1>16, <1>17 DEF EmailInv, SessionsApart, Updates, Generates
<1>19. ASSUME NEW o \in Clerks, o # s PROVE WorkOK(clerk[o])'
  <2>1. PICK w : w = clerk[o] /\ w = clerk'[o]
    BY <1>16, <1>19
  <2>2. (Updates(w) => ChangeOK(w)) /\ (w.doing = "inserting" => InsertOK(w))
    BY <2>1 DEF EmailInv, WorkOK
  <2>3. Updates(w) /\ w.draft = d => d \in crossed
    BY <1>1, <1>19, <2>1 DEF EmailInv, SessionsApart
  <2>4. Updates(w) => ChangeOK(w)'
    BY <1>4, <1>7, <1>10, <2>2, <2>3 DEF ChangeOK
  <2>5. w.doing = "inserting" => InsertOK(w)'
    BY <1>4, <1>10, <1>11, <2>2 DEF InsertOK
  <2>6. WorkOK(w)'
    BY <2>4, <2>5 DEF WorkOK, Updates
  <2> QED
    BY <2>1, <2>6
<1>20. WorkOK(clerk[s])'
  BY <1>16, <1>17 DEF WorkOK, Updates
<1>21. DOMAIN draft' = Drafts /\ DOMAIN approved' = Drafts /\ DOMAIN clerk' = Clerks
  BY <1>4 DEF EmailInv
<1> QED
  BY <1>12, <1>13, <1>15, <1>18, <1>19, <1>20, <1>21 DEF EmailInv

LEMMA NextEmail ==
  ASSUME EmailInv, [EmailNext]_evars
  PROVE  EmailInv'
<1>1. ASSUME UNCHANGED <<draft, clerk, approved, crossed, doubled>> PROVE EmailInv'
  <2>1. RowsOK' /\ NumbersApart' /\ NumbersTop' /\ \A c : WorkOK(c) => WorkOK(c)'
    BY <1>1, RowsAlone
  <2>2. SessionsApart'
    BY <1>1 DEF EmailInv, SessionsApart, Updates, Generates
  <2>3. ASSUME NEW o \in Clerks PROVE WorkOK(clerk[o])'
    <3>1. PICK w : w = clerk[o]
      OBVIOUS
    <3>2. WorkOK(w)'
      BY <2>1, <3>1 DEF EmailInv
    <3> QED
      BY <1>1, <3>1, <3>2
  <2> QED
    BY <1>1, <2>1, <2>2, <2>3 DEF EmailInv
<1>2. CASE UNCHANGED evars
  BY <1>1, <1>2 DEF evars
<1>3. CASE EditTemplates
  BY <1>1, <1>3 DEF EditTemplates
<1>4. CASE \E s \in Clerks : Ask(s) \/ Answer(s) \/ CommitDraft(s) \/ Handle(s) \/ CommitUpdate(s) \/ DropWork(s)
  BY <1>4, AskStep, AnswerStep, CommitDraftStep, HandleStep, CommitUpdateStep, DropWorkStep
<1> QED
  BY <1>2, <1>3, <1>4 DEF EmailNext

LEMMA EmailAlways == EmailSpec => []EmailInv
  BY InitEmail, NextEmail, PTL DEF EmailSpec

(* For any number of threads, drafts and sessions: of a draft that two     *)
(* sessions did not work on at once, only the text an administrator        *)
(* approved waits to be sent or was handed off.                            *)
THEOREM HandedSafety == EmailSpec => []HandedTextApproved
<1>1. EmailInv => HandedTextApproved
  BY DEF EmailInv, RowsOK, Sound, Approval, HandedTextApproved
<1> QED
  BY <1>1, EmailAlways, PTL

(* And its versions are numbered without a gap and end with its text; the  *)
(* drafts of a thread have different numbers.                              *)
THEOREM HistorySafety == EmailSpec => []HistoryComplete
<1>1. ASSUME EmailInv, NEW d \in Drafts, Stored(d), d \notin crossed
      PROVE  /\ \A i \in DOMAIN draft[d].versions : draft[d].versions[i].number = i
             /\ Last(draft[d].versions).text = draft[d].text
  <2>1. PICK vs, text : vs = draft[d].versions /\ text = draft[d].text
    OBVIOUS
  <2>2. Chronicle(vs, text)
    BY <1>1, <2>1 DEF EmailInv, RowsOK, Sound
  <2>3. DOMAIN vs = 1..Len(vs)
    BY <2>2, LenProperties DEF Chronicle
  <2> QED
    BY <2>1, <2>2, <2>3 DEF Chronicle, Last
<1>2. EmailInv => HistoryComplete
  BY <1>1 DEF EmailInv, NumbersApart, HistoryComplete
<1> QED
  BY <1>2, EmailAlways, PTL

-----------------------------------------------------------------------------
(* The types of the drafts, whether two sessions worked on them or not. A  *)
(* version's number stays below MaxVersions because the versions of a row  *)
(* only get more, and none has a number above how many there are.          *)
Versions == [number : 1..MaxVersions, text : Texts]
Topped(vs) == \E top \in 1..Len(vs) : \A i \in 1..Len(vs) : vs[top].number >= vs[i].number
Tally(vs) ==
  vs \in Seq(Versions) /\ vs # <<>> /\ Topped(vs) /\ \A i \in 1..Len(vs) : vs[i].number <= Len(vs)

Columns(row) ==
  /\ row.level \in {"low", "medium", "high", "critical"}
  /\ row.status \in {"pending", "approved", "rejected"}
  /\ row.handoff \in {"draft", "blocked", "ready_for_send", "handed_off"}
  /\ row.approved \in BOOLEAN /\ row.reason \in BOOLEAN
RowTyped(row) == IsDraft(row) /\ Columns(row) /\ Tally(row.versions)

Adds(old, new) ==
  new = old \/ \E v \in Versions : new = Append(old, v) /\ v.number <= Len(old) + 1
ChangeTyped(u) ==
  /\ IsDraft(u.read) /\ Columns(u.read) /\ Tally(u.read.versions)
  /\ IsDraft(u.want) /\ Columns(u.want) /\ Adds(u.read.versions, u.want.versions)

TypedWork(c) ==
  /\ Generates(c) => c.thread \in thread
  /\ c.doing = "inserting" => RowTyped(c.row)
  /\ Updates(c) => ChangeTyped(c) /\ Len(c.read.versions) <= Len(draft[c.draft].versions)

TypedRows ==
  \A d \in Drafts : Stored(d) => draft[d].thread \in thread /\ RowTyped(draft[d])
TypedTemplates ==
  /\ DOMAIN template = Templates
  /\ \A g \in Templates : template[g] # NoRow =>
       template[g] \in [row : {TRUE}, thread : Threads \union {Nobody}, active : BOOLEAN]

EmailTypeInv ==
  /\ thread \subseteq Threads /\ TypedRows /\ TypedTemplates
  /\ \A s \in Clerks : TypedWork(clerk[s])

LEMMA VersionsNumbered == Versions \subseteq Numbered
  BY DraftVersionBound DEF Versions, Numbered

LEMMA TallyGrows ==
  ASSUME NEW vs, Tally(vs), NEW v \in Versions, v.number <= Len(vs) + 1,
         NEW new, new = Append(vs, v)
  PROVE  Tally(new) /\ Len(new) = Len(vs) + 1
<1>1. vs \in Seq(Versions) /\ Len(vs) \in Nat
  BY LenProperties DEF Tally
<1>2. /\ new \in Seq(Versions) /\ new # <<>> /\ Len(new) = Len(vs) + 1
      /\ \A i \in 1..Len(vs) : new[i] = vs[i]
      /\ new[Len(vs) + 1] = v
  BY <1>1, AppendProperties
<1>3. \A i \in 1..Len(new) : i \in 1..Len(vs) \/ i = Len(vs) + 1
  BY <1>1, <1>2
<1>4. v.number \in Nat /\ \A i \in 1..Len(vs) : vs[i].number \in Nat
  <2>1. \A w \in Versions : w.number \in Nat
    BY DraftVersionBound DEF Versions
  <2>2. \A i \in 1..Len(vs) : vs[i] \in Versions
    BY <1>1
  <2> QED
    BY <2>1, <2>2
<1>5. \A i \in 1..Len(new) : new[i].number <= Len(new)
  BY <1>1, <1>2, <1>3, <1>4 DEF Tally
<1>6. PICK top \in 1..Len(vs) : \A i \in 1..Len(vs) : vs[top].number >= vs[i].number
  BY DEF Tally, Topped
<1>7. CASE vs[top].number >= v.number
  <2>1. top \in 1..Len(new) /\ new[top] = vs[top]
    BY <1>1, <1>2, <1>6
  <2>2. \A i \in 1..Len(new) : new[top].number >= new[i].number
    BY <1>2, <1>3, <1>6, <1>7, <2>1
  <2> QED
    BY <1>2, <1>5, <2>1, <2>2 DEF Tally, Topped
<1>8. CASE v.number > vs[top].number
  <2>1. Len(new) \in 1..Len(new) /\ new[Len(new)] = v
    BY <1>1, <1>2
  <2>2. ASSUME NEW i \in 1..Len(new) PROVE v.number >= new[i].number
    <3>1. CASE i = Len(vs) + 1
      BY <1>2, <1>4, <3>1
    <3>2. CASE i \in 1..Len(vs)
      BY <1>2, <1>4, <1>6, <1>8, <3>2
    <3> QED
      BY <1>3, <3>1, <3>2
  <2> QED
    BY <1>2, <1>5, <2>1, <2>2 DEF Tally, Topped
<1> QED
  BY <1>4, <1>6, <1>7, <1>8

LEMMA ApprovalTypes ==
  ASSUME NEW d, RowTyped(draft[d]), NEW u \in set_draft_approval(d)
  PROVE  ChangeTyped(u) /\ u.draft = d /\ u.read = draft[d]
<1>1. PICK row : row = draft[d] /\ RowTyped(row)
  OBVIOUS
<1>2. PICK v \in [yes : BOOLEAN, reason : BOOLEAN] :
        u = Wanting(d, [row EXCEPT !.approved = v.yes, !.reason = v.reason,
                                   !.status = IF v.yes THEN "approved" ELSE "rejected",
                                   !.handoff = IF v.yes THEN @ ELSE "blocked"], v.yes)
  BY <1>1 DEF set_draft_approval
<1>3. PICK yes, reason : yes = v.yes /\ reason = v.reason /\ yes \in BOOLEAN /\ reason \in BOOLEAN
  OBVIOUS
<1>4. PICK st, ho : st = (IF yes THEN "approved" ELSE "rejected")
                    /\ ho = (IF yes THEN row.handoff ELSE "blocked")
  OBVIOUS
<1>5. PICK want : want = Settled(row, yes, reason, st, ho)
  OBVIOUS
<1>6. u.draft = d /\ u.read = row /\ u.want = want
  BY <1>1, <1>2, <1>3, <1>4, <1>5, Wanted DEF Settled
<1>7. want = [row |-> TRUE, thread |-> row.thread, template |-> row.template, parent |-> row.parent,
              number |-> row.number, text |-> row.text, level |-> row.level,
              status |-> st, approved |-> yes, reason |-> reason, handoff |-> ho,
              versions |-> row.versions]
  <2>1. IsDraft(row)
    BY <1>1 DEF RowTyped
  <2> QED
    BY <1>5, <2>1, ApprovalColumns
<1>8. IsDraft(want)
  BY <1>1, <1>7 DEF IsDraft, RowTyped
<1>9. Columns(want)
  BY <1>1, <1>3, <1>4, <1>7 DEF RowTyped, Columns
<1>10. want.versions = row.versions
  BY <1>7
<1> QED
  BY <1>1, <1>6, <1>8, <1>9, <1>10 DEF RowTyped, ChangeTyped, Adds

LEMMA HandoffTypes ==
  ASSUME NEW d, RowTyped(draft[d]), NEW u \in set_draft_handoff(d)
  PROVE  ChangeTyped(u) /\ u.draft = d /\ u.read = draft[d]
<1>1. PICK row : row = draft[d] /\ RowTyped(row)
  OBVIOUS
<1>2. PICK to \in {"draft", "blocked", "ready_for_send", "handed_off"} :
        u = Wanting(d, [row EXCEPT !.handoff = to], FALSE)
  BY <1>1 DEF set_draft_handoff
<1>3. PICK want : want = [row EXCEPT !.handoff = to]
  OBVIOUS
<1>4. u.draft = d /\ u.read = row /\ u.want = want
  BY <1>1, <1>2, <1>3 DEF Wanting
<1>5. want = [row |-> TRUE, thread |-> row.thread, template |-> row.template, parent |-> row.parent,
              number |-> row.number, text |-> row.text, level |-> row.level, status |-> row.status,
              approved |-> row.approved, reason |-> row.reason, handoff |-> to,
              versions |-> row.versions]
  <2>1. IsDraft(row)
    BY <1>1 DEF RowTyped
  <2>2. PICK h, g, p, n, t0, l, w, y, r, o, vs0 :
          row = [row |-> TRUE, thread |-> h, template |-> g, parent |-> p, number |-> n, text |-> t0,
                 level |-> l, status |-> w, approved |-> y, reason |-> r, handoff |-> o, versions |-> vs0]
    BY <2>1 DEF IsDraft
  <2> QED
    BY <1>3, <2>2
<1>6. IsDraft(want)
  BY <1>1, <1>5 DEF IsDraft, RowTyped
<1>7. Columns(want)
  BY <1>1, <1>2, <1>5 DEF RowTyped, Columns
<1>8. want.versions = row.versions
  BY <1>5
<1> QED
  BY <1>1, <1>4, <1>6, <1>7, <1>8 DEF RowTyped, ChangeTyped, Adds

LEMMA NextVersion ==
  ASSUME NEW vs, Tally(vs), NEW n, n = 1 + Max({vs[i].number : i \in DOMAIN vs})
  PROVE  n \in Nat \ {0} /\ n <= Len(vs) + 1
<1>1. vs \in Seq(Versions) /\ Len(vs) \in Nat /\ DOMAIN vs = 1..Len(vs)
  BY LenProperties DEF Tally
<1>2. PICK S : S = {vs[i].number : i \in DOMAIN vs}
  OBVIOUS
<1>3. \A i \in 1..Len(vs) : vs[i].number \in Nat
  <2>1. \A w \in Versions : w.number \in Nat
    BY DraftVersionBound DEF Versions
  <2>2. \A i \in 1..Len(vs) : vs[i] \in Versions
    BY <1>1
  <2> QED
    BY <2>1, <2>2
<1>4. PICK top \in 1..Len(vs) : \A i \in 1..Len(vs) : vs[top].number >= vs[i].number
  BY DEF Tally, Topped
<1>5. S \subseteq Nat /\ vs[top].number \in S /\ \A y \in S : vs[top].number >= y
  BY <1>1, <1>2, <1>3, <1>4
<1>6. Max(S) = vs[top].number
  BY <1>5, TopIsMax
<1>7. vs[top].number \in Nat /\ vs[top].number <= Len(vs) /\ n = 1 + vs[top].number
  BY <1>2, <1>3, <1>6 DEF Tally
<1> QED
  BY <1>1, <1>7

LEMMA ContentTypes ==
  ASSUME NEW d, RowTyped(draft[d]), NEW u \in update_draft_content(d),
         Len(u.want.versions) <= MaxVersions
  PROVE  ChangeTyped(u) /\ u.draft = d /\ u.read = draft[d]
<1>1. PICK row : row = draft[d] /\ RowTyped(row)
  OBVIOUS
<1>2. PICK t \in Texts :
        u = Wanting(d, _append_draft_version([row EXCEPT !.text = t, !.approved = FALSE,
                                                 !.status = "pending", !.handoff = "blocked"]), FALSE)
  BY <1>1 DEF update_draft_content
<1>3. PICK edited : edited = [row EXCEPT !.text = t, !.approved = FALSE, !.status = "pending",
                                         !.handoff = "blocked"]
  OBVIOUS
<1>4. edited = [row |-> TRUE, thread |-> row.thread, template |-> row.template, parent |-> row.parent,
                number |-> row.number, text |-> t, level |-> row.level, status |-> "pending",
                approved |-> FALSE, reason |-> row.reason, handoff |-> "blocked",
                versions |-> row.versions]
  <2>1. IsDraft(row)
    BY <1>1 DEF RowTyped
  <2>2. PICK h, g, p, n, t0, l, w, y, r, o, vs0 :
          row = [row |-> TRUE, thread |-> h, template |-> g, parent |-> p, number |-> n, text |-> t0,
                 level |-> l, status |-> w, approved |-> y, reason |-> r, handoff |-> o, versions |-> vs0]
    BY <2>1 DEF IsDraft
  <2> QED
    BY <1>3, <2>2
<1>5. PICK n, v : n = 1 + Max({row.versions[i].number : i \in DOMAIN row.versions})
                  /\ v = [number |-> n, text |-> t]
  OBVIOUS
<1>6. PICK vs, want : vs = Append(row.versions, v) /\ want = [edited EXCEPT !.versions = vs]
  OBVIOUS
<1>7. u = Wanting(d, want, FALSE)
  <2>1. edited.versions = row.versions /\ edited.text = t
    BY <1>4
  <2>2. _append_draft_version(edited) = want
    BY <1>5, <1>6, <2>1 DEF _append_draft_version
  <2> QED
    BY <1>2, <1>3, <2>2
<1>8. u.draft = d /\ u.read = row /\ u.want = want
  BY <1>1, <1>7 DEF Wanting
<1>9. want = [row |-> TRUE, thread |-> row.thread, template |-> row.template, parent |-> row.parent,
              number |-> row.number, text |-> t, level |-> row.level, status |-> "pending",
              approved |-> FALSE, reason |-> row.reason, handoff |-> "blocked", versions |-> vs]
  BY <1>4, <1>6
<1>10. IsDraft(want)
  BY <1>1, <1>9 DEF IsDraft, RowTyped
<1>11. Columns(want)
  BY <1>1, <1>9 DEF RowTyped, Columns
<1>12. want.versions = vs
  BY <1>9
<1>13. v \in Versions /\ v.number <= Len(row.versions) + 1
  <2>1. n \in Nat \ {0} /\ n <= Len(row.versions) + 1
    BY <1>1, <1>5, NextVersion DEF RowTyped
  <2>2. v \in [number : Nat, text : Texts]
    BY <1>5, <2>1
  <2>3. row.versions \in Seq(Numbered) /\ v \in Numbered /\ Len(row.versions) \in Nat
    <3>1. row.versions \in Seq(Versions)
      BY <1>1 DEF RowTyped, Tally
    <3>2. Len(row.versions) \in Nat
      BY <3>1, LenProperties
    <3>3. row.versions \in Seq(Numbered)
      BY <3>1, VersionsNumbered
    <3> QED
      BY <2>2, <3>2, <3>3 DEF Numbered
  <2>4. Len(vs) = Len(row.versions) + 1
    BY <1>6, <2>3, AppendProperties
  <2>5. n \in 1..MaxVersions
    BY <1>8, <1>12, <2>1, <2>3, <2>4, DraftVersionBound
  <2> QED
    BY <1>5, <2>1, <2>5 DEF Versions
<1> QED
  BY <1>1, <1>6, <1>8, <1>10, <1>11, <1>12, <1>13 DEF RowTyped, ChangeTyped, Adds

(* What a flush adds goes to the end of the row's versions, however many   *)
(* others were put there since the update read them.                       *)
LEMMA FreshVersions ==
  ASSUME NEW old, Tally(old), NEW new, Adds(old, new), NEW vs, Tally(vs), Len(old) <= Len(vs),
         NEW next, next = vs \o SubSeq(new, Len(old) + 1, Len(new))
  PROVE  Tally(next) /\ Len(vs) <= Len(next)
<1>1. /\ old \in Seq(Versions) /\ Len(old) \in Nat
      /\ vs \in Seq(Versions) /\ Len(vs) \in Nat
  BY LenProperties DEF Tally
<1>2. CASE new = old
  <2>1. next = vs
    BY <1>1, <1>2, SubSeqEmpty, ConcatEmptySeq
  <2>2. Tally(next) /\ Len(next) = Len(vs)
    BY <2>1
  <2> QED
    BY <1>1, <2>2
<1>3. CASE \E v \in Versions : new = Append(old, v) /\ v.number <= Len(old) + 1
  <2>1. PICK v \in Versions : new = Append(old, v) /\ v.number <= Len(old) + 1
    BY <1>3
  <2>2. new \in Seq(Versions) /\ Len(new) = Len(old) + 1 /\ new[Len(old) + 1] = v
    BY <1>1, <2>1, AppendProperties
  <2>3. PICK fresh : fresh = SubSeq(new, Len(old) + 1, Len(new))
    OBVIOUS
  <2>4. PICK n : n = Len(old) + 1 /\ n \in Int /\ Len(new) = n
    BY <1>1, <2>2
  <2>5. \A i \in n..n : new[i] \in Versions
    BY <2>2, <2>4
  <2>6. fresh = SubSeq(new, n, n)
    BY <2>3, <2>4
  <2>7. /\ fresh \in Seq(Versions) /\ Len(fresh) = 1
        /\ fresh[1] = v
    <3>1. /\ fresh \in Seq(Versions)
          /\ Len(fresh) = IF n <= n THEN n - n + 1 ELSE 0
          /\ \A i \in 1..n - n + 1 : fresh[i] = new[n + i - 1]
      BY <2>4, <2>5, <2>6, SubSeqProperties
    <3>2. 1 \in 1..n - n + 1 /\ n + 1 - 1 = n
      BY <2>4
    <3> QED
      BY <2>2, <2>4, <3>1, <3>2
  <2>8. fresh = <<v>>
    BY <2>7
  <2>9. next = Append(vs, v)
    BY <1>1, <2>3, <2>8, AppendIsConcat
  <2>10. v.number <= Len(vs) + 1
    <3>1. v.number \in Nat
      BY DraftVersionBound DEF Versions
    <3> QED
      BY <1>1, <2>1, <3>1
  <2>11. Tally(next) /\ Len(next) = Len(vs) + 1
    BY <2>9, <2>10, TallyGrows
  <2> QED
    BY <1>1, <2>11
<1> QED
  BY <1>2, <1>3 DEF Adds

LEMMA FlushedTypes ==
  ASSUME NEW u, Change(u), ChangeTyped(u), NEW row, RowTyped(row),
         Len(u.read.versions) <= Len(row.versions), NEW next, next = Flushed(row, u)
  PROVE  RowTyped(next) /\ Len(row.versions) <= Len(next.versions)
<1>1. PICK r, w, vs : r = u.read /\ w = u.want
                      /\ vs = row.versions \o SubSeq(w.versions, Len(r.versions) + 1, Len(w.versions))
  OBVIOUS
<1>2. next = [c \in DOMAIN row |-> IF c = "versions" THEN vs
                                   ELSE IF w[c] = r[c] THEN row[c] ELSE w[c]]
  BY <1>1 DEF Flushed
<1>3. IsDraft(next)
  BY FlushKeeps DEF RowTyped
<1>4. Tally(vs) /\ Len(row.versions) <= Len(vs)
  BY <1>1, FreshVersions DEF ChangeTyped, RowTyped
<1>5. DOMAIN row = {"row", "thread", "template", "parent", "number", "text", "level", "status",
                    "approved", "reason", "handoff", "versions"}
  BY DEF RowTyped, IsDraft
<1>6. next.versions = vs
  BY <1>2, <1>5
<1>7. /\ next.level \in {row.level, w.level} /\ next.status \in {row.status, w.status}
      /\ next.handoff \in {row.handoff, w.handoff} /\ next.approved \in {row.approved, w.approved}
      /\ next.reason \in {row.reason, w.reason}
  BY <1>2, <1>5
<1>8. Columns(row) /\ Columns(w)
  BY <1>1 DEF RowTyped, ChangeTyped
<1>9. Columns(next)
  BY <1>7, <1>8 DEF Columns
<1> QED
  BY <1>3, <1>4, <1>6, <1>9 DEF RowTyped

(* The rows and the threads stay; one session takes up other work.         *)
LEMMA TypedTurns ==
  ASSUME EmailInv, EmailTypeInv, NEW s \in Clerks, NEW c, clerk' = [clerk EXCEPT ![s] = c],
         UNCHANGED <<draft, template>>, thread \subseteq thread', thread' \subseteq Threads,
         TypedWork(c)'
  PROVE  EmailTypeInv'
<1>1. clerk'[s] = c /\ \A o \in Clerks : o # s => clerk'[o] = clerk[o]
  BY DEF EmailInv
<1>2. ASSUME NEW w, TypedWork(w) PROVE TypedWork(w)'
  BY <1>2 DEF TypedWork
<1>3. ASSUME NEW o \in Clerks PROVE TypedWork(clerk[o])'
  <2>1. PICK w : w = clerk'[o]
    OBVIOUS
  <2>2. TypedWork(w)'
    BY <1>1, <1>2, <2>1 DEF EmailTypeInv
  <2> QED
    BY <2>1, <2>2
<1>4. TypedRows'
  BY DEF EmailTypeInv, TypedRows, Stored
<1>5. TypedTemplates'
  BY DEF EmailTypeInv, TypedTemplates
<1> QED
  BY <1>3, <1>4, <1>5 DEF EmailTypeInv

LEMMA AskTypes ==
  ASSUME EmailInv, EmailTypeInv, NEW s \in Clerks, Ask(s)
  PROVE  EmailTypeInv'
<1>1. PICK ask : /\ ask \in (UNION {create_draft(h) : h \in Threads})
                            \union (UNION {refine_draft(d) : d \in {x \in Drafts : Stored(x)}})
                 /\ clerk' = [clerk EXCEPT ![s] = ask]
                 /\ thread' = thread \union {ask.thread}
                 /\ UNCHANGED <<draft, template>>
  BY DEF Ask
<1>2. ask.doing = "asking"
  BY <1>1 DEF create_draft, refine_draft, Asking
<1>3. ask.thread \in Threads
  <2>1. CASE \E h \in Threads : ask \in create_draft(h)
    BY <2>1 DEF create_draft, Asking
  <2>2. CASE \E d \in Drafts : Stored(d) /\ ask \in refine_draft(d)
    <3>1. PICK d \in Drafts : Stored(d) /\ ask \in refine_draft(d)
      BY <2>2
    <3>2. ask.thread = draft[d].thread
      BY <3>1 DEF refine_draft, Asking
    <3> QED
      BY <3>1, <3>2 DEF EmailTypeInv, TypedRows
  <2> QED
    BY <1>1, <2>1, <2>2
<1>4. TypedWork(ask)'
  BY <1>1, <1>2 DEF TypedWork, Updates
<1>5. thread \subseteq thread' /\ thread' \subseteq Threads
  BY <1>1, <1>3 DEF EmailTypeInv
<1> QED
  BY <1>1, <1>4, <1>5, TypedTurns

LEMMA AnswerTypes ==
  ASSUME EmailInv, EmailTypeInv, NEW s \in Clerks, Answer(s)
  PROVE  EmailTypeInv'
<1>1. PICK ask : ask = clerk[s] /\ ask.doing = "asking"
  BY DEF Answer
<1>2. PICK result \in Answers(ask) :
        clerk' = [clerk EXCEPT ![s] = [doing |-> "inserting", thread |-> ask.thread,
                                       row |-> Generated(ask, result)]]
  BY <1>1 DEF Answer
<1>3. UNCHANGED <<thread, draft, template>>
  BY DEF Answer
<1>4. result.text \in Texts /\ result.level \in {"low", "medium", "high", "critical"}
  <2>1. PICK raw \in Texts, flags \in Incoming :
          result = IF ask.parent = Nobody THEN generate_email_draft(raw, flags)
                   ELSE refine_email_draft(raw, flags)
    BY DEF Answers
  <2>2. PICK seen : result.level = _risk_profile(seen)
    BY <2>1 DEF generate_email_draft, refine_email_draft
  <2>3. result.text = redact_sensitive(raw)
    BY <2>1 DEF generate_email_draft, refine_email_draft
  <2>4. result.text \in Texts
    BY <2>3, TextsRedacted DEF redact_sensitive
  <2> QED
    BY <2>2, <2>4 DEF _risk_profile
<1>5. PICK n : n = _next_thread_version_number(ask.thread)
  OBVIOUS
<1>6. PICK v : v = [number |-> 1, text |-> result.text]
  OBVIOUS
<1>7. PICK row : row = Generated(ask, result)
  OBVIOUS
<1>8. row = [row |-> TRUE, thread |-> ask.thread, template |-> ask.template, parent |-> ask.parent,
             number |-> n, text |-> result.text, level |-> result.level, status |-> "pending",
             approved |-> FALSE, reason |-> FALSE, handoff |-> "blocked", versions |-> <<v>>]
  BY <1>5, <1>6, <1>7 DEF Generated
<1>9. n \in Nat
  BY <1>5, NextNumber
<1>10. IsDraft(row)
  BY <1>4, <1>8, <1>9 DEF IsDraft
<1>11. Columns(row)
  BY <1>4, <1>8 DEF Columns
<1>12. Tally(<<v>>)
  <2>1. v \in Versions /\ v.number = 1
    BY <1>4, <1>6, DraftVersionBound DEF Versions
  <2>2. PICK vs : vs = <<v>>
    OBVIOUS
  <2>3. vs \in Seq(Versions) /\ vs # <<>> /\ Len(vs) = 1 /\ vs[1] = v
    BY <2>1, <2>2
  <2>4. \A i \in 1..Len(vs) : vs[i].number = 1
    BY <2>1, <2>3
  <2>5. Tally(vs)
    BY <2>3, <2>4 DEF Tally, Topped
  <2> QED
    BY <2>2, <2>5
<1>13. RowTyped(row)
  <2>1. row.versions = <<v>>
    BY <1>8
  <2> QED
    BY <1>10, <1>11, <1>12, <2>1 DEF RowTyped
<1>14. PICK c : c = [doing |-> "inserting", thread |-> ask.thread, row |-> row]
  OBVIOUS
<1>15. c.doing = "inserting" /\ c.thread = ask.thread /\ c.row = row
  BY <1>14
<1>16. ask.thread \in thread
  BY <1>1 DEF EmailTypeInv, TypedWork, Generates
<1>17. TypedWork(c)'
  BY <1>3, <1>13, <1>15, <1>16 DEF TypedWork, Updates
<1>18. clerk' = [clerk EXCEPT ![s] = c]
  BY <1>2, <1>7, <1>14
<1> QED
  BY <1>3, <1>17, <1>18, TypedTurns DEF EmailTypeInv

LEMMA HandleTypes ==
  ASSUME EmailInv, EmailTypeInv, NEW s \in Clerks, Handle(s)
  PROVE  EmailTypeInv'
<1>1. PICK d \in Drafts :
        \E u \in set_draft_approval(d) \union update_draft_content(d) \union set_draft_handoff(d) :
          Len(u.want.versions) <= MaxVersions /\ clerk' = [clerk EXCEPT ![s] = u]
  BY DEF Handle
<1>2. PICK u \in set_draft_approval(d) \union update_draft_content(d) \union set_draft_handoff(d) :
          Len(u.want.versions) <= MaxVersions /\ clerk' = [clerk EXCEPT ![s] = u]
  BY <1>1
<1>3. UNCHANGED <<thread, draft, template>>
  BY DEF Handle
<1>4. Stored(d)
  BY <1>2 DEF set_draft_approval, update_draft_content, set_draft_handoff
<1>5. RowTyped(draft[d])
  BY <1>4 DEF EmailTypeInv, TypedRows
<1>6. ChangeTyped(u) /\ u.draft = d /\ u.read = draft[d]
  BY <1>2, <1>5, ApprovalTypes, ContentTypes, HandoffTypes
<1>7. u.doing = "updating"
  BY <1>2, <1>5, ApprovalChanges, ContentChanges, HandoffChanges DEF RowTyped
<1>8. Len(u.read.versions) <= Len(draft[u.draft].versions)
  <2>1. u.read.versions \in Seq(Versions) /\ draft[u.draft].versions = u.read.versions
    BY <1>6 DEF ChangeTyped, Tally
  <2>2. Len(u.read.versions) \in Nat
    BY <2>1, LenProperties
  <2> QED
    BY <2>1, <2>2
<1>9. TypedWork(u)'
  BY <1>3, <1>6, <1>7, <1>8 DEF TypedWork, Updates, Generates
<1> QED
  BY <1>2, <1>3, <1>9, TypedTurns DEF EmailTypeInv

LEMMA DropWorkTypes ==
  ASSUME EmailInv, EmailTypeInv, NEW s \in Clerks, DropWork(s)
  PROVE  EmailTypeInv'
<1>1. clerk' = [clerk EXCEPT ![s] = Resting] /\ UNCHANGED <<thread, draft, template>>
  BY DEF DropWork
<1>2. TypedWork(Resting)'
  BY DEF TypedWork, Updates, Generates, Resting
<1> QED
  BY <1>1, <1>2, TypedTurns DEF EmailTypeInv

LEMMA CommitDraftTypes ==
  ASSUME EmailInv, EmailTypeInv, NEW s \in Clerks, CommitDraft(s)
  PROVE  EmailTypeInv'
<1>1. PICK c, row : c = clerk[s] /\ row = c.row /\ c.doing = "inserting"
  BY DEF CommitDraft
<1>2. PICK d \in Drafts : ~Stored(d) /\ draft' = [draft EXCEPT ![d] = row]
  BY <1>1 DEF CommitDraft
<1>3. clerk' = [clerk EXCEPT ![s] = Resting] /\ UNCHANGED <<thread, template>>
  BY DEF CommitDraft
<1>4. RowTyped(row) /\ row.thread \in thread
  <2>1. row.thread = c.thread
    BY <1>1 DEF EmailInv, WorkOK, InsertOK
  <2> QED
    BY <1>1, <2>1 DEF EmailTypeInv, TypedWork, Generates
<1>5. draft'[d] = row /\ \A e \in Drafts : e # d => draft'[e] = draft[e]
  BY <1>2 DEF EmailInv
<1>6. TypedRows'
  BY <1>3, <1>4, <1>5 DEF EmailTypeInv, TypedRows, Stored
<1>7. clerk'[s] = Resting /\ \A o \in Clerks : o # s => clerk'[o] = clerk[o]
  BY <1>3 DEF EmailInv
<1>8. ASSUME NEW o \in Clerks, o # s PROVE TypedWork(clerk[o])'
  <2>1. PICK w : w = clerk[o] /\ w = clerk'[o]
    BY <1>7, <1>8
  <2>2. Updates(w) => w.draft \in Drafts /\ w.draft # d
    BY <1>2, <2>1 DEF EmailInv, WorkOK, ChangeOK
  <2>3. TypedWork(w)
    BY <2>1 DEF EmailTypeInv
  <2>4. TypedWork(w)'
    BY <1>3, <1>5, <2>2, <2>3 DEF TypedWork
  <2> QED
    BY <2>1, <2>4
<1>9. TypedTemplates'
  BY <1>3 DEF EmailTypeInv, TypedTemplates
<1>10. TypedWork(clerk[s])'
  BY <1>7 DEF TypedWork, Updates, Generates, Resting
<1> QED
  BY <1>3, <1>6, <1>8, <1>9, <1>10 DEF EmailTypeInv

LEMMA CommitUpdateTypes ==
  ASSUME EmailInv, EmailTypeInv, NEW s \in Clerks, CommitUpdate(s)
  PROVE  EmailTypeInv'
<1>1. PICK u, d : u = clerk[s] /\ d = u.draft /\ Updates(u)
  BY DEF CommitUpdate, Updates
<1>2. PICK row, next : row = draft[d] /\ next = Flushed(row, u)
  OBVIOUS
<1>3. Change(u) /\ d \in Drafts /\ Stored(d)
  BY <1>1 DEF EmailInv, WorkOK, ChangeOK
<1>4. ChangeTyped(u) /\ Len(u.read.versions) <= Len(row.versions)
  BY <1>1, <1>2 DEF EmailTypeInv, TypedWork
<1>5. RowTyped(row) /\ row.thread \in thread
  BY <1>2, <1>3 DEF EmailTypeInv, TypedRows
<1>6. RowTyped(next) /\ Len(row.versions) <= Len(next.versions)
  BY <1>2, <1>3, <1>4, <1>5, FlushedTypes
<1>7. next.thread = row.thread
  BY <1>2, <1>3, <1>5, FlushKeeps DEF RowTyped
<1>8. /\ draft' = [draft EXCEPT ![d] = next] /\ clerk' = [clerk EXCEPT ![s] = Resting]
      /\ UNCHANGED <<thread, template>>
  BY <1>1, <1>2 DEF CommitUpdate
<1>9. draft'[d] = next /\ \A e \in Drafts : e # d => draft'[e] = draft[e]
  BY <1>3, <1>8 DEF EmailInv
<1>10. TypedRows'
  BY <1>5, <1>6, <1>7, <1>8, <1>9 DEF EmailTypeInv, TypedRows, Stored
<1>11. clerk'[s] = Resting /\ \A o \in Clerks : o # s => clerk'[o] = clerk[o]
  BY <1>8 DEF EmailInv
<1>12. ASSUME NEW o \in Clerks, o # s PROVE TypedWork(clerk[o])'
  <2>1. PICK w : w = clerk[o] /\ w = clerk'[o]
    BY <1>11, <1>12
  <2>2. TypedWork(w) /\ (Updates(w) => w.draft \in Drafts)
    BY <2>1 DEF EmailTypeInv, EmailInv, WorkOK, ChangeOK
  <2>3. ASSUME Updates(w) PROVE Len(w.read.versions) <= Len(draft'[w.draft].versions)
    <3>1. CASE w.draft # d
      BY <1>9, <2>2, <2>3, <3>1 DEF TypedWork
    <3>2. CASE w.draft = d
      <4>1. Len(w.read.versions) <= Len(row.versions) /\ Tally(w.read.versions)
        BY <1>2, <2>2, <2>3, <3>2 DEF TypedWork, ChangeTyped
      <4>2. Tally(row.versions) /\ Tally(next.versions)
        BY <1>5, <1>6 DEF RowTyped
      <4>3. /\ Len(w.read.versions) \in Nat /\ Len(row.versions) \in Nat
            /\ Len(next.versions) \in Nat
        BY <4>1, <4>2, LenProperties DEF Tally
      <4> QED
        BY <1>6, <1>9, <3>2, <4>1, <4>3
    <3> QED
      BY <3>1, <3>2
  <2>4. TypedWork(w)'
    BY <1>8, <2>2, <2>3 DEF TypedWork, Updates
  <2> QED
    BY <2>1, <2>4
<1>13. TypedTemplates'
  BY <1>8 DEF EmailTypeInv, TypedTemplates
<1>14. TypedWork(clerk[s])'
  BY <1>11 DEF TypedWork, Updates, Generates, Resting
<1> QED
  BY <1>8, <1>10, <1>12, <1>13, <1>14 DEF EmailTypeInv

LEMMA EditTemplatesTypes ==
  ASSUME EmailTypeInv, EditTemplates
  PROVE  EmailTypeInv'
<1>1. UNCHANGED <<thread, draft, clerk>>
  BY DEF EditTemplates
<1>2. PICK g \in Templates, row \in [row : {TRUE}, thread : Threads \union {Nobody}, active : BOOLEAN] :
        template' = [template EXCEPT ![g] = row]
  <2>1. CASE create_template
    <3>1. PICK g \in Templates, h \in thread \union {Nobody}, active \in BOOLEAN :
            template' = [template EXCEPT ![g] = [row |-> TRUE, thread |-> h, active |-> active]]
      BY <2>1 DEF create_template
    <3>2. h \in Threads \union {Nobody}
      BY DEF EmailTypeInv
    <3> QED
      BY <3>1, <3>2
  <2>2. CASE update_template
    <3>1. PICK g \in Templates, active \in BOOLEAN :
            template[g] # NoRow /\ template' = [template EXCEPT ![g].active = active]
      BY <2>2 DEF update_template
    <3>2. PICK row, next : row = template[g] /\ next = [row EXCEPT !.active = active]
      OBVIOUS
    <3>3. row \in [row : {TRUE}, thread : Threads \union {Nobody}, active : BOOLEAN]
      BY <3>1, <3>2 DEF EmailTypeInv, TypedTemplates
    <3>4. next \in [row : {TRUE}, thread : Threads \union {Nobody}, active : BOOLEAN]
      BY <3>2, <3>3
    <3>5. template' = [template EXCEPT ![g] = next]
      BY <3>1, <3>2
    <3> QED
      BY <3>4, <3>5
  <2> QED
    BY <2>1, <2>2 DEF EditTemplates
<1>3. TypedTemplates'
  BY <1>2 DEF EmailTypeInv, TypedTemplates
<1>4. TypedRows'
  BY <1>1 DEF EmailTypeInv, TypedRows, Stored
<1>5. \A s \in Clerks : TypedWork(clerk[s])'
  BY <1>1 DEF EmailTypeInv, TypedWork, Updates, Generates
<1> QED
  BY <1>1, <1>3, <1>4, <1>5 DEF EmailTypeInv

LEMMA NextEmailTypes ==
  ASSUME EmailInv, EmailTypeInv, [EmailNext]_evars
  PROVE  EmailTypeInv'
<1>1. CASE UNCHANGED evars
  <2>1. UNCHANGED <<thread, draft, clerk, template>>
    BY <1>1 DEF evars
  <2>2. \A s \in Clerks : TypedWork(clerk[s])'
    BY <2>1 DEF EmailTypeInv, TypedWork, Updates, Generates
  <2> QED
    BY <2>1, <2>2 DEF EmailTypeInv, TypedRows, TypedTemplates, Stored
<1>2. CASE EditTemplates
  BY <1>2, EditTemplatesTypes
<1>3. CASE \E s \in Clerks : Ask(s) \/ Answer(s) \/ CommitDraft(s) \/ Handle(s) \/ CommitUpdate(s) \/ DropWork(s)
  BY <1>3, AskTypes, AnswerTypes, CommitDraftTypes, HandleTypes, CommitUpdateTypes, DropWorkTypes
<1> QED
  BY <1>1, <1>2, <1>3 DEF EmailNext

(* However the sessions overlap, a draft belongs to a thread that is there *)
(* and holds what its columns can, its versions within the bound.          *)
THEOREM EmailTypes == EmailSpec => []EmailTypeOK
<1>1. EmailInit => EmailTypeInv
  <2> SUFFICES ASSUME EmailInit PROVE EmailTypeInv
    OBVIOUS
  <2>1. thread = {} /\ \A d \in Drafts : ~Stored(d)
    BY DEF EmailInit, Stored
  <2>2. DOMAIN template = Templates /\ \A g \in Templates : template[g] = NoRow
    BY DEF EmailInit
  <2>3. \A s \in Clerks : TypedWork(clerk[s])
    BY DEF EmailInit, TypedWork, Updates, Generates, Resting
  <2> QED
    BY <2>1, <2>2, <2>3 DEF EmailTypeInv, TypedRows, TypedTemplates
<1>2. ASSUME EmailTypeInv PROVE EmailTypeOK
  <2>1. ASSUME NEW g \in Templates, template[g] # NoRow
        PROVE  template[g].thread \in Threads \union {Nobody} /\ template[g].active \in BOOLEAN
    <3>1. PICK row \in [row : {TRUE}, thread : Threads \union {Nobody}, active : BOOLEAN] : row = template[g]
      BY <1>2, <2>1 DEF EmailTypeInv, TypedTemplates
    <3> QED
      BY <3>1
  <2>2. ASSUME NEW d \in Drafts, Stored(d)
        PROVE  draft[d].thread \in thread /\ RowTyped(draft[d])
    BY <1>2, <2>2 DEF EmailTypeInv, TypedRows
  <2>3. \A d \in Drafts : Stored(d) =>
          /\ draft[d].text \in Texts
          /\ draft[d].level \in {"low", "medium", "high", "critical"}
          /\ draft[d].status \in {"pending", "approved", "rejected"}
          /\ draft[d].handoff \in {"draft", "blocked", "ready_for_send", "handed_off"}
          /\ {draft[d].approved, draft[d].reason} \subseteq BOOLEAN
    BY <2>2 DEF RowTyped, Columns, IsDraft
  <2>4. \A d \in Drafts : Stored(d) => draft[d].versions \in Seq([number : 1..MaxVersions, text : Texts])
    BY <2>2 DEF RowTyped, Tally, Versions
  <2> QED
    BY <1>2, <2>1, <2>2, <2>3, <2>4 DEF EmailTypeInv, EmailTypeOK
<1> QED
  BY <1>1, <1>2, NextEmailTypes, InitEmail, NextEmail, PTL DEF EmailSpec

-----------------------------------------------------------------------------
(* Profiles.  A session writes what its user may write; and while nobody   *)
(* has forked the default, there is one of it, and whoever is about to     *)
(* write it has read what it says.                                         *)
FullProfile == [made : {TRUE}, owner : Creators \union {NoProfile}, active : BOOLEAN, voice : Voices]

Fits(w) ==
  LET f == writer[w] IN
  /\ f.by \in Creators /\ f.row \in Profiles /\ f.doing \in {"edit", "put", "use"}
  /\ f.want \in FullProfile /\ f.read \in FullProfile \union {Unmade}
  /\ f.want.owner \in {f.by, NoProfile}
  /\ f.read = Unmade =>
       /\ profile[f.row] = Unmade
       /\ \A v \in Writers : v # w /\ writer[v] # Free => writer[v].row # f.row
       /\ f.doing = "edit" => f.want.owner = f.by
  /\ f.read # Unmade => profile[f.row] # Unmade /\ f.read.owner = f.want.owner
                        /\ profile[f.row].owner = f.want.owner
  /\ f.doing = "use" => f.want = f.read
  /\ f.doing = "put" => f.want.owner = NoProfile /\ f.want.active = TRUE

Defaults == {p \in Made : IsDefault(p)}

OneDefault ==
  /\ \A p, q \in Defaults : p = q
  /\ \A v, w \in Writers : OnDefault(writer[v]) /\ OnDefault(writer[w]) => v = w
  /\ \A w \in Writers : OnDefault(writer[w]) => profile[writer[w].row] = writer[w].read
  /\ \A w \in Writers : OnDefault(writer[w]) /\ writer[w].doing = "put" => Defaults \subseteq {writer[w].row}

ProfileInv ==
  /\ profile \in [Profiles -> FullProfile \union {Unmade}]
  /\ DOMAIN writer = Writers
  /\ forked \in BOOLEAN
  /\ \A w \in Writers : writer[w] # Free => Fits(w)
  /\ forked = FALSE => OneDefault

LEMMA FullIsMade == Unmade \notin FullProfile
  BY DEF Unmade, FullProfile

LEMMA MadeRow ==
  ASSUME ProfileInv, NEW p \in Made
  PROVE  p \in Profiles /\ p # NoProfile /\ profile[p] \in FullProfile
  BY SomeCreators DEF Made, ProfileInv

LEMMA LatestIn ==
  ASSUME NEW rows, Latest(rows) # NoProfile
  PROVE  Latest(rows) \in rows
  BY Zenon DEF Latest

LEMMA LatestOnly ==
  ASSUME NEW p
  PROVE  Latest({p}) = p
<1>1. {r \in {p} : \A q \in {p} \ {r} : <<q, r>> \in older} = {p}
  OBVIOUS
<1>2. {p} # {} /\ (CHOOSE r \in {p} : TRUE) = p
  OBVIOUS
<1> QED
  BY <1>1, <1>2 DEF Latest

-----------------------------------------------------------------------------
(* What a handler decides to write, having read the row.                  *)
Decides(f) ==
  /\ f # Free /\ f.by \in Creators /\ f.row \in Profiles /\ f.doing \in {"edit", "put", "use"}
  /\ f.want \in FullProfile /\ f.read = profile[f.row]
  /\ f.want.owner \in {f.by, NoProfile}
  /\ f.read = Unmade =>
       /\ \A v \in Writers : writer[v] # Free => writer[v].row # f.row
       /\ f.doing = "edit" => f.want.owner = f.by
       /\ f.doing = "put" => Latest(Defaults) = NoProfile
  /\ f.read # Unmade => f.read.owner = f.want.owner
  /\ f.doing = "use" => f.want = f.read
  /\ f.doing = "put" => f.want.owner = NoProfile /\ f.want.active = TRUE

LEMMA VacantRow ==
  ASSUME HasVacant
  PROVE  /\ Vacant \in Profiles /\ Vacant \notin Made
         /\ \A v \in Writers : writer[v] # Free => writer[v].row # Vacant
<1>1. Vacant \in Unused
  BY Zenon DEF HasVacant, Vacant
<1> QED
  BY <1>1 DEF Unused

LEMMA WritingIs ==
  ASSUME NEW doing, NEW u, NEW p, NEW want, NEW f, f = Writing(doing, u, p, want)
  PROVE  f.by = u /\ f.doing = doing /\ f.row = p /\ f.read = profile[p] /\ f.want = want
  BY DEF Writing

LEMMA NotFree ==
  ASSUME NEW f, f.by \in Creators
  PROVE  f # Free
<1>1. NoProfile \notin Creators /\ Free.by = NoProfile
  BY SomeCreators DEF Free
<1> QED
  BY <1>1

LEMMA NewRow ==
  ASSUME NEW owner \in Creators \union {NoProfile}, NEW v \in Voices, NEW a \in BOOLEAN,
         NEW want, want = NewProfile(owner, v, a)
  PROVE  want \in FullProfile /\ want.owner = owner /\ want.active = a /\ want.voice = v
  BY DEF NewProfile, FullProfile

LEMMA EditedRow ==
  ASSUME NEW old \in FullProfile, NEW v \in Voices, NEW a \in BOOLEAN, NEW want,
         want = Edited(old, v, a)
  PROVE  want \in FullProfile /\ want.owner = old.owner /\ want.active = a /\ want.voice = v
  BY DEF FullProfile, Edited

LEMMA CreateDecides ==
  ASSUME ProfileInv, NEW u \in Creators, NEW f \in create_creator_profile(u)
  PROVE  Decides(f)
<1>1. PICK v \in Voices, a \in BOOLEAN : HasVacant /\ f = Writing("edit", u, Vacant, NewProfile(u, v, a))
  BY DEF create_creator_profile
<1>2. PICK want : want = NewProfile(u, v, a)
  OBVIOUS
<1>3. f.by = u /\ f.doing = "edit" /\ f.row = Vacant /\ f.read = profile[Vacant] /\ f.want = want
  BY <1>1, <1>2, WritingIs
<1>4. want \in FullProfile /\ want.owner = u
  BY <1>2, NewRow
<1>5. f.read = Unmade
  BY <1>1, <1>3, VacantRow DEF Made
<1> QED
  BY <1>1, <1>3, <1>4, <1>5, VacantRow, NotFree DEF Decides

LEMMA UpdateDecides ==
  ASSUME ProfileInv, NEW u \in Creators, NEW f \in update_creator_profile(u)
  PROVE  Decides(f)
<1>1. PICK p \in {x \in Made : profile[x].owner = u \/ (IsDefault(x) /\ u \in Chiefs)},
           v \in Voices, a \in BOOLEAN :
        f = Writing("edit", u, p, Edited(profile[p], v, a))
  BY DEF update_creator_profile
<1>2. PICK want : want = Edited(profile[p], v, a)
  OBVIOUS
<1>3. f.by = u /\ f.doing = "edit" /\ f.row = p /\ f.read = profile[p] /\ f.want = want
  BY <1>1, <1>2, WritingIs
<1>4. p \in Profiles /\ profile[p] \in FullProfile
  <2>1. p \in Made
    OBVIOUS
  <2> QED
    BY <2>1, MadeRow
<1>5. want \in FullProfile /\ want.owner = profile[p].owner
  BY <1>2, <1>4, EditedRow
<1>6. profile[p] # Unmade /\ profile[p].owner \in {u, NoProfile}
  BY <1>4, FullIsMade DEF IsDefault
<1> QED
  BY <1>3, <1>4, <1>5, <1>6, NotFree DEF Decides

LEMMA UpsertDecides ==
  ASSUME ProfileInv, NEW u \in Creators, NEW f \in upsert_global_default_profile(u)
  PROVE  Decides(f)
<1>1. CASE Latest(Defaults) # NoProfile
  <2>1. PICK p \in Defaults : p = Latest(Defaults)
    BY <1>1, LatestIn
  <2>2. PICK v \in Voices : f = Writing("put", u, p, Edited(profile[p], v, TRUE))
    BY <1>1, <2>1 DEF upsert_global_default_profile, Defaults
  <2>3. p \in Made /\ profile[p].owner = NoProfile
    BY <2>1 DEF Defaults, IsDefault
  <2>4. p \in Profiles /\ profile[p] \in FullProfile
    BY <2>3, MadeRow
  <2>5. f.by = u /\ f.doing = "put" /\ f.row = p /\ f.read = profile[p]
        /\ f.want = Edited(profile[p], v, TRUE)
    BY <2>2 DEF Writing
  <2>6. f.want \in FullProfile /\ f.want.owner = NoProfile /\ f.want.active = TRUE
    BY <2>3, <2>4, <2>5 DEF Edited, FullProfile
  <2>7. profile[p] # Unmade
    BY <2>4, FullIsMade
  <2> QED
    BY <2>3, <2>4, <2>5, <2>6, <2>7, NotFree DEF Decides
<1>2. CASE Latest(Defaults) = NoProfile
  <2>1. PICK v \in Voices : HasVacant /\ f = Writing("put", u, Vacant, NewProfile(NoProfile, v, TRUE))
    BY <1>2 DEF upsert_global_default_profile, Defaults
  <2>2. f.by = u /\ f.doing = "put" /\ f.row = Vacant /\ f.read = profile[Vacant]
        /\ f.want = NewProfile(NoProfile, v, TRUE)
    BY <2>1 DEF Writing
  <2>3. f.want \in FullProfile /\ f.want.owner = NoProfile /\ f.want.active = TRUE
    BY <2>2 DEF NewProfile, FullProfile
  <2>4. f.read = Unmade
    BY <2>1, <2>2, VacantRow DEF Made
  <2> QED
    BY <1>2, <2>1, <2>2, <2>3, <2>4, VacantRow, NotFree DEF Decides
<1> QED
  BY <1>1, <1>2

LEMMA UseDecides ==
  ASSUME ProfileInv, NEW u \in Creators, NEW f \in resolve_effective_settings(u)
  PROVE  Decides(f)
<1>1. PICK choice \in Profiles \union {NoProfile} :
        /\ ProfileUsed(u, choice) # NoProfile
        /\ f = Writing("use", u, ProfileUsed(u, choice), profile[ProfileUsed(u, choice)])
  BY DEF resolve_effective_settings
<1>2. PICK p : p = ProfileUsed(u, choice)
  OBVIOUS
<1>3. p \in Made /\ (IsDefault(p) \/ profile[p].owner = u)
  <2>1. CASE choice \in Made /\ profile[choice].active
             /\ (IsDefault(choice) \/ profile[choice].owner = u)
    BY <1>2, <2>1 DEF ProfileUsed
  <2>2. CASE p = Latest({q \in Made : profile[q].owner = u /\ profile[q].active})
    BY <1>1, <1>2, <2>2, LatestIn
  <2> QED
    BY <1>2, <2>1, <2>2 DEF ProfileUsed
<1>4. f.by = u /\ f.doing = "use" /\ f.row = p /\ f.read = profile[p] /\ f.want = profile[p]
  BY <1>1, <1>2, WritingIs
<1>5. p \in Profiles /\ profile[p] \in FullProfile
  BY <1>3, MadeRow
<1>6. profile[p] # Unmade /\ profile[p].owner \in {u, NoProfile}
  BY <1>3, <1>5, FullIsMade DEF IsDefault
<1> QED
  BY <1>4, <1>5, <1>6, NotFree DEF Decides

LEMMA NoDefault ==
  ASSUME ProfileInv, \A p, q \in Defaults : p = q, Latest(Defaults) = NoProfile
  PROVE  Defaults = {}
<1> SUFFICES ASSUME NEW d \in Defaults
             PROVE  FALSE
  OBVIOUS
<1>1. Defaults = {d}
  OBVIOUS
<1>2. Latest(Defaults) = d
  BY <1>1, LatestOnly
<1>3. d # NoProfile
  BY MadeRow DEF Defaults
<1> QED
  BY <1>2, <1>3

LEMMA BeginProfileStep ==
  ASSUME ProfileInv, NEW w \in Writers, BeginProfile(w)
  PROVE  ProfileInv'
<1>1. PICK u \in Creators :
        \E f \in create_creator_profile(u) \union update_creator_profile(u)
                 \union upsert_global_default_profile(u) \union resolve_effective_settings(u) :
          /\ writer' = [writer EXCEPT ![w] = f]
          /\ forked' = (forked \/ (OnDefault(f) /\ \E o \in Writers : OnDefault(writer[o])))
  BY DEF BeginProfile
<1>2. PICK f : /\ Decides(f)
               /\ writer' = [writer EXCEPT ![w] = f]
               /\ forked' = (forked \/ (OnDefault(f) /\ \E o \in Writers : OnDefault(writer[o])))
  BY <1>1, CreateDecides, UpdateDecides, UpsertDecides, UseDecides
<1>3. writer[w] = Free /\ UNCHANGED profile
  BY DEF BeginProfile
<1>4. writer'[w] = f /\ DOMAIN writer' = Writers /\ \A v \in Writers : v # w => writer'[v] = writer[v]
  BY <1>2 DEF ProfileInv
<1>5. ASSUME NEW v \in Writers, writer'[v] # Free
      PROVE  Fits(v)'
  <2>1. CASE v = w
    <3>1. profile' = profile /\ writer'[v] = f
      BY <1>3, <1>4, <2>1
    <3>2. f.read = Unmade =>
            \A x \in Writers : x # v /\ writer'[x] # Free => writer'[x].row # f.row
      BY <1>2, <1>4, <2>1 DEF Decides
    <3>3. /\ f.by \in Creators /\ f.row \in Profiles /\ f.doing \in {"edit", "put", "use"}
          /\ f.want \in FullProfile /\ f.read \in FullProfile \union {Unmade}
          /\ f.read = profile'[f.row] /\ f.want.owner \in {f.by, NoProfile}
          /\ f.doing = "use" => f.want = f.read
          /\ f.doing = "put" => f.want.owner = NoProfile /\ f.want.active = TRUE
      BY <1>2, <3>1 DEF Decides, ProfileInv
    <3>4. /\ f.read = Unmade => (f.doing = "edit" => f.want.owner = f.by)
          /\ f.read # Unmade => f.read.owner = f.want.owner
      BY <1>2 DEF Decides
    <3> QED
      BY <3>1, <3>2, <3>3, <3>4 DEF Fits
  <2>2. CASE v # w
    <3>1. writer'[v] = writer[v] /\ Fits(v)
      BY <1>4, <1>5, <2>2 DEF ProfileInv
    <3>2. writer[v].read = Unmade => f.row # writer[v].row
      <4>1. CASE f.read = Unmade
        BY <1>2, <1>5, <3>1, <4>1 DEF Decides
      <4>2. CASE f.read # Unmade
        BY <1>2, <3>1, <4>2 DEF Decides, Fits
      <4> QED
        BY <4>1, <4>2
    <3> QED
      BY <1>3, <1>4, <3>1, <3>2 DEF Fits
  <2> QED
    BY <2>1, <2>2
<1>6. ASSUME forked' = FALSE
      PROVE  OneDefault'
  <2>1. forked = FALSE /\ ~(OnDefault(f) /\ \E o \in Writers : OnDefault(writer[o]))
    BY <1>2, <1>6 DEF ProfileInv
  <2>2. OneDefault /\ Defaults' = Defaults
    BY <1>3, <2>1 DEF ProfileInv, Defaults, Made, IsDefault
  <2>3. ASSUME NEW v \in Writers, OnDefault(writer'[v])
        PROVE  /\ (v = w \/ (v # w /\ writer'[v] = writer[v] /\ OnDefault(writer[v])))
               /\ profile[writer'[v].row] = writer'[v].read
               /\ writer'[v].doing = "put" => Defaults \subseteq {writer'[v].row}
    <3>1. CASE v = w
      <4>1. writer'[v] = f /\ profile[f.row] = f.read
        BY <1>2, <1>4, <3>1 DEF Decides
      <4>2. ASSUME f.doing = "put" PROVE Defaults \subseteq {f.row}
        <5>1. CASE f.read = Unmade
          BY <1>2, <2>2, <4>2, <5>1, NoDefault DEF Decides, OneDefault
        <5>2. CASE f.read # Unmade
          <6>1. f.row \in Defaults
            BY <1>2, <4>2, <5>2 DEF Decides, Defaults, Made, IsDefault
          <6> QED
            BY <2>2, <6>1 DEF OneDefault
        <5> QED
          BY <5>1, <5>2
      <4> QED
        BY <3>1, <4>1, <4>2
    <3>2. CASE v # w
      BY <1>4, <2>2, <2>3, <3>2 DEF OneDefault
    <3> QED
      BY <3>1, <3>2
  <2>4. ASSUME NEW v \in Writers, NEW x \in Writers, OnDefault(writer'[v]), OnDefault(writer'[x])
        PROVE  v = x
    BY <1>4, <2>1, <2>2, <2>3, <2>4 DEF OneDefault
  <2>5. \A v \in Writers : OnDefault(writer[v])' <=> OnDefault(writer'[v])
    BY DEF OnDefault
  <2> QED
    BY <1>3, <2>2, <2>3, <2>4, <2>5 DEF OneDefault
<1>7. forked' \in BOOLEAN
  BY <1>2 DEF ProfileInv, OnDefault
<1> QED
  BY <1>3, <1>4, <1>5, <1>6, <1>7 DEF ProfileInv

-----------------------------------------------------------------------------
(* A commit writes the columns that differ from what was read, so one     *)
(* that finds what it read leaves what was wanted.                         *)
LEMMA MergedRow ==
  ASSUME NEW have \in FullProfile, NEW read \in FullProfile, NEW want \in FullProfile,
         read.owner = want.owner, have.owner = want.owner,
         NEW row, row = [c \in DOMAIN want |-> IF want[c] = read[c] THEN have[c] ELSE want[c]]
  PROVE  /\ row \in FullProfile /\ row.owner = want.owner
         /\ want = read => row = have
         /\ have = read => row = want
<1>1. DOMAIN want = {"made", "owner", "active", "voice"}
  BY DEF FullProfile
<1>2. row = [made |-> IF want.made = read.made THEN have.made ELSE want.made,
             owner |-> IF want.owner = read.owner THEN have.owner ELSE want.owner,
             active |-> IF want.active = read.active THEN have.active ELSE want.active,
             voice |-> IF want.voice = read.voice THEN have.voice ELSE want.voice]
  BY <1>1
<1> QED
  BY <1>2 DEF FullProfile

(* The row a commit leaves, and what it says.                              *)
Leaves(f, row) ==
  /\ row \in FullProfile /\ row.owner = f.want.owner
  /\ profile' = [profile EXCEPT ![f.row] = row]
  /\ profile[f.row] = f.read => row = f.want
  /\ f.doing = "use" => row = profile[f.row]

LEMMA CommitRow ==
  ASSUME ProfileInv, NEW w \in Writers, CommitProfile(w), NEW f, f = writer[w]
  PROVE  \E row \in FullProfile : Leaves(f, row)
<1>1. Fits(w) /\ f # Free
  BY DEF ProfileInv, CommitProfile
<1>2. CASE f.read = Unmade
  <2>1. profile' = [profile EXCEPT ![f.row] = f.want]
    BY <1>2 DEF CommitProfile
  <2>2. f.want \in FullProfile /\ f.doing # "use"
    BY <1>1, <1>2, FullIsMade DEF Fits
  <2> QED
    BY <2>1, <2>2 DEF Leaves
<1>3. CASE f.read # Unmade
  <2>1. PICK have : have = profile[f.row]
    OBVIOUS
  <2>2. f.read \in FullProfile /\ f.want \in FullProfile /\ have \in FullProfile
        /\ f.read.owner = f.want.owner /\ have.owner = f.want.owner
    BY <1>1, <1>3, <2>1 DEF Fits, ProfileInv
  <2>3. PICK row : row = [c \in DOMAIN f.want |-> IF f.want[c] = f.read[c] THEN have[c] ELSE f.want[c]]
    OBVIOUS
  <2>4. profile' = [profile EXCEPT ![f.row] = row]
    BY <1>3, <2>1, <2>3 DEF CommitProfile
  <2>5. row \in FullProfile /\ row.owner = f.want.owner
        /\ (f.want = f.read => row = have) /\ (have = f.read => row = f.want)
    BY <2>2, <2>3, MergedRow
  <2>6. f.doing = "use" => f.want = f.read
    BY <1>1 DEF Fits
  <2> QED
    BY <2>1, <2>4, <2>5, <2>6 DEF Leaves
<1> QED
  BY <1>2, <1>3

(* A commit on a profile that is not the default, or that only records a   *)
(* use, leaves the defaults and what they say.                             *)
LEMMA DefaultsStand ==
  ASSUME ProfileInv, NEW w \in Writers, CommitProfile(w), ~OnDefault(writer[w])
  PROVE  Defaults' = Defaults /\ \A d \in Defaults : profile'[d] = profile[d]
<1>1. PICK f : f = writer[w]
  OBVIOUS
<1>2. Fits(w) /\ f # Free
  BY <1>1 DEF ProfileInv, CommitProfile
<1>3. PICK row \in FullProfile : Leaves(f, row)
  BY <1>1, CommitRow
<1>4. \A p \in Profiles : profile'[p] = IF p = f.row THEN row ELSE profile[p]
  BY <1>3 DEF Leaves, ProfileInv
<1>5. f.row \in Profiles
  BY <1>1, <1>2 DEF Fits
<1>6. CASE f.doing = "use"
  <2>1. row = profile[f.row]
    BY <1>3, <1>6 DEF Leaves
  <2>2. \A p \in Profiles : profile'[p] = profile[p]
    BY <1>4, <2>1
  <2> QED
    BY <2>2 DEF Defaults, Made, IsDefault
<1>7. CASE f.want.owner # NoProfile
  <2>1. profile[f.row] = Unmade \/ profile[f.row].owner # NoProfile
    BY <1>1, <1>2, <1>7 DEF Fits
  <2>2. row.owner # NoProfile /\ row # Unmade
    BY <1>3, <1>7, FullIsMade DEF Leaves
  <2> QED
    BY <1>4, <1>5, <2>1, <2>2 DEF Defaults, Made, IsDefault
<1> QED
  BY <1>1, <1>2, <1>6, <1>7 DEF OnDefault

(* Nobody has forked the default: what is put is what a read of it sees.   *)
LEMMA DefaultPut ==
  ASSUME ProfileInv, OneDefault, NEW w \in Writers, CommitProfile(w), OnDefault(writer[w])
  PROVE  /\ profile'[writer[w].row] = writer[w].want
         /\ Defaults' = {writer[w].row}
<1>1. PICK f : f = writer[w]
  OBVIOUS
<1>2. Fits(w) /\ f # Free
  BY <1>1 DEF ProfileInv, CommitProfile
<1>3. PICK row \in FullProfile : Leaves(f, row)
  BY <1>1, CommitRow
<1>4. f.row \in Profiles /\ f.want.owner = NoProfile /\ f.doing \in {"edit", "put"}
  BY <1>1, <1>2 DEF Fits, OnDefault
<1>5. profile'[f.row] = f.want /\ f.want \in FullProfile
  BY <1>1, <1>2, <1>3, <1>4 DEF Leaves, ProfileInv, OneDefault, Fits
<1>6. \A p \in Profiles : p # f.row => profile'[p] = profile[p]
  BY <1>3 DEF Leaves, ProfileInv
<1>7. f.row \in Defaults'
  BY <1>4, <1>5, FullIsMade DEF Defaults, Made, IsDefault
<1>8. Defaults \subseteq {f.row}
  <2>1. CASE f.doing = "put"
    BY <1>1, <2>1 DEF OneDefault
  <2>2. CASE f.doing = "edit"
    <3>1. f.by # NoProfile
      BY <1>1, <1>2, SomeCreators DEF Fits
    <3>2. profile[f.row] # Unmade /\ profile[f.row].owner = NoProfile
      BY <1>1, <1>2, <1>4, <2>2, <3>1 DEF Fits
    <3>3. f.row \in Defaults
      BY <1>4, <3>2 DEF Defaults, Made, IsDefault
    <3> QED
      BY <3>3 DEF OneDefault
  <2> QED
    BY <1>4, <2>1, <2>2
<1>9. \A p \in Defaults' : p = f.row
  BY <1>6, <1>8 DEF Defaults, Made, IsDefault
<1> QED
  BY <1>1, <1>5, <1>7, <1>9

LEMMA CommitProfileStep ==
  ASSUME ProfileInv, NEW w \in Writers, CommitProfile(w)
  PROVE  ProfileInv'
<1>1. PICK f : f = writer[w]
  OBVIOUS
<1>2. Fits(w) /\ f # Free
  BY <1>1 DEF ProfileInv, CommitProfile
<1>3. PICK row \in FullProfile : Leaves(f, row)
  BY <1>1, CommitRow
<1>4. f.row \in Profiles
  BY <1>1, <1>2 DEF Fits
<1>5. \A p \in Profiles : profile'[p] = IF p = f.row THEN row ELSE profile[p]
  BY <1>3 DEF Leaves, ProfileInv
<1>6. writer'[w] = Free /\ DOMAIN writer' = Writers /\ (\A v \in Writers : v # w => writer'[v] = writer[v])
      /\ forked' = forked
  BY DEF CommitProfile, ProfileInv
<1>7. profile' \in [Profiles -> FullProfile \union {Unmade}]
  BY <1>3 DEF Leaves, ProfileInv
<1>8. ASSUME NEW v \in Writers, writer'[v] # Free
      PROVE  Fits(v)'
  <2>1. v # w /\ writer'[v] = writer[v] /\ Fits(v)
    BY <1>6, <1>8 DEF ProfileInv
  <2>2. PICK g : g = writer[v]
    OBVIOUS
  <2>3. g.row \in Profiles
    BY <2>1, <2>2 DEF Fits
  <2>4. ASSUME g.read = Unmade PROVE profile'[g.row] = Unmade
    <3>1. g.row # f.row /\ profile[g.row] = Unmade
      BY <1>1, <1>2, <2>1, <2>2, <2>4 DEF Fits
    <3> QED
      BY <1>5, <2>3, <3>1
  <2>5. ASSUME g.read # Unmade
        PROVE  profile'[g.row] # Unmade /\ profile'[g.row].owner = g.want.owner
    <3>1. profile[g.row] # Unmade /\ profile[g.row].owner = g.want.owner
      BY <2>1, <2>2, <2>5 DEF Fits
    <3>2. CASE g.row = f.row
      <4>1. profile[f.row].owner = f.want.owner
        BY <1>1, <1>2, <3>1, <3>2 DEF Fits
      <4>2. profile'[g.row] = row /\ row # Unmade /\ row.owner = f.want.owner
        BY <1>3, <1>5, <2>3, <3>2, FullIsMade DEF Leaves
      <4> QED
        BY <3>1, <3>2, <4>1, <4>2
    <3>3. CASE g.row # f.row
      BY <1>5, <2>3, <3>1, <3>3
    <3> QED
      BY <3>2, <3>3
  <2>6. \A x \in Writers : writer'[x] # Free => writer[x] # Free /\ writer'[x] = writer[x]
    BY <1>6
  <2> QED
    BY <2>1, <2>2, <2>4, <2>5, <2>6 DEF Fits
<1>9. ASSUME forked' = FALSE
      PROVE  OneDefault'
  <2>1. OneDefault
    BY <1>6, <1>9 DEF ProfileInv
  <2>2. \A v \in Writers : OnDefault(writer[v])' => v # w /\ writer'[v] = writer[v] /\ OnDefault(writer[v])
    BY <1>6 DEF OnDefault
  <2>3. CASE OnDefault(writer[w])
    <3>1. Defaults' = {writer[w].row}
      BY <2>1, <2>3, DefaultPut
    <3>2. \A v \in Writers : ~OnDefault(writer[v])'
      BY <2>1, <2>2, <2>3 DEF OneDefault
    <3> QED
      BY <3>1, <3>2 DEF OneDefault
  <2>4. CASE ~OnDefault(writer[w])
    <3>1. Defaults' = Defaults /\ \A d \in Defaults : profile'[d] = profile[d]
      BY <2>4, DefaultsStand
    <3>2. ASSUME NEW v \in Writers, OnDefault(writer[v])'
          PROVE  profile'[writer[v].row] = writer[v].read
      <4>1. v # w /\ OnDefault(writer[v]) /\ Fits(v) /\ profile[writer[v].row] = writer[v].read
        BY <2>1, <2>2, <3>2 DEF OneDefault, ProfileInv, OnDefault
      <4>2. PICK g : g = writer[v]
        OBVIOUS
      <4>3. g.row \in Profiles /\ g.want.owner = NoProfile
        BY <4>1, <4>2 DEF Fits, OnDefault
      <4>4. CASE g.read = Unmade
        <5>1. g.row # f.row
          BY <1>1, <1>2, <4>1, <4>2, <4>4 DEF Fits
        <5> QED
          BY <1>5, <4>1, <4>2, <4>3, <5>1
      <4>5. CASE g.read # Unmade
        <5>1. g.row \in Defaults
          BY <4>1, <4>2, <4>3, <4>5 DEF Fits, Defaults, Made, IsDefault
        <5> QED
          BY <3>1, <4>1, <4>2, <5>1
      <4> QED
        BY <4>4, <4>5
    <3>3. \A p, q \in Defaults' : p = q
      BY <2>1, <3>1 DEF OneDefault
    <3>4. \A v \in Writers, x \in Writers : OnDefault(writer[v])' /\ OnDefault(writer[x])' => v = x
      BY <2>1, <2>2 DEF OneDefault
    <3>5. \A v \in Writers : OnDefault(writer[v])' => profile'[writer'[v].row] = writer'[v].read
      BY <2>2, <3>2
    <3>6. \A v \in Writers : OnDefault(writer[v])' /\ writer'[v].doing = "put" => Defaults' \subseteq {writer'[v].row}
      BY <2>1, <2>2, <3>1 DEF OneDefault
    <3> QED
      BY <3>3, <3>4, <3>5, <3>6 DEF OneDefault
  <2> QED
    BY <2>3, <2>4
<1>10. forked' \in BOOLEAN
  BY <1>6 DEF ProfileInv
<1> QED
  BY <1>6, <1>7, <1>8, <1>9, <1>10 DEF ProfileInv

LEMMA DropProfileStep ==
  ASSUME ProfileInv, NEW w \in Writers, DropProfile(w)
  PROVE  ProfileInv'
<1>1. writer'[w] = Free /\ DOMAIN writer' = Writers /\ (\A v \in Writers : v # w => writer'[v] = writer[v])
      /\ forked' = forked /\ profile' = profile
  BY DEF DropProfile, ProfileInv
<1>2. ASSUME NEW v \in Writers, writer'[v] # Free
      PROVE  Fits(v)'
  <2>1. v # w /\ writer'[v] = writer[v] /\ Fits(v)
    BY <1>1, <1>2 DEF ProfileInv
  <2> QED
    BY <1>1, <2>1 DEF Fits
<1>3. ASSUME forked' = FALSE
      PROVE  OneDefault'
  <2>1. OneDefault
    BY <1>1, <1>3 DEF ProfileInv
  <2>2. \A v \in Writers : OnDefault(writer[v])' => v # w /\ writer'[v] = writer[v] /\ OnDefault(writer[v])
    BY <1>1 DEF OnDefault
  <2>3. Defaults' = Defaults
    BY <1>1 DEF Defaults, Made, IsDefault
  <2> QED
    BY <1>1, <2>1, <2>2, <2>3 DEF OneDefault
<1> QED
  BY <1>1, <1>2, <1>3 DEF ProfileInv

LEMMA ProfileStart == ProfilesInit => ProfileInv
  BY DEF ProfilesInit, ProfileInv, OneDefault, Defaults, Made, OnDefault

LEMMA ProfileStep == ProfileInv /\ [ProfilesNext]_cvars => ProfileInv'
<1> SUFFICES ASSUME ProfileInv, [ProfilesNext]_cvars
             PROVE  ProfileInv'
  OBVIOUS
<1>1. ASSUME NEW w \in Writers, BeginProfile(w) \/ CommitProfile(w) \/ DropProfile(w)
      PROVE  ProfileInv'
  BY <1>1, BeginProfileStep, CommitProfileStep, DropProfileStep
<1>2. CASE UNCHANGED cvars
  <2>1. profile' = profile /\ writer' = writer /\ forked' = forked
    BY <1>2 DEF cvars
  <2>2. \A w \in Writers : Fits(w) => Fits(w)'
    <3> SUFFICES ASSUME NEW w \in Writers, Fits(w)
                 PROVE  Fits(w)'
      OBVIOUS
    <3> QED
      BY <2>1 DEF Fits
  <2>3. Defaults' = Defaults
    BY <2>1 DEF Defaults, Made, IsDefault
  <2>4. OneDefault => OneDefault'
    BY <2>1, <2>3 DEF OneDefault, OnDefault
  <2> QED
    BY <2>1, <2>2, <2>4 DEF ProfileInv
<1> QED
  BY <1>1, <1>2 DEF ProfilesNext

THEOREM ProfilesAlways == ProfilesSpec => []ProfileInv
  BY ProfileStart, ProfileStep, PTL DEF ProfilesSpec

(* The order of the profiles: of two rows exactly one is the older.  The   *)
(* row a commit touches becomes the last.                                  *)
Ranked(order, rows) ==
  /\ order \subseteq {<<p, q>> : p \in rows, q \in rows}
  /\ \A p, q \in rows : <<p, q>> \in order <=> p # q /\ <<q, p>> \notin order

LEMMA TouchedRanks ==
  ASSUME NEW rows, NEW order, Ranked(order, rows), NEW p, NEW next,
         next = {o \in order : p \notin {o[1], o[2]}} \union {<<q, p>> : q \in rows \ {p}}
  PROVE  Ranked(next, rows \union {p})
<1>1. \A o \in order : \E a, b \in rows : o = <<a, b>>
  BY DEF Ranked
<1>2. \A a, b : <<a, b>> \in next <=>
        \/ b = p /\ a \in rows \ {p}
        \/ a # p /\ b # p /\ <<a, b>> \in order
  OBVIOUS
<1>3. next \subseteq {<<a, b>> : a \in rows \union {p}, b \in rows \union {p}}
  <2> SUFFICES ASSUME NEW o \in next
               PROVE  \E a, b \in rows \union {p} : o = <<a, b>>
    OBVIOUS
  <2>1. CASE o \in order
    BY <1>1, <2>1
  <2>2. CASE o \notin order
    BY <2>2
  <2> QED
    BY <2>1, <2>2
<1>4. ASSUME NEW a \in rows \union {p}, NEW b \in rows \union {p}
      PROVE  <<a, b>> \in next <=> a # b /\ <<b, a>> \notin next
  <2>1. a \in rows /\ b \in rows => (<<a, b>> \in order <=> a # b /\ <<b, a>> \notin order)
    BY DEF Ranked
  <2> QED
    BY <1>2, <1>4, <2>1
<1> QED
  BY <1>3, <1>4 DEF Ranked

LEMMA CommitRanks ==
  ASSUME ProfileInv, Ranked(older, Made), NEW w \in Writers, CommitProfile(w)
  PROVE  Ranked(older', Made')
<1>1. PICK f : f = writer[w]
  OBVIOUS
<1>2. Fits(w) /\ f # Free /\ f.row \in Profiles
  BY <1>1 DEF ProfileInv, CommitProfile, Fits
<1>3. PICK row \in FullProfile : Leaves(f, row)
  BY <1>1, CommitRow
<1>4. Made' = Made \union {f.row}
  BY <1>2, <1>3, FullIsMade DEF Leaves, Made, ProfileInv
<1>5. CASE f.doing = "use" \/ f.want # f.read
  <2>1. older' = {o \in older : f.row \notin {o[1], o[2]}} \union {<<q, f.row>> : q \in Made \ {f.row}}
    BY <1>1, <1>5 DEF CommitProfile, Touched
  <2> QED
    BY <1>4, <2>1, TouchedRanks
<1>6. CASE ~(f.doing = "use" \/ f.want # f.read)
  <2>1. older' = older
    BY <1>1, <1>6 DEF CommitProfile
  <2>2. f.row \in Made
    BY <1>1, <1>2, <1>6, FullIsMade DEF Fits, Made
  <2> QED
    BY <1>4, <2>1, <2>2
<1> QED
  BY <1>5, <1>6

LEMMA ProfileRanks ==
  ASSUME ProfileInv, Ranked(older, Made), [ProfilesNext]_cvars
  PROVE  Ranked(older', Made')
<1>1. ASSUME UNCHANGED <<profile, older>> PROVE Ranked(older', Made')
  BY <1>1 DEF Made
<1>2. CASE UNCHANGED cvars
  BY <1>1, <1>2 DEF cvars
<1>3. ASSUME NEW w \in Writers, BeginProfile(w) \/ DropProfile(w) PROVE Ranked(older', Made')
  BY <1>1, <1>3 DEF BeginProfile, DropProfile
<1> QED
  BY <1>2, <1>3, CommitRanks DEF ProfilesNext

(* The rows stay typed, and updated_at orders them: of two profiles, one   *)
(* is always the later.                                                    *)
THEOREM ProfileTypes == ProfilesSpec => []ProfilesTypeOK
<1>1. ProfilesInit => Ranked(older, Made)
  BY DEF ProfilesInit, Made, Ranked
<1>2. ProfileInv /\ Ranked(older, Made) /\ [ProfilesNext]_cvars => Ranked(older, Made)'
  <2> SUFFICES ASSUME ProfileInv, Ranked(older, Made), [ProfilesNext]_cvars
               PROVE  Ranked(older', Made')
    BY DEF Ranked
  <2> QED
    BY ProfileRanks
<1>3. ASSUME ProfileInv, Ranked(older, Made) PROVE ProfilesTypeOK
  <2>1. forked \in BOOLEAN
    BY <1>3 DEF ProfileInv
  <2>2. \A p \in Made : profile[p] \in FullProfile
    BY <1>3, MadeRow
  <2>3. ASSUME NEW p \in Made
        PROVE  /\ profile[p].owner \in Creators \union {NoProfile}
               /\ profile[p].active \in BOOLEAN /\ profile[p].voice \in Voices
    <3>1. PICK row \in FullProfile : row = profile[p]
      BY <2>2, <2>3
    <3>2. /\ row.owner \in Creators \union {NoProfile}
          /\ row.active \in BOOLEAN /\ row.voice \in Voices
      BY DEF FullProfile
    <3> QED
      BY <3>1, <3>2
  <2>4. /\ older \subseteq {<<p, q>> : p \in Made, q \in Made}
        /\ \A p, q \in Made : <<p, q>> \in older <=> p # q /\ <<q, p>> \notin older
    BY <1>3 DEF Ranked
  <2> QED
    BY <2>1, <2>3, <2>4 DEF ProfilesTypeOK
<1> QED
  BY <1>1, <1>2, <1>3, ProfilesAlways, PTL DEF ProfilesSpec

-----------------------------------------------------------------------------
(* What serves a creator: the last of some rows in an order.               *)
LastOf(rows, order) == {p \in rows : \A q \in rows \ {p} : <<q, p>> \in order}
LatestOf(rows, order) ==
  IF LastOf(rows, order) = {} THEN NoProfile ELSE CHOOSE p \in LastOf(rows, order) : TRUE

Own(u) == {p \in Made : profile[p].owner = u /\ profile[p].active}
Common == {p \in Made : IsDefault(p) /\ profile[p].active}
Serves(own, common, order) ==
  IF LatestOf(own, order) # NoProfile THEN LatestOf(own, order) ELSE LatestOf(common, order)

LEMMA ServingIs ==
  ASSUME NEW u \in Creators
  PROVE  /\ Serving(u) = Serves(Own(u), Common, older)
         /\ Serving(u)' = Serves(Own(u)', Common', older')
<1>1. NoProfile \notin Made /\ NoProfile \notin Made'
  BY SomeCreators DEF Made
<1>2. ProfileUsed(u, NoProfile) = LatestOf(Own(u), older)
  BY <1>1 DEF ProfileUsed, Latest, LatestOf, LastOf, Own
<1>3. ProfileUsed(u, NoProfile)' = LatestOf(Own(u)', older')
  BY <1>1 DEF ProfileUsed, Latest, LatestOf, LastOf, Own
<1>4. Latest({p \in Made : IsDefault(p) /\ profile[p].active}) = LatestOf(Common, older)
  BY DEF Latest, LatestOf, LastOf, Common
<1>5. Latest({p \in Made : IsDefault(p) /\ profile[p].active})' = LatestOf(Common', older')
  BY DEF Latest, LatestOf, LastOf, Common
<1>6. Serving(u) = Serves(Own(u), Common, older)
  BY <1>2, <1>4 DEF Serving, Serves
<1>7. Serving(u)' = Serves(Own(u)', Common', older')
  BY <1>3, <1>5 DEF Serving, Serves
<1> QED
  BY <1>6, <1>7

LEMMA OnlyOne ==
  ASSUME NEW p, NEW order
  PROVE  LatestOf({p}, order) = p
<1>1. LastOf({p}, order) = {p}
  BY DEF LastOf
<1>2. {p} # {} /\ (CHOOSE r \in {p} : TRUE) = p
  OBVIOUS
<1> QED
  BY <1>1, <1>2 DEF LatestOf

LEMMA SameOrder ==
  ASSUME NEW rows, NEW one, NEW two,
         \A p, q \in rows : <<q, p>> \in one <=> <<q, p>> \in two
  PROVE  LatestOf(rows, one) = LatestOf(rows, two)
<1>1. LastOf(rows, one) = LastOf(rows, two)
  BY DEF LastOf
<1> QED
  BY <1>1 DEF LatestOf

LEMMA PutServes ==
  ASSUME ProfileInv, NEW w \in Writers, CommitProfile(w), writer[w].doing = "put", ~forked,
         NEW u \in Creators, ProfileUsed(u, NoProfile)' = NoProfile
  PROVE  Serving(u)' = writer[w].row
<1>1. PICK f : f = writer[w]
  OBVIOUS
<1>2. Fits(w) /\ f # Free /\ OneDefault
  BY <1>1 DEF ProfileInv, CommitProfile
<1>3. OnDefault(writer[w])
  BY <1>1, <1>2 DEF Fits, OnDefault
<1>4. profile'[f.row] = f.want /\ Defaults' = {f.row}
  BY <1>1, <1>2, <1>3, DefaultPut
<1>5. f.want.active = TRUE
  BY <1>1, <1>2 DEF Fits
<1>6. Common' = {f.row}
  BY <1>4, <1>5 DEF Common, Defaults
<1>7. LatestOf(Common', older') = f.row
  BY <1>6, OnlyOne
<1>8. Serving(u)' = Latest({p \in Made : IsDefault(p) /\ profile[p].active})'
  BY DEF Serving
<1>9. Latest({p \in Made : IsDefault(p) /\ profile[p].active})' = LatestOf(Common', older')
  BY DEF Latest, LatestOf, LastOf, Common
<1> QED
  BY <1>1, <1>7, <1>8, <1>9

LEMMA OthersServed ==
  ASSUME ProfileInv, NEW w \in Writers, CommitProfile(w), NEW u \in Creators,
         writer[w].by # u, writer[w].want.owner # NoProfile
  PROVE  Serving(u)' = Serving(u)
<1>1. PICK f : f = writer[w]
  OBVIOUS
<1>2. Fits(w) /\ f # Free
  BY <1>1 DEF ProfileInv, CommitProfile
<1>3. PICK row \in FullProfile : Leaves(f, row)
  BY <1>1, CommitRow
<1>4. \A p \in Profiles : profile'[p] = IF p = f.row THEN row ELSE profile[p]
  BY <1>3 DEF Leaves, ProfileInv
<1>5. f.want.owner = f.by
  BY <1>1, <1>2 DEF Fits
<1>6. row.owner # u /\ row.owner # NoProfile
  BY <1>1, <1>3, <1>5 DEF Leaves
<1>7. profile[f.row] = Unmade \/ (profile[f.row].owner # u /\ profile[f.row].owner # NoProfile)
  BY <1>1, <1>2, <1>5 DEF Fits
<1>8. Own(u)' = Own(u) /\ f.row \notin Own(u)
  BY <1>4, <1>6, <1>7 DEF Own, Made
<1>9. Common' = Common /\ f.row \notin Common
  BY <1>4, <1>6, <1>7 DEF Common, Made, IsDefault
<1>10. \A p, q : p # f.row /\ q # f.row => (<<q, p>> \in older' <=> <<q, p>> \in older)
  <2>1. CASE older' = older
    BY <2>1
  <2>2. CASE older' = Touched(f.row)
    BY <2>2 DEF Touched
  <2> QED
    BY <1>1, <2>1, <2>2 DEF CommitProfile
<1>11. LatestOf(Own(u), older') = LatestOf(Own(u), older)
  BY <1>8, <1>10, SameOrder
<1>12. LatestOf(Common, older') = LatestOf(Common, older)
  BY <1>9, <1>10, SameOrder
<1> QED
  BY <1>8, <1>9, <1>11, <1>12, ServingIs DEF Serves

LEMMA ServedStep ==
  ASSUME ProfileInv, NEW w \in Writers, CommitProfile(w)
  PROVE  LET f == writer[w] IN
         /\ f.doing = "put" /\ ~forked =>
              /\ {p \in Made : IsDefault(p)}' = {f.row}
              /\ profile'[f.row].voice = f.want.voice
              /\ \A u \in Creators : ProfileUsed(u, NoProfile)' = NoProfile => Serving(u)' = f.row
         /\ \A u \in Creators : Serving(u)' # Serving(u) => f.by = u \/ f.want.owner = NoProfile
<1>1. ASSUME writer[w].doing = "put", ~forked
      PROVE  Defaults' = {writer[w].row} /\ profile'[writer[w].row] = writer[w].want
  <2>1. OneDefault /\ Fits(w) /\ writer[w] # Free
    BY <1>1 DEF ProfileInv, CommitProfile
  <2>2. OnDefault(writer[w])
    BY <1>1, <2>1 DEF Fits, OnDefault
  <2> QED
    BY <2>1, <2>2, DefaultPut
<1> QED
  BY <1>1, PutServes, OthersServed DEF Defaults

(* An administrator who put the default and had it to themselves finds it  *)
(* alone, in their words and serving whoever has no profile of their own;  *)
(* nobody else's request changes what a creator is served.                 *)
THEOREM ServedSafety == ProfilesSpec => ServedProfile
<1>1. ProfileInv /\ [ProfilesNext]_cvars =>
        [\A w \in Writers : CommitProfile(w) =>
       LET f == writer[w] IN
       /\ f.doing = "put" /\ ~forked =>
            /\ {p \in Made : IsDefault(p)}' = {f.row}
            /\ profile'[f.row].voice = f.want.voice
            /\ \A u \in Creators : ProfileUsed(u, NoProfile)' = NoProfile => Serving(u)' = f.row
       /\ \A u \in Creators : Serving(u)' # Serving(u) => f.by = u \/ f.want.owner = NoProfile]_cvars
  BY ServedStep
<1> QED
  BY <1>1, ProfilesAlways, PTL DEF ProfilesSpec, ServedProfile

-----------------------------------------------------------------------------
(* Checked in one run and cut into slices, each part still takes only      *)
(* steps it may take alone.  So the run's tables are typed as theirs.      *)
LEMMA MailParts == MailNext => EmailNext
  BY DEF MailNext, GenerationSlice, EditSlice, TemplateSlice, EmailNext

LEMMA DocsParts == DocsNext => KnowledgeNext
  BY DEF DocsNext, DocSlice, KnowledgeNext

LEMMA VoiceParts == VoiceNext => ProfilesNext
  BY DEF VoiceNext, ProfileSlice, ProfilesNext

LEMMA RacesParts == RacesNext => DealsNext
  BY DEF RacesNext, DealSlice, Brief, DealsNext, Intake, PatchDeal

LEMMA PartsOfCorrespondence == Spec => EmailSpec /\ KnowledgeSpec /\ ProfilesSpec /\ DealsSpec
<1>1. Init => EmailInit /\ KnowledgeInit /\ ProfilesInit /\ DealsInit
  BY DEF Init
<1>2. [Next]_vars => [EmailNext]_evars
  BY MailParts DEF Next, vars
<1>3. [Next]_vars => [KnowledgeNext]_kvars
  BY DocsParts DEF Next, vars
<1>4. [Next]_vars => [ProfilesNext]_cvars
  BY VoiceParts DEF Next, vars
<1>5. [Next]_vars => [DealsNext]_dvars
  BY RacesParts DEF Next, vars
<1> QED
  BY <1>1, <1>2, <1>3, <1>4, <1>5, PTL DEF Spec, EmailSpec, KnowledgeSpec, ProfilesSpec, DealsSpec

THEOREM CorrespondenceTypes == Spec => []TypeOK
<1>1. EmailTypeOK /\ KnowledgeTypeOK /\ ProfilesTypeOK /\ DealsTypeOK => TypeOK
  BY DEF TypeOK
<1> QED
  BY <1>1, PartsOfCorrespondence, EmailTypes, KnowledgeTypes, ProfileTypes, DealTypes, PTL
=============================================================================

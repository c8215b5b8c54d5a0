------------------------------ MODULE SalesDesk ------------------------------
(***************************************************************************)
(* Products and the deal drafts, content items and assets linked to them.  *)
(*                                                                         *)
(* A request handler reads rows, refuses (a 4xx answer, no change) or      *)
(* flushes one set of column writes and commits.  Here a handler is the    *)
(* SET OF UPDATES it may flush in the current state: the empty set is the  *)
(* refusal, and each element belongs to one choice of the request's        *)
(* inputs.  An update names only the columns the ORM writes, because two   *)
(* handlers that write different columns of one row do not overwrite each  *)
(* other.  SalesDesk commits each update in the state it was computed in;  *)
(* SalesDeskConcurrent EXTENDS it and lets commits come later.             *)
(***************************************************************************)
EXTENDS Workflow, DomainRules

CONSTANTS
  Products, Deals, Contents, Assets,  \* ids a row of each table may take
  None                                \* a NULL product_id

Artifacts == Deals \union Contents \union Assets
Rows == Products \union Artifacts

ASSUME IdsAreDistinct ==
  /\ Products \intersect Artifacts = {}
  /\ Deals \intersect (Contents \union Assets) = {}
  /\ Contents \intersect Assets = {}
  /\ None \notin Rows

VARIABLES
  life,    \* is the row "new" (never inserted), "live" or "gone" (deleted)
  status,  \* Product.status
  due,     \* the product has kept its status AUTO_ARCHIVE_SOLD_AFTER_DAYS
  ledger,  \* the types of the ProductTransactions of the product
  wf,      \* workflow_status of any row
  reason,  \* review_reason of any row is not NULL
  link,    \* product_id of a deal or a content item, owner_id of an asset
  stage    \* DealDraft.status

vars == <<life, status, due, ledger, wf, reason, link, stage>>

DealDraftStatus == {"intake", "review", "negotiating", "won", "lost"}

Live == {x \in Rows : life[x] = "live"}

TypeOK ==
  /\ life \in [Rows -> {"new", "live", "gone"}]
  /\ status \in [Products -> ProductStatus]
  /\ due \in [Products -> BOOLEAN]
  /\ ledger \in [Products -> SUBSET TransactionType]
  /\ wf \in [Rows -> WorkflowStatus]
  /\ reason \in [Rows -> BOOLEAN]
  /\ link \in [Artifacts -> Products \union {None}]
  /\ stage \in [Deals -> DealDraftStatus]

Init ==
  /\ life = [x \in Rows |-> "new"]
  /\ status = [p \in Products |-> "active"]
  /\ due = [p \in Products |-> FALSE]
  /\ ledger = [p \in Products |-> {}]
  /\ wf = [x \in Rows |-> "draft"]
  /\ reason = [x \in Rows |-> FALSE]
  /\ link = [x \in Artifacts |-> None]
  /\ stage = [d \in Deals |-> "intake"]

-----------------------------------------------------------------------------
(* Updates: what a handler flushes.  status, wf, reason, link and stage    *)
(* map the written rows to the written values; born and dead are the       *)
(* inserted and deleted rows, tx the inserted product transactions.        *)

Nothing == [x \in {} |-> None]
Write(x, v) == [y \in {x} |-> v]
WriteIf(cond, x, v) == [y \in (IF cond THEN {x} ELSE {}) |-> v]

NoUpdate ==
  [status |-> Nothing, wf |-> Nothing, reason |-> Nothing, link |-> Nothing,
   stage |-> Nothing, born |-> {}, dead |-> {}, tx |-> {}]

Overlay(old, new) ==
  [x \in DOMAIN old |-> IF x \in DOMAIN new THEN new[x] ELSE old[x]]

Apply(u) ==
  /\ life' = [x \in Rows |-> IF x \in u.dead THEN "gone"
                             ELSE IF x \in u.born THEN "live" ELSE life[x]]
  /\ status' = Overlay(status, u.status)
  /\ due' = [p \in Products |-> due[p] /\ p \notin DOMAIN u.status]
  /\ ledger' = [p \in Products |->
                  IF p \in u.dead THEN {}
                  ELSE ledger[p] \union {t \in TransactionType : <<p, t>> \in u.tx}]
  /\ wf' = Overlay(wf, u.wf)
  /\ reason' = Overlay(reason, u.reason)
  /\ link' = [x \in Artifacts |->
                LET l == Overlay(link, u.link)[x]
                IN  IF l \in u.dead /\ x \notin Assets THEN None ELSE l]
  /\ stage' = Overlay(stage, u.stage)

(* What the database lets a flush commit: updated rows still exist (else   *)
(* the ORM raises StaleDataError), inserted ids are fresh, and the foreign *)
(* keys of product_transactions, deal_drafts and content_items hold.  An   *)
(* asset's owner_id is not a foreign key.                                  *)
WrittenRows(u) ==
  (DOMAIN u.status \union DOMAIN u.wf \union DOMAIN u.reason
     \union DOMAIN u.link \union DOMAIN u.stage) \ u.born

Committable(u) ==
  /\ WrittenRows(u) \subseteq Live
  /\ \A x \in u.born : life[x] = "new"
  /\ \A x \in DOMAIN u.link \ Assets : u.link[x] \in Live \union {None}
  /\ \A e \in u.tx : e[1] \in Live

-----------------------------------------------------------------------------
(* The part of a PATCH that moves workflow_status and review_reason.  A    *)
(* request names a target status or leaves it "unset", and sends a reason, *)
(* an empty or blank one or none; a relevant change of an approved or      *)
(* published row sends it back to review, with a generated reason unless   *)
(* the request has one.  stored: there is a reason to fall back to (only   *)
(* the content handler has one).                                           *)

Reasons == {"text", "empty", "spaces", "unset"}

HasReason(x, asked, relevant, given, stored) ==
  \/ given = "text" \/ stored
  \/ asked = "unset" /\ requires_re_review(wf[x], relevant) /\ given # "spaces"

(* The ORM writes a column whose value changed: a reason over a reason is  *)
(* new text, no reason over none is not a change.                          *)
WriteReason(rows, has) == [x \in {y \in rows : has \/ reason[y]} |-> has]

ReviewChange(x, asked, relevant, given, stored) ==
  LET target == TargetStatus(wf[x], asked, relevant)
      has == HasReason(x, asked, relevant, given, stored)
  IN  [wf |-> WriteIf(target # wf[x], x, target),
       reason |-> WriteReason(IF target # wf[x] \/ given # "unset" THEN {x} ELSE {}, has)]

ReviewChanges(x, relevant, reasons, stored) ==
  {ReviewChange(x, in.asked, relevant, in.given, stored) :
     in \in {i \in [asked : Requested, given : reasons] :
               validate_workflow_status_change(
                 wf[x], TargetStatus(wf[x], i.asked, relevant),
                 HasReason(x, i.asked, relevant, i.given, stored))}}

AnyReviewChange(x) ==
  UNION {ReviewChanges(x, relevant, Reasons, FALSE) : relevant \in BOOLEAN}

When(cond, updates) == IF cond THEN updates ELSE {}

-----------------------------------------------------------------------------
(* Products (backend/app/api/routers/products.py).                         *)

create_product(p) == When(life[p] = "new", {[NoUpdate EXCEPT !.born = {p}]})

update_product(p) ==
  When(p \in Live,
    {[NoUpdate EXCEPT !.wf = c.wf, !.reason = c.reason] : c \in AnyReviewChange(p)})

delete_product(p) == When(p \in Live, {[NoUpdate EXCEPT !.dead = {p}]})

create_transaction(p) ==
  When(p \in Live, {[NoUpdate EXCEPT !.tx = {<<p, t>>}] : t \in TransactionType})

Linked(p) == {x \in Artifacts \intersect Live : link[x] = p}
(* Slips: published rows are left alone; the workflow table is not asked. *)
UnarchivedUnpublished(rows) == {x \in rows : wf[x] \notin {"archived", "published"}}
AlwaysArchivable(rows) == TRUE

Unarchived(rows) == {x \in rows : wf[x] # "archived"}
CanArchive(rows) ==
  \A x \in Unarchived(rows) :
     validate_workflow_status_change(wf[x], "archived", TRUE)

(* The sweep over everything linked to a product that has been sold.       *)
finalize_product_sale(p, hasReason, u) ==
  [u EXCEPT
     !.stage = [d \in {d \in Linked(p) \intersect Deals : stage[d] # "won"} |-> "won"],
     !.wf = [x \in Unarchived(Linked(p)) |-> "archived"],
     !.reason = WriteReason(Unarchived(Linked(p)), hasReason)]

StatusAccepted(p, target) ==
  /\ \E hasAmount \in BOOLEAN :
       validate_product_status_change(status[p], target, hasAmount)
  /\ target # status[p] =>
       /\ target = "archived" => CanArchive({p})
       /\ target = "sold" => CanArchive(Linked(p))

(* A slip: the sale writes its sweep and loses the booking. *)
SaleUnbooked(p, target, hasReason) ==
  LET moved == [NoUpdate EXCEPT
                  !.status = WriteIf(target # status[p], p, target),
                  !.tx = {<<p, t>> : t \in product_status_side_effect(target) \ {"sale"}}]
  IN  IF target = "sold" /\ target # status[p]
      THEN finalize_product_sale(p, hasReason, moved) ELSE moved

(* A request for the current status books its transaction and changes      *)
(* nothing else.                                                           *)
StatusUpdate(p, target, hasReason) ==
  LET booked == [NoUpdate EXCEPT
                   !.tx = {<<p, t>> : t \in product_status_side_effect(target)}]
      moved == [booked EXCEPT !.status = Write(p, target)]
  IN  IF target = status[p] THEN booked
      ELSE IF target = "sold" THEN finalize_product_sale(p, hasReason, moved)
      ELSE IF target = "archived"
           THEN [moved EXCEPT !.wf = WriteIf(wf[p] # "archived", p, "archived"),
                              !.reason = WriteReason({p}, hasReason)]
      ELSE moved

change_status(p) ==
  When(p \in Live,
    {StatusUpdate(p, target, hasReason) :
       target \in {t \in ProductStatus : StatusAccepted(p, t)}, hasReason \in BOOLEAN})

(* A slip: the age is compared the wrong way round. *)
TooYoung == {p \in Products \intersect Live : status[p] = "sold" /\ ~due[p]}

(* One pass of the auto-archive daemon, or of its manual trigger.          *)
AutoArchivable == {p \in Products \intersect Live : status[p] = "sold" /\ due[p]}

apply_auto_archive_rules ==
  When(AutoArchivable # {},
    {[NoUpdate EXCEPT !.status = [p \in AutoArchivable |-> "archived"]]})

-----------------------------------------------------------------------------
(* Deal drafts (backend/app/services/deal_service.py).  Whether the        *)
(* checklist lets a deal enter a stage is DealDesk's concern: here a       *)
(* request may move a deal to any stage.                                   *)

Linkable == Products \union {None}

(* A deal created by intake starts in any stage and any workflow status    *)
(* the request names.                                                      *)
create_deal_from_email(d) ==
  When(life[d] = "new",
    {[NoUpdate EXCEPT !.born = {d}, !.stage = Write(d, in.stage), !.wf = Write(d, in.wf),
                      !.reason = Write(d, in.reason), !.link = Write(d, in.link)] :
       in \in {i \in [stage : DealDraftStatus, wf : WorkflowStatus,
                      reason : BOOLEAN, link : Linkable] :
                 validate_workflow_status_change(i.wf, i.wf, i.reason)}})

(* A new product is a relevant change, like any other of                   *)
(* DEAL_RE_REVIEW_FIELDS.                                                  *)
DealInputs(d) ==
  {i \in [stage : DealDraftStatus, link : Linkable, relevant : BOOLEAN] :
     i.link # link[d] => i.relevant}

DealWrites(d, in, c) ==
  [NoUpdate EXCEPT !.stage = WriteIf(in.stage # stage[d], d, in.stage),
                   !.link = WriteIf(in.link # link[d], d, in.link),
                   !.wf = c.wf, !.reason = c.reason]

update_deal_draft(d) ==
  When(d \in Live,
    UNION {{DealWrites(d, in, c) : c \in ReviewChanges(d, in.relevant, Reasons, FALSE)} :
             in \in DealInputs(d)})

(* Intake of a thread that has a deal stores a reason only together with a *)
(* new workflow status.                                                    *)
update_deal_from_email(d) ==
  When(d \in Live,
    UNION {{DealWrites(d, in, [c EXCEPT !.reason =
                                 IF DOMAIN c.wf = {} THEN Nothing ELSE c.reason]) :
              c \in ReviewChanges(d, in.relevant, Reasons, FALSE)} :
             in \in DealInputs(d)})

-----------------------------------------------------------------------------
(* Content items (backend/app/services/content_service.py) and assets      *)
(* (backend/app/api/routers/assets.py), as far as a sale sees them.        *)

ProductLinkValid(l) == l = None \/ (l \in Live /\ status[l] # "archived")

create_item(c) ==
  When(life[c] = "new",
    {[NoUpdate EXCEPT !.born = {c}, !.wf = Write(c, in.wf), !.reason = Write(c, in.reason),
                      !.link = Write(c, in.link)] :
       in \in {i \in [wf : WorkflowStatus, reason : BOOLEAN, link : Linkable] :
                 /\ validate_workflow_status_change(i.wf, i.wf, i.reason)
                 /\ ProductLinkValid(i.link)}})

(* The product is validated when the request names it; a new product is a  *)
(* relevant change.                                                        *)
ItemInputs(c) ==
  {i \in [link : Linkable, relevant : BOOLEAN] :
     i.link # link[c] => i.relevant /\ ProductLinkValid(i.link)}

ItemWrites(c, in, r) ==
  [NoUpdate EXCEPT !.link = WriteIf(in.link # link[c], c, in.link),
                   !.wf = r.wf, !.reason = r.reason]

update_item(c) ==
  When(c \in Live,
    UNION {{ItemWrites(c, in, r) :
              r \in ReviewChanges(c, in.relevant, {"text", "unset"}, reason[c])} :
             in \in ItemInputs(c)})

delete_item(c) == When(c \in Live, {[NoUpdate EXCEPT !.dead = {c}]})

(* Nothing checks that the owner of a new asset exists.                    *)
create_asset(a) ==
  When(life[a] = "new",
    {[NoUpdate EXCEPT !.born = {a}, !.link = Write(a, l)] : l \in Linkable})

update_asset(a) ==
  When(a \in Live,
    {[NoUpdate EXCEPT !.wf = c.wf, !.reason = c.reason] : c \in AnyReviewChange(a)})

-----------------------------------------------------------------------------
(* One transaction at a time: a request reads and commits in one step.     *)

Commit(updates) == \E u \in updates : Committable(u) /\ Apply(u)

CreateProduct == \E p \in Products : Commit(create_product(p))
UpdateProduct == \E p \in Products : Commit(update_product(p))
DeleteProduct == \E p \in Products : Commit(delete_product(p))
CreateTransaction == \E p \in Products : Commit(create_transaction(p))
ChangeStatus == \E p \in Products : Commit(change_status(p))
AutoArchive == Commit(apply_auto_archive_rules)
CreateDeal == \E d \in Deals : Commit(create_deal_from_email(d))
UpdateDeal == \E d \in Deals : Commit(update_deal_draft(d))
IntakeDeal == \E d \in Deals : Commit(update_deal_from_email(d))
CreateItem == \E c \in Contents : Commit(create_item(c))
UpdateItem == \E c \in Contents : Commit(update_item(c))
DeleteItem == \E c \in Contents : Commit(delete_item(c))
CreateAsset == \E a \in Assets : Commit(create_asset(a))
UpdateAsset == \E a \in Assets : Commit(update_asset(a))

(* Time passes: a sold product reaches the age the auto-archive rule asks. *)
GrowDue(p) ==
  /\ p \in Live /\ status[p] = "sold" /\ ~due[p]
  /\ due' = [due EXCEPT ![p] = TRUE]
  /\ UNCHANGED <<life, status, ledger, wf, reason, link, stage>>

Next ==
  \/ CreateProduct \/ UpdateProduct \/ DeleteProduct
  \/ CreateTransaction \/ ChangeStatus \/ AutoArchive
  \/ CreateDeal \/ UpdateDeal \/ IntakeDeal
  \/ CreateItem \/ UpdateItem \/ DeleteItem
  \/ CreateAsset \/ UpdateAsset
  \/ \E p \in Products : GrowDue(p)

Spec == Init /\ [][Next]_vars

(* The daemon keeps running after a failed pass, and time does not stop.   *)
FairSpec ==
  Spec /\ WF_vars(AutoArchive) /\ \A p \in Products : WF_vars(GrowDue(p))

-----------------------------------------------------------------------------
(* A product cannot be sold, gifted, returned or broken without the ledger *)
(* saying so: the transaction and the status are written together.         *)
LedgerBacksStatus ==
  \A p \in Products \intersect Live :
    /\ status[p] = "sold" => "sale" \in ledger[p]
    /\ status[p] = "gifted" => "gift" \in ledger[p]
    /\ status[p] = "returned" => "return" \in ledger[p]
    /\ status[p] = "broken" => "repair" \in ledger[p]

(* A row that was approved, rejected or published carries the reason for   *)
(* it, whichever of the handlers decided and whatever was patched since.   *)
DecisionHasReason ==
  \A x \in Live : wf[x] \in WORKFLOW_REVIEW_DECISION_STATES => reason[x]

(* An archived product never changes its status again.                     *)
ArchivedForever ==
  [][\A p \in Products : p \in Live /\ p \in Live' /\ status[p] = "archived"
        => status'[p] = "archived"]_vars

(* An existing row moves through the workflow along the table, whether a   *)
(* request, an automatic re-review or a sale moves it.                     *)
WorkflowStepsAllowed ==
  [][\A x \in Live : wf'[x] # wf[x] => wf'[x] \in WORKFLOW_TRANSITIONS[wf[x]]]_vars

(* The step that sells a product archives everything linked to it and wins *)
(* its deals.                                                              *)
SaleSweepsLinks ==
  [][\A p \in Products : status[p] # "sold" /\ status'[p] = "sold" =>
        \A x \in Artifacts : life'[x] = "live" /\ link'[x] = p =>
           wf'[x] = "archived" /\ (x \in Deals => stage'[x] = "won")]_vars

(* A sold product does not stay sold: unless it is returned or deleted     *)
(* first, the daemon archives it.                                          *)
SoldLeavesInventory ==
  \A p \in Products : (p \in Live /\ status[p] = "sold") ~> (p \notin Live \/ status[p] # "sold")

-----------------------------------------------------------------------------
(* Products keep the promise of ProductLifecycle: what is active, returned *)
(* or broken is in the inventory, and every step of SalesDesk is a step of *)
(* the lifecycle or none.                                                  *)
PlaceOf(p) ==
  CASE life[p] = "new"  -> "unknown"
    [] life[p] = "gone" -> "forgotten"
    [] life[p] = "live" ->
         IF status[p] \in {"active", "returned", "broken"} THEN "inventory" ELSE status[p]

Lifecycle == INSTANCE ProductLifecycle WITH
  Items <- Products, Entries <- TransactionType,
  place <- [p \in Products |-> PlaceOf(p)], books <- ledger

LifecycleKept == Lifecycle!Spec
=============================================================================

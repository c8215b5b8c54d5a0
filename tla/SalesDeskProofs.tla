---------------------------- MODULE SalesDeskProofs ----------------------------
(***************************************************************************)
(* Proofs about SalesDesk and SalesDeskConcurrent for any sets of rows and *)
(* any number of sessions.                                                 *)
(***************************************************************************)
EXTENDS SalesDeskConcurrent, TLAPS

(* What Overlay computes: the new value where there is one. *)
LEMMA OverlayType ==
  ASSUME NEW S, NEW T, NEW old \in [S -> T], NEW new,
         \A x \in DOMAIN new : new[x] \in T
  PROVE  Overlay(old, new) \in [S -> T]
  BY DEF Overlay

(* An update that is well typed keeps the columns typed. *)
LEMMA ApplyType ==
  ASSUME TypeOK, NEW u, WellTyped(u), Apply(u)
  PROVE  TypeOK'
  <1>1. life' \in [Rows -> {"new", "live", "gone"}]
    BY DEF TypeOK, Apply
  <1>2. status' \in [Products -> ProductStatus]
    BY OverlayType DEF TypeOK, Apply, WellTyped, Writes
  <1>3. due' \in [Products -> BOOLEAN]
    BY DEF TypeOK, Apply
  <1>4. ledger' \in [Products -> SUBSET TransactionType]
    BY DEF TypeOK, Apply
  <1>5. wf' \in [Rows -> WorkflowStatus] /\ reason' \in [Rows -> BOOLEAN]
    BY OverlayType DEF TypeOK, Apply, WellTyped, Writes
  <1>6. link' \in [Artifacts -> Products \union {None}]
    <2>1. Overlay(link, u.link) \in [Artifacts -> Products \union {None}]
      BY OverlayType DEF TypeOK, WellTyped, Writes
    <2>2. QED BY <2>1 DEF Apply
  <1>7. stage' \in [Deals -> DealDraftStatus]
    BY OverlayType DEF TypeOK, Apply, WellTyped, Writes
  <1>8. QED BY <1>1, <1>2, <1>3, <1>4, <1>5, <1>6, <1>7 DEF TypeOK

(* An update that books what its statuses ask for keeps every live product *)
(* backed, even if the rows it was decided on have changed since.          *)
LEMMA ApplyLedger ==
  ASSUME TypeOK, LedgerBacksStatus, NEW u, WellTyped(u), Balanced(u),
         Committable(u), Apply(u),
         \A p \in Products : life[p] = "new" => status[p] = "active"
  PROVE  /\ LedgerBacksStatus'
         /\ \A p \in Products : life'[p] = "new" => status'[p] = "active"
  <1> SUFFICES ASSUME NEW p \in Products
               PROVE  /\ p \in Live' =>
                           /\ status'[p] = "sold" => "sale" \in ledger'[p]
                           /\ status'[p] = "gifted" => "gift" \in ledger'[p]
                           /\ status'[p] = "returned" => "return" \in ledger'[p]
                           /\ status'[p] = "broken" => "repair" \in ledger'[p]
                      /\ life'[p] = "new" => status'[p] = "active"
    BY DEF LedgerBacksStatus
  <1>1. p \in Rows /\ life'[p] = IF p \in u.dead THEN "gone"
                                 ELSE IF p \in u.born THEN "live" ELSE life[p]
    BY DEF Apply, Rows
  <1>2. p \notin u.dead =>
          ledger'[p] = ledger[p] \union {t \in TransactionType : <<p, t>> \in u.tx}
    BY DEF Apply
  <1>3. CASE p \in DOMAIN u.status
    <2>1. status'[p] = u.status[p]
      BY <1>3 DEF Apply, Overlay, TypeOK
    <2>2. p \in Live \/ p \in u.born
      BY <1>3 DEF Committable, WrittenRows
    <2>3. \A t \in product_status_side_effect(status'[p]) : <<p, t>> \in u.tx
      BY <1>3, <2>1 DEF Balanced
    <2>4. QED BY <1>1, <1>2, <2>2, <2>3 DEF Live, product_status_side_effect, TransactionType
  <1>4. CASE p \notin DOMAIN u.status
    <2>1. status'[p] = status[p]
      BY <1>4 DEF Apply, Overlay, TypeOK
    <2>2. p \in u.born => life[p] = "new"
      BY DEF Committable
    <2>3. QED BY <1>1, <1>2, <2>1, <2>2 DEF Live, LedgerBacksStatus
  <1>5. QED BY <1>3, <1>4
-----------------------------------------------------------------------------
(* Every handler offers only such updates.  An update that moves no status *)
(* is balanced; the empty one is typed.                                    *)
Safe(u) == WellTyped(u) /\ Balanced(u)

LEMMA NothingWritten ==
  ASSUME NEW rows, NEW values
  PROVE  Writes(Nothing, rows, values)
  BY DEF Nothing, Writes

LEMMA WriteWrites ==
  ASSUME NEW rows, NEW values, NEW x \in rows, NEW v \in values
  PROVE  Writes(Write(x, v), rows, values)
  BY DEF Write, Writes

LEMMA WriteIfWrites ==
  ASSUME NEW rows, NEW values, NEW x \in rows, NEW v, NEW c \in BOOLEAN, c => v \in values
  PROVE  Writes(WriteIf(c, x, v), rows, values)
  BY DEF WriteIf, Writes

LEMMA WriteReasonWrites ==
  ASSUME NEW rows \in SUBSET Rows, NEW has \in BOOLEAN
  PROVE  Writes(WriteReason(rows, has), Rows, BOOLEAN)
  BY DEF WriteReason, Writes

(* An update that writes no status owes no transaction. *)
LEMMA StatusFree ==
  ASSUME NEW u, u.status = Nothing,
         Writes(u.wf, Rows, WorkflowStatus), Writes(u.reason, Rows, BOOLEAN),
         Writes(u.link, Artifacts, Products \union {None}),
         Writes(u.stage, Deals, DealDraftStatus)
  PROVE  Safe(u)
  BY NothingWritten DEF Safe, WellTyped, Balanced, Nothing

(* The workflow part of a PATCH is typed, whatever the request asks. *)
LEMMA ReviewChangeTyped ==
  ASSUME TypeOK, NEW x \in Rows, NEW relevant \in BOOLEAN, NEW given,
         NEW reasons, NEW stored \in BOOLEAN,
         NEW c \in ReviewChanges(x, relevant, reasons, stored)
  PROVE  Writes(c.wf, Rows, WorkflowStatus) /\ Writes(c.reason, Rows, BOOLEAN)
  <1>1. PICK asked \in Requested, given1 \in reasons :
          c = ReviewChange(x, asked, relevant, given1, stored)
    BY DEF ReviewChanges
  <1> DEFINE target == TargetStatus(wf[x], asked, relevant)
             has == HasReason(x, asked, relevant, given1, stored)
  <1>2. target \in WorkflowStatus
    BY DEF TargetStatus, Requested, WorkflowStatus, TypeOK
  <1>3. has \in BOOLEAN
    BY DEF HasReason
  <1>4. Writes(WriteIf(target # wf[x], x, target), Rows, WorkflowStatus)
    BY <1>2, WriteIfWrites
  <1>5. Writes(WriteReason(IF target # wf[x] \/ given1 # "unset" THEN {x} ELSE {}, has),
               Rows, BOOLEAN)
    BY <1>3, WriteReasonWrites
  <1>6. QED BY <1>1, <1>4, <1>5 DEF ReviewChange

LEMMA AnyReviewChangeTyped ==
  ASSUME TypeOK, NEW x \in Rows, NEW c \in AnyReviewChange(x)
  PROVE  Writes(c.wf, Rows, WorkflowStatus) /\ Writes(c.reason, Rows, BOOLEAN)
  <1>1. PICK relevant \in BOOLEAN : c \in ReviewChanges(x, relevant, Reasons, FALSE)
    BY DEF AnyReviewChange
  <1>2. QED BY <1>1, ReviewChangeTyped

(* The PATCH handlers of products and assets write a review change only.   *)
LEMMA ReviewOnlySafe ==
  ASSUME TypeOK, NEW x \in Rows, NEW c \in AnyReviewChange(x)
  PROVE  Safe([NoUpdate EXCEPT !.wf = c.wf, !.reason = c.reason])
  <1> DEFINE u == [NoUpdate EXCEPT !.wf = c.wf, !.reason = c.reason]
  <1>1. u.status = Nothing /\ u.link = Nothing /\ u.stage = Nothing
        /\ u.wf = c.wf /\ u.reason = c.reason
    BY DEF NoUpdate
  <1> HIDE DEF u
  <1>2. Safe(u)
    BY <1>1, AnyReviewChangeTyped, NothingWritten, StatusFree
  <1>3. QED BY <1>2 DEF u

(* Updates that insert or delete rows, or book, and write no column.       *)
LEMMA RowOnlySafe ==
  ASSUME NEW u, u.status = Nothing, u.wf = Nothing, u.reason = Nothing,
         u.link = Nothing, u.stage = Nothing
  PROVE  Safe(u)
  BY NothingWritten, StatusFree

(* The sale: the sweep writes linked rows, and the sale is booked with it. *)
LEMMA StatusUpdateSafe ==
  ASSUME TypeOK, NEW p \in Products, NEW target \in ProductStatus, NEW hasReason \in BOOLEAN
  PROVE  Safe(StatusUpdate(p, target, hasReason))
  <1> DEFINE u == StatusUpdate(p, target, hasReason)
             due_tx == {<<p, t>> : t \in product_status_side_effect(target)}
  <1>1. CASE target = status[p]
    <2>1. u = [NoUpdate EXCEPT !.tx = due_tx]
      BY <1>1 DEF StatusUpdate
    <2>2. QED BY <2>1, RowOnlySafe DEF NoUpdate
  <1>2. CASE target # status[p]
    <2>1. u.status = Write(p, target) /\ u.tx = due_tx /\ u.link = Nothing
      BY <1>2 DEF StatusUpdate, finalize_product_sale, NoUpdate
    <2>2. Balanced(u)
      BY <2>1 DEF Balanced, Write
    <2>3. p \in Rows /\ \A x \in Linked(p) : x \in Rows
      BY DEF Rows, Linked, Live
    <2>4. Writes(u.wf, Rows, WorkflowStatus) /\ Writes(u.reason, Rows, BOOLEAN)
      <3>1. CASE target = "sold"
        <4>1. u.wf = [x \in Unarchived(Linked(p)) |-> "archived"]
              /\ u.reason = WriteReason(Unarchived(Linked(p)), hasReason)
          BY <1>2, <3>1 DEF StatusUpdate, finalize_product_sale, NoUpdate
        <4>2. Unarchived(Linked(p)) \subseteq Rows
          BY <2>3 DEF Unarchived
        <4>3. QED BY <4>1, <4>2, WriteReasonWrites DEF Writes, WorkflowStatus
      <3>2. CASE target = "archived"
        <4>1. u.wf = WriteIf(wf[p] # "archived", p, "archived")
              /\ u.reason = WriteReason({p}, hasReason)
          BY <1>2, <3>2 DEF StatusUpdate, NoUpdate
        <4>2. QED BY <4>1, <2>3, WriteIfWrites, WriteReasonWrites DEF WorkflowStatus
      <3>3. CASE target \notin {"sold", "archived"}
        <4>1. u.wf = Nothing /\ u.reason = Nothing
          BY <1>2, <3>3 DEF StatusUpdate, NoUpdate
        <4>2. QED BY <4>1, NothingWritten
      <3>4. QED BY <3>1, <3>2, <3>3
    <2>5. Writes(u.stage, Deals, DealDraftStatus)
      <3>1. CASE target = "sold"
        <4>1. u.stage = [d \in {d \in Linked(p) \intersect Deals : stage[d] # "won"} |-> "won"]
          BY <1>2, <3>1 DEF StatusUpdate, finalize_product_sale, NoUpdate
        <4>2. QED BY <4>1 DEF Writes, DealDraftStatus
      <3>2. CASE target # "sold"
        <4>1. u.stage = Nothing
          BY <1>2, <3>2 DEF StatusUpdate, NoUpdate
        <4>2. QED BY <4>1, NothingWritten
      <3>3. QED BY <3>1, <3>2
    <2>6. Writes(u.status, Products, ProductStatus)
      BY <2>1, WriteWrites
    <2>7. Writes(u.link, Artifacts, Products \union {None})
      BY <2>1, NothingWritten
    <2>8. QED BY <2>2, <2>4, <2>5, <2>6, <2>7 DEF Safe, WellTyped
  <1>3. QED BY <1>1, <1>2

LEMMA ProductUpdatesSafe ==
  ASSUME TypeOK, NEW p \in Products, NEW u \in ProductUpdates(p)
  PROVE  Safe(u)
  <1> p \in Rows
    BY DEF Rows
  <1>1. CASE u \in create_product(p)
    BY <1>1, RowOnlySafe DEF create_product, When, NoUpdate
  <1>2. CASE u \in update_product(p)
    BY <1>2, ReviewOnlySafe DEF update_product, When
  <1>3. CASE u \in delete_product(p)
    BY <1>3, RowOnlySafe DEF delete_product, When, NoUpdate
  <1>4. CASE u \in create_transaction(p)
    BY <1>4, RowOnlySafe DEF create_transaction, When, NoUpdate
  <1>5. CASE u \in change_status(p)
    BY <1>5, StatusUpdateSafe DEF change_status, When
  <1>6. QED BY <1>1, <1>2, <1>3, <1>4, <1>5 DEF ProductUpdates

(* The daemon writes "archived", a status that owes nothing.               *)
LEMMA AutoArchiveSafe ==
  ASSUME TypeOK, NEW u \in apply_auto_archive_rules
  PROVE  Safe(u)
  <1>1. u = [NoUpdate EXCEPT !.status = [p \in AutoArchivable |-> "archived"]]
    BY DEF apply_auto_archive_rules, When
  <1>2. /\ u.status = [p \in AutoArchivable |-> "archived"]
        /\ u.wf = Nothing /\ u.reason = Nothing /\ u.link = Nothing /\ u.stage = Nothing
    BY <1>1 DEF NoUpdate
  <1>3. Balanced(u)
    BY <1>2 DEF Balanced, product_status_side_effect
  <1>4. Writes(u.status, Products, ProductStatus)
    BY <1>2 DEF Writes, AutoArchivable, ProductStatus
  <1>5. QED BY <1>2, <1>3, <1>4, NothingWritten DEF Safe, WellTyped

LEMMA DealWritesSafe ==
  ASSUME TypeOK, NEW d \in Deals, NEW in \in DealInputs(d), NEW c,
         Writes(c.wf, Rows, WorkflowStatus), Writes(c.reason, Rows, BOOLEAN)
  PROVE  Safe(DealWrites(d, in, c))
  <1> DEFINE u == DealWrites(d, in, c)
  <1>1. /\ u.status = Nothing /\ u.wf = c.wf /\ u.reason = c.reason
        /\ u.stage = WriteIf(in.stage # stage[d], d, in.stage)
        /\ u.link = WriteIf(in.link # link[d], d, in.link)
    BY DEF DealWrites, NoUpdate
  <1>2. in.stage \in DealDraftStatus /\ in.link \in Products \union {None} /\ d \in Artifacts
    BY DEF DealInputs, Linkable, Artifacts
  <1>3. Writes(u.stage, Deals, DealDraftStatus)
    BY <1>1, <1>2, WriteIfWrites
  <1>4. Writes(u.link, Artifacts, Products \union {None})
    BY <1>1, <1>2, WriteIfWrites
  <1>5. QED BY <1>1, <1>3, <1>4, StatusFree

LEMMA DealUpdatesSafe ==
  ASSUME TypeOK, NEW d \in Deals, NEW u \in DealUpdates(d)
  PROVE  Safe(u)
  <1> d \in Rows /\ d \in Artifacts
    BY DEF Rows, Artifacts
  <1>1. CASE u \in create_deal_from_email(d)
    <2>1. PICK in \in [stage : DealDraftStatus, wf : WorkflowStatus,
                       reason : BOOLEAN, link : Linkable] :
            u = [NoUpdate EXCEPT !.born = {d}, !.stage = Write(d, in.stage),
                                 !.wf = Write(d, in.wf), !.reason = Write(d, in.reason),
                                 !.link = Write(d, in.link)]
      BY <1>1 DEF create_deal_from_email, When
    <2>2. u.status = Nothing /\ u.stage = Write(d, in.stage) /\ u.wf = Write(d, in.wf)
          /\ u.reason = Write(d, in.reason) /\ u.link = Write(d, in.link)
      BY <2>1 DEF NoUpdate
    <2>3. QED BY <2>2, WriteWrites, StatusFree DEF Linkable
  <1>2. CASE u \in update_deal_draft(d)
    <2>1. PICK in \in DealInputs(d) :
            \E c \in ReviewChanges(d, in.relevant, Reasons, FALSE) : u = DealWrites(d, in, c)
      BY <1>2 DEF update_deal_draft, When
    <2>2. in.relevant \in BOOLEAN
      BY DEF DealInputs
    <2>3. QED BY <2>1, <2>2, ReviewChangeTyped, DealWritesSafe
  <1>3. CASE u \in update_deal_from_email(d)
    <2>1. PICK in \in DealInputs(d) :
            \E c \in ReviewChanges(d, in.relevant, Reasons, FALSE) :
              u = DealWrites(d, in, [c EXCEPT !.reason =
                                       IF DOMAIN c.wf = {} THEN Nothing ELSE c.reason])
      BY <1>3 DEF update_deal_from_email, When
    <2>2. PICK c \in ReviewChanges(d, in.relevant, Reasons, FALSE) :
            u = DealWrites(d, in, [c EXCEPT !.reason =
                                     IF DOMAIN c.wf = {} THEN Nothing ELSE c.reason])
      BY <2>1
    <2> DEFINE e == [c EXCEPT !.reason = IF DOMAIN c.wf = {} THEN Nothing ELSE c.reason]
    <2>3. Writes(c.wf, Rows, WorkflowStatus) /\ Writes(c.reason, Rows, BOOLEAN)
      BY ReviewChangeTyped DEF DealInputs
    <2>4. \E f, g : c = [wf |-> f, reason |-> g]
      BY DEF ReviewChanges, ReviewChange
    <2>5. e.wf = c.wf /\ e.reason \in {Nothing, c.reason}
      BY <2>4
    <2>6. Writes(e.wf, Rows, WorkflowStatus) /\ Writes(e.reason, Rows, BOOLEAN)
      BY <2>3, <2>5, NothingWritten
    <2>7. QED BY <2>2, <2>6, DealWritesSafe
  <1>4. QED BY <1>1, <1>2, <1>3 DEF DealUpdates

LEMMA ItemUpdatesSafe ==
  ASSUME TypeOK, NEW c \in Contents, NEW u \in ItemUpdates(c)
  PROVE  Safe(u)
  <1> c \in Rows /\ c \in Artifacts
    BY DEF Rows, Artifacts
  <1>1. CASE u \in create_item(c)
    <2>1. PICK in \in [wf : WorkflowStatus, reason : BOOLEAN, link : Linkable] :
            u = [NoUpdate EXCEPT !.born = {c}, !.wf = Write(c, in.wf),
                                 !.reason = Write(c, in.reason), !.link = Write(c, in.link)]
      BY <1>1 DEF create_item, When
    <2>2. u.status = Nothing /\ u.stage = Nothing /\ u.wf = Write(c, in.wf)
          /\ u.reason = Write(c, in.reason) /\ u.link = Write(c, in.link)
      BY <2>1 DEF NoUpdate
    <2>3. QED BY <2>2, WriteWrites, NothingWritten, StatusFree DEF Linkable
  <1>2. CASE u \in update_item(c)
    <2>1. PICK in \in ItemInputs(c) :
            \E r \in ReviewChanges(c, in.relevant, {"text", "unset"}, reason[c]) :
              u = ItemWrites(c, in, r)
      BY <1>2 DEF update_item, When
    <2>2. PICK r \in ReviewChanges(c, in.relevant, {"text", "unset"}, reason[c]) :
            u = ItemWrites(c, in, r)
      BY <2>1
    <2>3. u.status = Nothing /\ u.stage = Nothing /\ u.wf = r.wf /\ u.reason = r.reason
          /\ u.link = WriteIf(in.link # link[c], c, in.link)
      BY <2>2 DEF ItemWrites, NoUpdate
    <2>4. reason[c] \in BOOLEAN /\ in.relevant \in BOOLEAN /\ in.link \in Products \union {None}
      BY DEF TypeOK, ItemInputs, Linkable
    <2>5. Writes(r.wf, Rows, WorkflowStatus) /\ Writes(r.reason, Rows, BOOLEAN)
      BY <2>4, ReviewChangeTyped
    <2>6. Writes(u.link, Artifacts, Products \union {None})
      <3>1. c \in Artifacts /\ in.link \in Products \union {None} /\ (in.link # link[c]) \in BOOLEAN
        BY <2>4
      <3>2. Writes(WriteIf(in.link # link[c], c, in.link), Artifacts, Products \union {None})
        BY ONLY <3>1, WriteIfWrites
      <3>3. QED BY <2>3, <3>2
    <2>7. QED BY <2>3, <2>5, <2>6, NothingWritten, StatusFree
  <1>3. CASE u \in delete_item(c)
    BY <1>3, RowOnlySafe DEF delete_item, When, NoUpdate
  <1>4. QED BY <1>1, <1>2, <1>3 DEF ItemUpdates

LEMMA AssetUpdatesSafe ==
  ASSUME TypeOK, NEW a \in Assets, NEW u \in AssetUpdates(a)
  PROVE  Safe(u)
  <1> a \in Rows /\ a \in Artifacts
    BY DEF Rows, Artifacts
  <1>1. CASE u \in create_asset(a)
    <2>1. PICK l \in Linkable : u = [NoUpdate EXCEPT !.born = {a}, !.link = Write(a, l)]
      BY <1>1 DEF create_asset, When
    <2>2. u.status = Nothing /\ u.wf = Nothing /\ u.reason = Nothing /\ u.stage = Nothing
          /\ u.link = Write(a, l)
      BY <2>1 DEF NoUpdate
    <2>3. QED BY <2>2, WriteWrites, NothingWritten, StatusFree DEF Linkable
  <1>2. CASE u \in update_asset(a)
    BY <1>2, ReviewOnlySafe DEF update_asset, When
  <1>3. QED BY <1>1, <1>2 DEF AssetUpdates

-----------------------------------------------------------------------------
(* One step of SalesDesk that commits a safe update, and the passing of    *)
(* time, keep the committed part of the invariant.                         *)
Committed ==
  /\ TypeOK
  /\ LedgerBacksStatus
  /\ \A p \in Products : life[p] = "new" => status[p] = "active"

LEMMA ApplyKeeps ==
  ASSUME Committed, NEW u, Safe(u), Committable(u), Apply(u)
  PROVE  Committed'
  <1>1. TypeOK /\ LedgerBacksStatus /\ WellTyped(u) /\ Balanced(u)
        /\ \A p \in Products : life[p] = "new" => status[p] = "active"
    BY DEF Committed, Safe
  <1>2. TypeOK'
    BY <1>1, ApplyType
  <1>3. LedgerBacksStatus' /\ \A p \in Products : life'[p] = "new" => status'[p] = "active"
    BY <1>1, ApplyLedger
  <1>4. QED BY <1>2, <1>3 DEF Committed

LEMMA GrowDueKeeps ==
  ASSUME Committed, NEW p \in Products, GrowDue(p)
  PROVE  Committed'
  <1>1. TypeOK'
    BY DEF Committed, GrowDue, TypeOK
  <1>2. LedgerBacksStatus'
    BY DEF Committed, GrowDue, LedgerBacksStatus, Live
  <1>3. QED BY <1>1, <1>2 DEF Committed, GrowDue

LEMMA InitCommitted == Init => Committed
  <1> SUFFICES ASSUME Init PROVE Committed
    OBVIOUS
  <1>1. TypeOK
    BY DEF Init, TypeOK, ProductStatus, WorkflowStatus, DealDraftStatus
  <1>2. LedgerBacksStatus
    BY DEF Init, LedgerBacksStatus
  <1>3. QED BY <1>1, <1>2 DEF Committed, Init

LEMMA StutterKeeps == Committed /\ UNCHANGED vars => Committed'
  BY DEF Committed, vars, TypeOK, LedgerBacksStatus, Live

LEMMA NextKeeps ==
  ASSUME Committed, Next
  PROVE  Committed'
  <1> TypeOK
    BY DEF Committed
  <1>1. CASE CreateProduct \/ UpdateProduct \/ DeleteProduct \/ CreateTransaction \/ ChangeStatus
    <2>1. PICK p \in Products : \E u \in ProductUpdates(p) : Committable(u) /\ Apply(u)
      BY <1>1 DEF CreateProduct, UpdateProduct, DeleteProduct, CreateTransaction,
                  ChangeStatus, Commit, ProductUpdates
    <2>2. QED BY <2>1, ProductUpdatesSafe, ApplyKeeps
  <1>2. CASE AutoArchive
    BY <1>2, AutoArchiveSafe, ApplyKeeps DEF AutoArchive, Commit
  <1>3. CASE CreateDeal \/ UpdateDeal \/ IntakeDeal
    <2>1. PICK d \in Deals : \E u \in DealUpdates(d) : Committable(u) /\ Apply(u)
      BY <1>3 DEF CreateDeal, UpdateDeal, IntakeDeal, Commit, DealUpdates
    <2>2. QED BY <2>1, DealUpdatesSafe, ApplyKeeps
  <1>4. CASE CreateItem \/ UpdateItem \/ DeleteItem
    <2>1. PICK c \in Contents : \E u \in ItemUpdates(c) : Committable(u) /\ Apply(u)
      BY <1>4 DEF CreateItem, UpdateItem, DeleteItem, Commit, ItemUpdates
    <2>2. QED BY <2>1, ItemUpdatesSafe, ApplyKeeps
  <1>5. CASE CreateAsset \/ UpdateAsset
    <2>1. PICK a \in Assets : \E u \in AssetUpdates(a) : Committable(u) /\ Apply(u)
      BY <1>5 DEF CreateAsset, UpdateAsset, Commit, AssetUpdates
    <2>2. QED BY <2>1, AssetUpdatesSafe, ApplyKeeps
  <1>6. CASE \E p \in Products : GrowDue(p)
    BY <1>6, GrowDueKeeps
  <1>7. QED BY <1>1, <1>2, <1>3, <1>4, <1>5, <1>6 DEF Next

(* SalesDesk: whatever is requested, one transaction at a time, columns    *)
(* stay typed and the ledger backs every status.                           *)
THEOREM SerialSafety == Spec => [](TypeOK /\ LedgerBacksStatus)
  <1>1. Init => Committed
    BY InitCommitted
  <1>2. Committed /\ [Next]_vars => Committed'
    BY NextKeeps, StutterKeeps
  <1>3. Committed => TypeOK /\ LedgerBacksStatus
    BY DEF Committed
  <1>4. QED BY <1>1, <1>2, <1>3, PTL DEF Spec

-----------------------------------------------------------------------------
(* What a transaction decided on the rows as they are makes of a row's     *)
(* workflow: a step of the table, and a reason wherever it is decided.     *)
After(column, new, x) == IF x \in DOMAIN new THEN new[x] ELSE column[x]

Justified(x, c) ==
  After(wf, c.wf, x) \in WORKFLOW_REVIEW_DECISION_STATES =>
    IF x \in DOMAIN c.reason THEN c.reason[x] = TRUE ELSE reason[x] = TRUE

Moves(x, c) ==
  /\ DOMAIN c.wf \subseteq {x} /\ DOMAIN c.reason \subseteq {x}
  /\ x \in DOMAIN c.wf => c.wf[x] \in WORKFLOW_TRANSITIONS[wf[x]]
  /\ Justified(x, c)

Reasoned(u) == \A x \in DOMAIN u.wf \union DOMAIN u.reason : Justified(x, u)
Allowed(u) == \A x \in DOMAIN u.wf : x \in u.born \/ u.wf[x] \in WORKFLOW_TRANSITIONS[wf[x]]

(* A sale of p takes what is linked to it along.                           *)
Sweeps(u, p) ==
  /\ u.born = {} /\ u.dead = {} /\ u.link = Nothing
  /\ \A x \in Linked(p) : After(wf, u.wf, x) = "archived" /\ (x \in Deals => After(stage, u.stage, x) = "won")
SaleSweeps(u) == \A p \in DOMAIN u.status : u.status[p] = "sold" => Sweeps(u, p)

(* Where a product goes: nowhere, into the tables or out of them, along    *)
(* the status machine with its booking, or to the archive by its age.      *)
Stays(u) == u.status = Nothing /\ (u.born \union u.dead) \intersect Products = {} /\ u.tx = {}
Arrives(u) == \E p \in Products : u.status = Nothing /\ u.born = {p} /\ u.dead = {} /\ u.tx = {}
Departs(u) == \E p \in Products :
                p \in Live /\ u.status = Nothing /\ u.born = {} /\ u.dead = {p} /\ u.tx = {}
Books(u) == \E p \in Products, t \in TransactionType :
              p \in Live /\ u.status = Nothing /\ u.born = {} /\ u.dead = {} /\ u.tx = {<<p, t>>}
Changes(u) ==
  \E p \in Products, target \in ProductStatus :
    /\ p \in Live /\ target \in PRODUCT_STATUS_TRANSITIONS[status[p]]
    /\ u.status = Write(p, target) /\ u.born = {} /\ u.dead = {}
    /\ u.tx = {<<p, t>> : t \in product_status_side_effect(target)}
Ages(u) ==
  /\ u.status = [p \in AutoArchivable |-> "archived"]
  /\ u.born = {} /\ u.dead = {} /\ u.tx = {}
Travels(u) == Stays(u) \/ Arrives(u) \/ Departs(u) \/ Books(u) \/ Changes(u) \/ Ages(u)

Orderly(u) == Reasoned(u) /\ Allowed(u) /\ SaleSweeps(u) /\ Travels(u)

Reviewed ==
  /\ \A x \in Rows : life[x] = "new" => wf[x] = "draft"
  /\ DecisionHasReason

LEMMA ReviewChangeMoves ==
  ASSUME TypeOK, DecisionHasReason, NEW x \in Live, NEW relevant \in BOOLEAN, NEW reasons,
         NEW stored \in BOOLEAN, NEW c \in ReviewChanges(x, relevant, reasons, stored)
  PROVE  Moves(x, c)
  <1>1. PICK asked \in Requested, given \in reasons :
          /\ validate_workflow_status_change(wf[x], TargetStatus(wf[x], asked, relevant),
                                             HasReason(x, asked, relevant, given, stored))
          /\ c = ReviewChange(x, asked, relevant, given, stored)
    BY DEF ReviewChanges
  <1>2. PICK target, has : /\ target = TargetStatus(wf[x], asked, relevant)
                           /\ has = HasReason(x, asked, relevant, given, stored)
    OBVIOUS
  <1>3. has \in BOOLEAN
    BY <1>2 DEF HasReason
  <1>4. PICK rows : rows = IF target # wf[x] \/ given # "unset" THEN {x} ELSE {}
    OBVIOUS
  <1>5. c.wf = WriteIf(target # wf[x], x, target) /\ c.reason = WriteReason(rows, has)
    BY <1>1, <1>2, <1>4 DEF ReviewChange
  <1>6. /\ wf[x] = target \/ target \in WORKFLOW_TRANSITIONS[wf[x]]
        /\ target \in WORKFLOW_REVIEW_DECISION_STATES => has
    BY <1>1, <1>2 DEF validate_workflow_status_change
  <1>7. DOMAIN c.wf = (IF target # wf[x] THEN {x} ELSE {}) /\ (x \in DOMAIN c.wf => c.wf[x] = target)
    BY <1>5 DEF WriteIf
  <1>8. /\ DOMAIN c.reason = {y \in rows : has \/ reason[y]}
        /\ \A y \in DOMAIN c.reason : c.reason[y] = has
    BY <1>5 DEF WriteReason
  <1>9. After(wf, c.wf, x) = target
    BY <1>7 DEF After
  <1>10. ASSUME target \in WORKFLOW_REVIEW_DECISION_STATES
         PROVE  IF x \in DOMAIN c.reason THEN c.reason[x] = TRUE ELSE reason[x] = TRUE
    <2>1. has = TRUE
      BY <1>3, <1>6, <1>10
    <2>2. CASE x \in rows
      BY <1>8, <2>1, <2>2
    <2>3. CASE x \notin rows
      <3>1. x \notin DOMAIN c.reason /\ wf[x] = target
        BY <1>4, <1>8, <2>3
      <3>2. reason[x] /\ reason[x] \in BOOLEAN
        BY <1>10, <3>1 DEF DecisionHasReason, TypeOK, Live
      <3> QED
        BY <3>1, <3>2
    <2> QED
      BY <2>2, <2>3
  <1>11. DOMAIN c.wf \subseteq {x} /\ DOMAIN c.reason \subseteq {x}
    BY <1>4, <1>7, <1>8
  <1> QED
    BY <1>6, <1>7, <1>9, <1>10, <1>11 DEF Moves, Justified

(* A PATCH writes the workflow columns of its row, and no status.          *)
LEMMA PatchOrderly ==
  ASSUME NEW x, NEW c, Moves(x, c), NEW u, u.wf = c.wf, u.reason = c.reason, Stays(u)
  PROVE  Orderly(u)
  <1>1. Reasoned(u)
    BY DEF Moves, Reasoned, Justified, After
  <1>2. Allowed(u)
    BY DEF Moves, Allowed
  <1>3. SaleSweeps(u)
    BY DEF Stays, SaleSweeps, Nothing
  <1> QED
    BY <1>1, <1>2, <1>3 DEF Orderly, Travels

(* Rows that come and go, and bookings, write no column.                   *)
LEMMA QuietOrderly ==
  ASSUME NEW u, u.status = Nothing, u.wf = Nothing, u.reason = Nothing,
         Stays(u) \/ Arrives(u) \/ Departs(u) \/ Books(u)
  PROVE  Orderly(u)
  BY DEF Orderly, Reasoned, Allowed, SaleSweeps, Travels, Nothing

(* A new row may be inserted in any status, with the reason it asks for.   *)
LEMMA InsertOrderly ==
  ASSUME NEW x \in Artifacts, NEW w, NEW has \in BOOLEAN, validate_workflow_status_change(w, w, has),
         NEW u, u.wf = Write(x, w), u.reason = Write(x, has), u.born = {x}, Stays(u)
  PROVE  Orderly(u)
  <1>1. Justified(x, u)
    BY DEF Justified, After, Write, validate_workflow_status_change
  <1> QED
    BY <1>1 DEF Orderly, Reasoned, Allowed, SaleSweeps, Travels, Stays, Nothing, Write

LEMMA StatusUpdateOrderly ==
  ASSUME TypeOK, NEW p \in Products \intersect Live, NEW target \in ProductStatus, NEW has \in BOOLEAN,
         StatusAccepted(p, target), NEW u, u = StatusUpdate(p, target, has)
  PROVE  Orderly(u)
  <1>1. p \in Rows /\ Linked(p) \subseteq Rows /\ p \notin Linked(p)
    BY IdsAreDistinct DEF Rows, Linked, Live
  <1>2. PICK tx : tx = {<<p, t>> : t \in product_status_side_effect(target)}
    OBVIOUS
  <1>3. CASE target = status[p]
    <2>1. u.status = Nothing /\ u.wf = Nothing /\ u.reason = Nothing /\ u.born = {} /\ u.dead = {} /\ u.tx = tx
      BY <1>2, <1>3 DEF StatusUpdate, NoUpdate
    <2>2. tx = {} \/ \E t \in TransactionType : tx = {<<p, t>>}
      BY <1>2 DEF product_status_side_effect, TransactionType
    <2>3. Stays(u) \/ Books(u)
      BY <2>1, <2>2 DEF Stays, Books
    <2> QED
      BY <2>1, <2>3, QuietOrderly
  <1>4. CASE target # status[p]
    <2>1. u.status = Write(p, target) /\ u.tx = tx /\ u.link = Nothing /\ u.born = {} /\ u.dead = {}
      BY <1>2, <1>4 DEF StatusUpdate, finalize_product_sale, NoUpdate
    <2>2. target \in PRODUCT_STATUS_TRANSITIONS[status[p]]
      BY <1>4 DEF StatusAccepted, validate_product_status_change
    <2>3. Travels(u)
      BY <1>2, <2>1, <2>2 DEF Travels, Changes
    <2>4. CASE target = "sold"
      <3>1. /\ u.stage = [d \in {d \in Linked(p) \intersect Deals : stage[d] # "won"} |-> "won"]
            /\ u.wf = [x \in Unarchived(Linked(p)) |-> "archived"]
            /\ u.reason = WriteReason(Unarchived(Linked(p)), has)
        BY <1>4, <2>4 DEF StatusUpdate, finalize_product_sale, NoUpdate
      <3>2. CanArchive(Linked(p))
        BY <1>4, <2>4 DEF StatusAccepted
      <3>3. DOMAIN u.reason \subseteq DOMAIN u.wf
        BY <3>1 DEF WriteReason
      <3>4. Reasoned(u)
        BY <3>1, <3>3 DEF Reasoned, Justified, After, WORKFLOW_REVIEW_DECISION_STATES
      <3>5. Allowed(u)
        BY <3>1, <3>2 DEF Allowed, CanArchive, validate_workflow_status_change, Unarchived
      <3>6. SaleSweeps(u)
        BY <2>1, <3>1 DEF SaleSweeps, Sweeps, After, Unarchived, Write
      <3> QED
        BY <2>3, <3>4, <3>5, <3>6 DEF Orderly
    <2>5. CASE target = "archived"
      <3>1. u.wf = WriteIf(wf[p] # "archived", p, "archived") /\ u.reason = WriteReason({p}, has)
        BY <1>4, <2>5 DEF StatusUpdate, NoUpdate
      <3>2. CanArchive({p})
        BY <1>4, <2>5 DEF StatusAccepted
      <3>3. DOMAIN u.reason \subseteq {p} /\ DOMAIN u.wf \subseteq {p}
        BY <3>1 DEF WriteReason, WriteIf
      <3>4. After(wf, u.wf, p) = "archived"
        BY <3>1 DEF After, WriteIf
      <3>5. Reasoned(u)
        BY <3>3, <3>4 DEF Reasoned, Justified, WORKFLOW_REVIEW_DECISION_STATES
      <3>6. Allowed(u)
        BY <3>1, <3>2, <3>3 DEF Allowed, CanArchive, validate_workflow_status_change, Unarchived, WriteIf
      <3>7. SaleSweeps(u)
        BY <2>1, <2>5 DEF SaleSweeps, Write
      <3> QED
        BY <2>3, <3>5, <3>6, <3>7 DEF Orderly
    <2>6. CASE target \notin {"sold", "archived"}
      <3>1. u.wf = Nothing /\ u.reason = Nothing
        BY <1>4, <2>6 DEF StatusUpdate, NoUpdate
      <3>2. SaleSweeps(u)
        BY <2>1, <2>6 DEF SaleSweeps, Write
      <3> QED
        BY <2>3, <3>1, <3>2 DEF Orderly, Reasoned, Allowed, Nothing
    <2> QED
      BY <2>4, <2>5, <2>6
  <1> QED
    BY <1>3, <1>4

LEMMA ReviewOnlyOrderly ==
  ASSUME TypeOK, DecisionHasReason, NEW x \in Live, NEW c \in AnyReviewChange(x),
         NEW u, u = [NoUpdate EXCEPT !.wf = c.wf, !.reason = c.reason]
  PROVE  Orderly(u)
<1>1. PICK relevant \in BOOLEAN : c \in ReviewChanges(x, relevant, Reasons, FALSE)
  BY DEF AnyReviewChange
<1>2. Moves(x, c)
  BY <1>1, ReviewChangeMoves
<1>3. u.wf = c.wf /\ u.reason = c.reason /\ Stays(u)
  BY DEF NoUpdate, Stays
<1> QED
  BY <1>2, <1>3, PatchOrderly

LEMMA ProductsOrderly ==
  ASSUME TypeOK, DecisionHasReason, NEW p \in Products, NEW u \in ProductUpdates(p)
  PROVE  Orderly(u)
<1>1. CASE u \in create_product(p)
  <2>1. u.status = Nothing /\ u.wf = Nothing /\ u.reason = Nothing /\ Arrives(u)
    BY <1>1 DEF create_product, When, NoUpdate, Arrives
  <2> QED
    BY <2>1, QuietOrderly
<1>2. CASE u \in update_product(p)
  BY <1>2, ReviewOnlyOrderly DEF update_product, When
<1>3. CASE u \in delete_product(p)
  <2>1. u.status = Nothing /\ u.wf = Nothing /\ u.reason = Nothing /\ Departs(u)
    BY <1>3 DEF delete_product, When, NoUpdate, Departs
  <2> QED
    BY <2>1, QuietOrderly
<1>4. CASE u \in create_transaction(p)
  <2>1. PICK t \in TransactionType : u = [NoUpdate EXCEPT !.tx = {<<p, t>>}] /\ p \in Live
    BY <1>4 DEF create_transaction, When
  <2>2. u.status = Nothing /\ u.wf = Nothing /\ u.reason = Nothing
    BY <2>1 DEF NoUpdate
  <2>3. Books(u)
    BY <2>1 DEF NoUpdate, Books
  <2> QED
    BY <2>2, <2>3, QuietOrderly
<1>5. CASE u \in change_status(p)
  <2>1. PICK target \in ProductStatus, has \in BOOLEAN :
          p \in Live /\ StatusAccepted(p, target) /\ u = StatusUpdate(p, target, has)
    BY <1>5 DEF change_status, When
  <2> QED
    BY <2>1, StatusUpdateOrderly
<1> QED
  BY <1>1, <1>2, <1>3, <1>4, <1>5 DEF ProductUpdates

LEMMA ArchiveOrderly ==
  ASSUME NEW u \in apply_auto_archive_rules
  PROVE  Orderly(u)
<1>1. u = [NoUpdate EXCEPT !.status = [p \in AutoArchivable |-> "archived"]]
  BY DEF apply_auto_archive_rules, When
<1>2. /\ u.status = [p \in AutoArchivable |-> "archived"] /\ u.wf = Nothing /\ u.reason = Nothing
      /\ u.born = {} /\ u.dead = {} /\ u.tx = {}
  BY <1>1 DEF NoUpdate
<1> QED
  BY <1>2 DEF Orderly, Reasoned, Allowed, SaleSweeps, Travels, Ages, Nothing

LEMMA DealWritesOrderly ==
  ASSUME NEW d, NEW in, NEW c, Moves(d, c), NEW u, u = DealWrites(d, in, c)
  PROVE  Orderly(u)
<1>1. u.wf = c.wf /\ u.reason = c.reason /\ Stays(u)
  BY DEF DealWrites, NoUpdate, Stays
<1> QED
  BY <1>1, PatchOrderly

LEMMA DealsOrderly ==
  ASSUME TypeOK, DecisionHasReason, NEW d \in Deals, NEW u \in DealUpdates(d)
  PROVE  Orderly(u)
<1> d \in Rows /\ d \in Artifacts /\ d \notin Products
  BY IdsAreDistinct DEF Rows, Artifacts
<1>1. CASE u \in create_deal_from_email(d)
  <2>1. PICK in \in [stage : DealDraftStatus, wf : WorkflowStatus, reason : BOOLEAN, link : Linkable] :
          /\ validate_workflow_status_change(in.wf, in.wf, in.reason)
          /\ u = [NoUpdate EXCEPT !.born = {d}, !.stage = Write(d, in.stage), !.wf = Write(d, in.wf),
                                  !.reason = Write(d, in.reason), !.link = Write(d, in.link)]
    BY <1>1 DEF create_deal_from_email, When
  <2>2. /\ u.wf = Write(d, in.wf) /\ u.reason = Write(d, in.reason) /\ u.born = {d}
        /\ u.status = Nothing /\ u.dead = {} /\ u.tx = {}
    BY <2>1 DEF NoUpdate
  <2>3. Stays(u) /\ in.reason \in BOOLEAN
    BY <2>2 DEF Stays
  <2>4. PICK w, has : w = in.wf /\ has = in.reason
    OBVIOUS
  <2>5. /\ has \in BOOLEAN /\ validate_workflow_status_change(w, w, has)
        /\ u.wf = Write(d, w) /\ u.reason = Write(d, has)
    BY <2>1, <2>2, <2>3, <2>4
  <2> QED
    BY <2>2, <2>3, <2>5, InsertOrderly
<1>2. CASE u \in update_deal_draft(d)
  <2>1. PICK in \in DealInputs(d) :
          \E c \in ReviewChanges(d, in.relevant, Reasons, FALSE) : d \in Live /\ u = DealWrites(d, in, c)
    BY <1>2 DEF update_deal_draft, When
  <2>2. in.relevant \in BOOLEAN
    BY DEF DealInputs
  <2> QED
    BY <2>1, <2>2, ReviewChangeMoves, DealWritesOrderly
<1>3. CASE u \in update_deal_from_email(d)
  <2>1. PICK in \in DealInputs(d) :
          \E c \in ReviewChanges(d, in.relevant, Reasons, FALSE) :
            d \in Live /\ u = DealWrites(d, in, [c EXCEPT !.reason =
                                                   IF DOMAIN c.wf = {} THEN Nothing ELSE c.reason])
    BY <1>3 DEF update_deal_from_email, When
  <2>2. PICK c \in ReviewChanges(d, in.relevant, Reasons, FALSE) :
          d \in Live /\ u = DealWrites(d, in, [c EXCEPT !.reason =
                                                 IF DOMAIN c.wf = {} THEN Nothing ELSE c.reason])
    BY <2>1
  <2>3. PICK e : e = [c EXCEPT !.reason = IF DOMAIN c.wf = {} THEN Nothing ELSE c.reason]
    OBVIOUS
  <2>4. \E f, g : c = [wf |-> f, reason |-> g]
    BY DEF ReviewChanges, ReviewChange
  <2>5. e.wf = c.wf /\ e.reason = (IF DOMAIN c.wf = {} THEN Nothing ELSE c.reason)
    BY <2>3, <2>4
  <2>6. Moves(d, c)
    BY <2>2, ReviewChangeMoves DEF DealInputs
  <2>7. Moves(d, e)
    <3>1. CASE DOMAIN c.wf = {}
      <4>1. DOMAIN e.wf = {} /\ DOMAIN e.reason = {}
        BY <2>5, <3>1 DEF Nothing
      <4>2. wf[d] \in WORKFLOW_REVIEW_DECISION_STATES => reason[d] = TRUE
        BY <2>2 DEF DecisionHasReason, TypeOK
      <4> QED
        BY <4>1, <4>2 DEF Moves, Justified, After
    <3>2. CASE DOMAIN c.wf # {}
      BY <2>5, <2>6, <3>2 DEF Moves, Justified, After
    <3> QED
      BY <3>1, <3>2
  <2> QED
    BY <2>2, <2>3, <2>7, DealWritesOrderly
<1> QED
  BY <1>1, <1>2, <1>3 DEF DealUpdates

LEMMA ItemsOrderly ==
  ASSUME TypeOK, DecisionHasReason, NEW i \in Contents, NEW u \in ItemUpdates(i)
  PROVE  Orderly(u)
<1> i \in Rows /\ i \in Artifacts /\ i \notin Products
  BY IdsAreDistinct DEF Rows, Artifacts
<1>1. CASE u \in create_item(i)
  <2>1. PICK in \in [wf : WorkflowStatus, reason : BOOLEAN, link : Linkable] :
          /\ validate_workflow_status_change(in.wf, in.wf, in.reason)
          /\ u = [NoUpdate EXCEPT !.born = {i}, !.wf = Write(i, in.wf), !.reason = Write(i, in.reason),
                                  !.link = Write(i, in.link)]
    BY <1>1 DEF create_item, When
  <2>2. /\ u.wf = Write(i, in.wf) /\ u.reason = Write(i, in.reason) /\ u.born = {i}
        /\ u.status = Nothing /\ u.dead = {} /\ u.tx = {}
    BY <2>1 DEF NoUpdate
  <2>3. Stays(u) /\ in.reason \in BOOLEAN
    BY <2>2 DEF Stays
  <2>4. PICK w, has : w = in.wf /\ has = in.reason
    OBVIOUS
  <2>5. /\ has \in BOOLEAN /\ validate_workflow_status_change(w, w, has)
        /\ u.wf = Write(i, w) /\ u.reason = Write(i, has)
    BY <2>1, <2>2, <2>3, <2>4
  <2> QED
    BY <2>2, <2>3, <2>5, InsertOrderly
<1>2. CASE u \in update_item(i)
  <2>1. PICK in \in ItemInputs(i) :
          \E r \in ReviewChanges(i, in.relevant, {"text", "unset"}, reason[i]) :
            i \in Live /\ u = ItemWrites(i, in, r)
    BY <1>2 DEF update_item, When
  <2>2. PICK r \in ReviewChanges(i, in.relevant, {"text", "unset"}, reason[i]) :
          i \in Live /\ u = ItemWrites(i, in, r)
    BY <2>1
  <2>3. Moves(i, r)
    <3>1. reason[i] \in BOOLEAN /\ in.relevant \in BOOLEAN
      BY DEF TypeOK, ItemInputs
    <3> QED
      BY <2>2, <3>1, ReviewChangeMoves
  <2>4. u.wf = r.wf /\ u.reason = r.reason /\ Stays(u)
    BY <2>2 DEF ItemWrites, NoUpdate, Stays
  <2> QED
    BY <2>3, <2>4, PatchOrderly
<1>3. CASE u \in delete_item(i)
  <2>1. u.status = Nothing /\ u.wf = Nothing /\ u.reason = Nothing /\ Stays(u)
    BY <1>3 DEF delete_item, When, NoUpdate, Stays
  <2> QED
    BY <2>1, QuietOrderly
<1> QED
  BY <1>1, <1>2, <1>3 DEF ItemUpdates

LEMMA AssetsOrderly ==
  ASSUME TypeOK, DecisionHasReason, NEW a \in Assets, NEW u \in AssetUpdates(a)
  PROVE  Orderly(u)
<1>1. CASE u \in create_asset(a)
  <2>1. PICK l \in Linkable : u = [NoUpdate EXCEPT !.born = {a}, !.link = Write(a, l)]
    BY <1>1 DEF create_asset, When
  <2>2. a \notin Products
    BY IdsAreDistinct DEF Artifacts
  <2>3. u.status = Nothing /\ u.wf = Nothing /\ u.reason = Nothing /\ Stays(u)
    BY <2>1, <2>2 DEF NoUpdate, Stays
  <2> QED
    BY <2>3, QuietOrderly
<1>2. CASE u \in update_asset(a)
  BY <1>2, ReviewOnlyOrderly DEF update_asset, When
<1> QED
  BY <1>1, <1>2 DEF AssetUpdates

(* So every step of SalesDesk is a safe and orderly update or a day.       *)
LEMMA StepsOrderly ==
  ASSUME TypeOK, DecisionHasReason, Next
  PROVE  \/ \E u : Safe(u) /\ Orderly(u) /\ Committable(u) /\ Apply(u)
         \/ \E p \in Products : GrowDue(p)
<1>1. CASE CreateProduct \/ UpdateProduct \/ DeleteProduct \/ CreateTransaction \/ ChangeStatus
  <2>1. PICK p \in Products : \E u \in ProductUpdates(p) : Committable(u) /\ Apply(u)
    BY <1>1 DEF CreateProduct, UpdateProduct, DeleteProduct, CreateTransaction,
                ChangeStatus, Commit, ProductUpdates
  <2> QED
    BY <2>1, ProductUpdatesSafe, ProductsOrderly
<1>2. CASE AutoArchive
  BY <1>2, AutoArchiveSafe, ArchiveOrderly DEF AutoArchive, Commit
<1>3. CASE CreateDeal \/ UpdateDeal \/ IntakeDeal
  <2>1. PICK d \in Deals : \E u \in DealUpdates(d) : Committable(u) /\ Apply(u)
    BY <1>3 DEF CreateDeal, UpdateDeal, IntakeDeal, Commit, DealUpdates
  <2> QED
    BY <2>1, DealUpdatesSafe, DealsOrderly
<1>4. CASE CreateItem \/ UpdateItem \/ DeleteItem
  <2>1. PICK i \in Contents : \E u \in ItemUpdates(i) : Committable(u) /\ Apply(u)
    BY <1>4 DEF CreateItem, UpdateItem, DeleteItem, Commit, ItemUpdates
  <2> QED
    BY <2>1, ItemUpdatesSafe, ItemsOrderly
<1>5. CASE CreateAsset \/ UpdateAsset
  <2>1. PICK a \in Assets : \E u \in AssetUpdates(a) : Committable(u) /\ Apply(u)
    BY <1>5 DEF CreateAsset, UpdateAsset, Commit, AssetUpdates
  <2> QED
    BY <2>1, AssetUpdatesSafe, AssetsOrderly
<1> QED
  BY <1>1, <1>2, <1>3, <1>4, <1>5 DEF Next

-----------------------------------------------------------------------------
(* What such an update does to the workflow and to the links.              *)
LEMMA Written ==
  ASSUME TypeOK, NEW u, Apply(u)
  PROVE  /\ \A x \in Rows : wf'[x] = After(wf, u.wf, x) /\ reason'[x] = After(reason, u.reason, x)
         /\ \A p \in Products : status'[p] = After(status, u.status, p)
         /\ \A d \in Deals : stage'[d] = After(stage, u.stage, d)
  BY DEF TypeOK, Apply, Overlay, After

LEMMA ReviewedKept ==
  ASSUME TypeOK, Reviewed, NEW u, Orderly(u), Committable(u), Apply(u)
  PROVE  Reviewed'
<1>1. \A x \in Rows : life'[x] = IF x \in u.dead THEN "gone" ELSE IF x \in u.born THEN "live" ELSE life[x]
  BY DEF Apply
<1>2. \A x \in u.born : life[x] = "new"
  BY DEF Committable
<1>3. \A x \in DOMAIN u.wf \union DOMAIN u.reason : x \in Live \/ x \in u.born
  BY DEF Committable, WrittenRows
<1>4. ASSUME NEW x \in Rows, life'[x] = "new" PROVE wf'[x] = "draft"
  <2>1. life[x] = "new" /\ x \notin u.born
    BY <1>1, <1>4
  <2>2. wf'[x] = wf[x]
    BY <1>3, <2>1, Written DEF Live, After
  <2> QED
    BY <2>1, <2>2 DEF Reviewed
<1>5. ASSUME NEW x \in Rows, life'[x] = "live", wf'[x] \in WORKFLOW_REVIEW_DECISION_STATES
      PROVE  reason'[x] = TRUE
  <2>1. CASE x \in DOMAIN u.wf \union DOMAIN u.reason
    <3>1. After(wf, u.wf, x) \in WORKFLOW_REVIEW_DECISION_STATES
      BY <1>5, Written
    <3>2. IF x \in DOMAIN u.reason THEN u.reason[x] = TRUE ELSE reason[x] = TRUE
      BY <2>1, <3>1 DEF Orderly, Reasoned, Justified
    <3> QED
      BY <3>2, Written DEF After
  <2>2. CASE x \notin DOMAIN u.wf \union DOMAIN u.reason
    <3>1. wf'[x] = wf[x] /\ reason'[x] = reason[x]
      BY <2>2, Written DEF After
    <3>2. life[x] = "live"
      BY <1>1, <1>2, <1>5, <3>1 DEF Reviewed, WORKFLOW_REVIEW_DECISION_STATES
    <3> QED
      BY <1>5, <3>1, <3>2 DEF Reviewed, DecisionHasReason, Live, TypeOK
  <2> QED
    BY <2>1, <2>2
<1> QED
  BY <1>4, <1>5 DEF Reviewed, DecisionHasReason, Live

LEMMA AllowedStep ==
  ASSUME TypeOK, NEW u, Orderly(u), Committable(u), Apply(u), NEW x \in Live, wf'[x] # wf[x]
  PROVE  wf'[x] \in WORKFLOW_TRANSITIONS[wf[x]]
<1>1. x \in Rows /\ x \notin u.born
  BY DEF Live, Committable
<1>2. wf'[x] = After(wf, u.wf, x)
  BY <1>1, Written
<1> QED
  BY <1>1, <1>2 DEF After, Orderly, Allowed

LEMMA SweptStep ==
  ASSUME TypeOK, NEW u, Orderly(u), Apply(u), NEW p \in Products, status[p] # "sold", status'[p] = "sold",
         NEW x \in Artifacts, life'[x] = "live", link'[x] = p
  PROVE  wf'[x] = "archived" /\ (x \in Deals => stage'[x] = "won")
<1>1. p \in DOMAIN u.status /\ u.status[p] = "sold"
  BY Written DEF After
<1>2. Sweeps(u, p)
  BY <1>1 DEF Orderly, SaleSweeps
<1>3. x \in Rows /\ life[x] = "live" /\ link[x] = p
  BY <1>2 DEF Rows, Sweeps, Apply, Overlay, Nothing, TypeOK
<1>4. x \in Linked(p)
  BY <1>3 DEF Linked, Live
<1> QED
  BY <1>2, <1>3, <1>4, Written DEF Sweeps

-----------------------------------------------------------------------------
(* What it does to the products: a step of ProductLifecycle, or none.      *)
LEMMA PlaceAfter ==
  ASSUME Committed, NEW u, Committable(u), Apply(u), NEW p \in Products
  PROVE  /\ p \in u.dead => PlaceOf(p)' = "forgotten" /\ ledger'[p] = {}
         /\ p \notin u.dead => ledger'[p] = ledger[p] \union {t \in TransactionType : <<p, t>> \in u.tx}
         /\ p \in u.born /\ p \notin u.dead =>
              /\ PlaceOf(p) = "unknown"
              /\ u.status = Nothing => PlaceOf(p)' = "inventory"
         /\ p \in Live /\ p \notin u.dead /\ p \in DOMAIN u.status =>
              PlaceOf(p)' = IF u.status[p] \in {"active", "returned", "broken"} THEN "inventory" ELSE u.status[p]
         /\ p \notin u.dead \union u.born \union DOMAIN u.status => PlaceOf(p)' = PlaceOf(p)
<1>1. p \in Rows /\ life'[p] = (IF p \in u.dead THEN "gone" ELSE IF p \in u.born THEN "live" ELSE life[p])
  BY DEF Rows, Apply
<1>2. ledger'[p] = IF p \in u.dead THEN {}
                   ELSE ledger[p] \union {t \in TransactionType : <<p, t>> \in u.tx}
  BY DEF Apply
<1>3. status'[p] = After(status, u.status, p)
  BY Written DEF Committed
<1>4. p \in u.born => life[p] = "new" /\ status[p] = "active"
  BY DEF Committable, Committed
<1>5. PlaceOf(p)' = CASE life'[p] = "new"  -> "unknown"
                     [] life'[p] = "gone" -> "forgotten"
                     [] life'[p] = "live" ->
                          IF status'[p] \in {"active", "returned", "broken"} THEN "inventory" ELSE status'[p]
  BY DEF PlaceOf
<1>6. p \in u.dead => PlaceOf(p)' = "forgotten" /\ ledger'[p] = {}
  BY <1>1, <1>2, <1>5
<1>7. p \in u.born /\ p \notin u.dead =>
        PlaceOf(p) = "unknown" /\ (u.status = Nothing => PlaceOf(p)' = "inventory")
  BY <1>1, <1>3, <1>4, <1>5 DEF PlaceOf, After, Nothing
<1>8. p \in Live /\ p \notin u.dead /\ p \in DOMAIN u.status =>
        PlaceOf(p)' = IF u.status[p] \in {"active", "returned", "broken"} THEN "inventory" ELSE u.status[p]
  BY <1>1, <1>3, <1>5 DEF After, Live
<1>9. p \notin u.dead \union u.born \union DOMAIN u.status => PlaceOf(p)' = PlaceOf(p)
  BY <1>1, <1>3, <1>5 DEF After, PlaceOf
<1> QED
  BY <1>2, <1>6, <1>7, <1>8, <1>9

LEMMA PlaceStays ==
  ASSUME Committed, NEW u, Committable(u), Apply(u), NEW p \in Products,
         p \notin u.dead, p \notin u.born, p \notin DOMAIN u.status
  PROVE  PlaceOf(p)' = PlaceOf(p)
<1>1. p \notin u.dead \union u.born \union DOMAIN u.status
  OBVIOUS
<1> QED
  BY ONLY <1>1, PlaceAfter, Committed, Committable(u), Apply(u), p \in Products

LEMMA BooksStay ==
  ASSUME Committed, NEW u, Committable(u), Apply(u), NEW p \in Products,
         p \notin u.dead, \A t : <<p, t>> \notin u.tx
  PROVE  ledger'[p] = ledger[p]
<1>1. ledger'[p] = ledger[p] \union {t \in TransactionType : <<p, t>> \in u.tx}
  BY PlaceAfter
<1> QED
  BY <1>1

LEMMA NoneTravel ==
  ASSUME Committed, Committed',
         \A q \in Products : PlaceOf(q)' = PlaceOf(q) /\ ledger'[q] = ledger[q]
  PROVE  UNCHANGED Lifecycle!pvars
<1>1. ledger' = ledger
  BY DEF Committed, TypeOK
<1>2. [q \in Products |-> PlaceOf(q)]' = [q \in Products |-> PlaceOf(q)]
  OBVIOUS
<1> QED
  BY <1>1, <1>2 DEF Lifecycle!pvars

LEMMA OneTravels ==
  ASSUME Committed, Committed', NEW p \in Products, NEW to, NEW books, PlaceOf(p)' = to, ledger'[p] = books,
         \A q \in Products : q # p => PlaceOf(q)' = PlaceOf(q) /\ ledger'[q] = ledger[q]
  PROVE  /\ [q \in Products |-> PlaceOf(q)]' = [[q \in Products |-> PlaceOf(q)] EXCEPT ![p] = to]
         /\ ledger' = [ledger EXCEPT ![p] = books]
<1>1. ledger' = [ledger EXCEPT ![p] = books]
  BY DEF Committed, TypeOK
<1>2. [q \in Products |-> PlaceOf(q)]' = [[q \in Products |-> PlaceOf(q)] EXCEPT ![p] = to]
  OBVIOUS
<1> QED
  BY <1>1, <1>2

LEMMA MoveTravels ==
  ASSUME Committed, Committed', NEW p \in Products, NEW from, NEW to, NEW e,
         PlaceOf(p) = from, PlaceOf(p)' = to, ledger'[p] = ledger[p] \union {e},
         \A q \in Products : q # p => PlaceOf(q)' = PlaceOf(q) /\ ledger'[q] = ledger[q]
  PROVE  Lifecycle!Move(p, from, to, e)
<1>1. PICK books : books = ledger[p] \union {e}
  OBVIOUS
<1>2. /\ [q \in Products |-> PlaceOf(q)]' = [[q \in Products |-> PlaceOf(q)] EXCEPT ![p] = to]
      /\ ledger' = [ledger EXCEPT ![p] = books]
  BY <1>1, OneTravels
<1> QED
  BY <1>1, <1>2 DEF Lifecycle!Move

LEMMA BookTravels ==
  ASSUME Committed, Committed', NEW p \in Products, NEW e \in TransactionType,
         PlaceOf(p) \in {"inventory", "sold", "gifted", "archived"},
         PlaceOf(p)' = PlaceOf(p), ledger'[p] = ledger[p] \union {e},
         \A q \in Products : q # p => PlaceOf(q)' = PlaceOf(q) /\ ledger'[q] = ledger[q]
  PROVE  Lifecycle!Next
<1>1. ledger' = [ledger EXCEPT ![p] = ledger[p] \union {e}]
  BY DEF Committed, TypeOK
<1>2. [q \in Products |-> PlaceOf(q)]' = [q \in Products |-> PlaceOf(q)]
  OBVIOUS
<1>3. Lifecycle!Book(p, e)
  BY <1>1, <1>2 DEF Lifecycle!Book, Lifecycle!Owned
<1> QED
  BY <1>3 DEF Lifecycle!Next

LEMMA LiveOwned ==
  ASSUME Committed, NEW p \in Products \intersect Live
  PROVE  /\ PlaceOf(p) = IF status[p] \in {"active", "returned", "broken"} THEN "inventory" ELSE status[p]
         /\ PlaceOf(p) \in {"inventory", "sold", "gifted", "archived"}
  BY DEF Committed, TypeOK, ProductStatus, PlaceOf, Live

LEMMA OrderlyTravels ==
  ASSUME Committed, Committed', NEW u, Orderly(u), Committable(u), Apply(u)
  PROVE  [Lifecycle!Next]_(Lifecycle!pvars)
<1>1. CASE Stays(u)
  <2>1. ASSUME NEW q \in Products
        PROVE  PlaceOf(q)' = PlaceOf(q) /\ ledger'[q] = ledger[q]
    <3>1. q \notin u.dead /\ q \notin u.born /\ q \notin DOMAIN u.status /\ u.tx = {}
      BY <1>1 DEF Stays, Nothing
    <3> QED
      BY <3>1, PlaceStays, BooksStay
  <2>2. \A q \in Products : PlaceOf(q)' = PlaceOf(q) /\ ledger'[q] = ledger[q]
    BY <2>1
  <2> QED
    BY <2>2, NoneTravel
<1>2. CASE Arrives(u)
  <2>1. PICK p \in Products : u.status = Nothing /\ u.born = {p} /\ u.dead = {} /\ u.tx = {}
    BY <1>2 DEF Arrives
  <2>2. ASSUME NEW q \in Products, q # p
        PROVE  PlaceOf(q)' = PlaceOf(q) /\ ledger'[q] = ledger[q]
    <3>1. q \notin u.dead /\ q \notin u.born /\ q \notin DOMAIN u.status /\ u.tx = {}
      BY <2>1, <2>2 DEF Nothing
    <3> QED
      BY <3>1, PlaceStays, BooksStay
  <2>3. PlaceOf(p) = "unknown" /\ PlaceOf(p)' = "inventory" /\ ledger'[p] = ledger[p]
    <3>1. p \in u.born /\ p \notin u.dead /\ u.status = Nothing /\ u.tx = {}
      BY <2>1
    <3>2. PlaceOf(p) = "unknown" /\ PlaceOf(p)' = "inventory"
      BY <3>1, PlaceAfter
    <3> QED
      BY <3>1, <3>2, BooksStay
  <2>4. [q \in Products |-> PlaceOf(q)]' = [[q \in Products |-> PlaceOf(q)] EXCEPT ![p] = "inventory"]
    BY <2>2, <2>3
  <2>5. ledger' = ledger
    BY <2>2, <2>3 DEF Committed, TypeOK
  <2>6. Lifecycle!Acquire(p)
    BY <2>3, <2>4, <2>5 DEF Lifecycle!Acquire
  <2> QED
    BY <2>6 DEF Lifecycle!Next
<1>3. CASE Departs(u)
  <2>1. PICK p \in Products : p \in Live /\ u.status = Nothing /\ u.born = {} /\ u.dead = {p} /\ u.tx = {}
    BY <1>3 DEF Departs
  <2>2. ASSUME NEW q \in Products, q # p
        PROVE  PlaceOf(q)' = PlaceOf(q) /\ ledger'[q] = ledger[q]
    <3>1. q \notin u.dead /\ q \notin u.born /\ q \notin DOMAIN u.status /\ u.tx = {}
      BY <2>1, <2>2 DEF Nothing
    <3> QED
      BY <3>1, PlaceStays, BooksStay
  <2>3. PlaceOf(p)' = "forgotten" /\ ledger'[p] = {}
    BY <2>1, PlaceAfter
  <2>4. /\ [q \in Products |-> PlaceOf(q)]' = [[q \in Products |-> PlaceOf(q)] EXCEPT ![p] = "forgotten"]
        /\ ledger' = [ledger EXCEPT ![p] = {}]
    BY <2>2, <2>3, OneTravels
  <2>5. PlaceOf(p) \in {"inventory", "sold", "gifted", "archived"}
    BY <2>1, LiveOwned
  <2>6. Lifecycle!Forget(p)
    BY <2>4, <2>5 DEF Lifecycle!Forget, Lifecycle!Owned
  <2> QED
    BY <2>6 DEF Lifecycle!Next
<1>4. CASE Books(u)
  <2>1. PICK p \in Products, t \in TransactionType :
          p \in Live /\ u.status = Nothing /\ u.born = {} /\ u.dead = {} /\ u.tx = {<<p, t>>}
    BY <1>4 DEF Books
  <2>2. ASSUME NEW q \in Products
        PROVE  PlaceOf(q)' = PlaceOf(q)
    <3>1. q \notin u.dead /\ q \notin u.born /\ q \notin DOMAIN u.status
      BY <2>1 DEF Nothing
    <3> QED
      BY <3>1, PlaceStays
  <2>3. ledger'[p] = ledger[p] \union {t} /\ \A q \in Products : q # p => ledger'[q] = ledger[q]
    <3>1. p \notin u.dead /\ u.tx = {<<p, t>>}
      BY <2>1
    <3>2. ledger'[p] = ledger[p] \union {e \in TransactionType : <<p, e>> \in u.tx}
      BY <3>1, PlaceAfter
    <3>3. ASSUME NEW q \in Products, q # p
          PROVE  ledger'[q] = ledger[q]
      <4>1. q \notin u.dead /\ \A e : <<q, e>> \notin u.tx
        BY <2>1, <3>3
      <4> QED
        BY <4>1, BooksStay
    <3> QED
      BY <3>1, <3>2, <3>3
  <2>4. PlaceOf(p) \in {"inventory", "sold", "gifted", "archived"}
    BY <2>1, LiveOwned
  <2>5. Lifecycle!Next
    BY <2>2, <2>3, <2>4, BookTravels
  <2> QED
    BY <2>5
<1>5. CASE Changes(u)
  <2>1. PICK p \in Products, target \in ProductStatus :
          /\ p \in Live /\ target \in PRODUCT_STATUS_TRANSITIONS[status[p]]
          /\ u.status = Write(p, target) /\ u.born = {} /\ u.dead = {}
          /\ u.tx = {<<p, t>> : t \in product_status_side_effect(target)}
    BY <1>5 DEF Changes
  <2>2. DOMAIN u.status = {p} /\ u.status[p] = target
    BY <2>1 DEF Write
  <2>3. ASSUME NEW q \in Products, q # p
        PROVE  PlaceOf(q)' = PlaceOf(q) /\ ledger'[q] = ledger[q]
    <3>1. q \notin u.dead /\ q \notin u.born /\ q \notin DOMAIN u.status
      BY <2>1, <2>2, <2>3
    <3>2. \A t : <<q, t>> \notin u.tx
      BY <2>1, <2>3
    <3> QED
      BY <3>1, <3>2, PlaceStays, BooksStay
  <2>4. ledger'[p] = ledger[p] \union product_status_side_effect(target)
    <3>1. product_status_side_effect(target) \subseteq TransactionType
      BY DEF product_status_side_effect, TransactionType
    <3>2. ledger'[p] = ledger[p] \union {t \in TransactionType : <<p, t>> \in u.tx}
      BY <2>1, PlaceAfter
    <3> QED
      BY <2>1, <3>1, <3>2
  <2>5. PlaceOf(p)' = IF target \in {"active", "returned", "broken"} THEN "inventory" ELSE target
    BY <2>1, <2>2, PlaceAfter
  <2>6. /\ PlaceOf(p) = IF status[p] \in {"active", "returned", "broken"} THEN "inventory" ELSE status[p]
        /\ PlaceOf(p) \in {"inventory", "sold", "gifted", "archived"}
        /\ status[p] \in ProductStatus
    BY <2>1, LiveOwned DEF Committed, TypeOK
  <2>7. CASE target = "sold"
    <3>1. PlaceOf(p) = "inventory" /\ PlaceOf(p)' = "sold" /\ ledger'[p] = ledger[p] \union {"sale"}
      BY <2>1, <2>4, <2>5, <2>6, <2>7 DEF PRODUCT_STATUS_TRANSITIONS, ProductStatus, product_status_side_effect
    <3>2. Lifecycle!Sell(p)
      BY <2>3, <3>1, MoveTravels DEF Lifecycle!Sell
    <3> QED
      BY <3>2 DEF Lifecycle!Next
  <2>8. CASE target = "gifted"
    <3>1. PlaceOf(p) = "inventory" /\ PlaceOf(p)' = "gifted" /\ ledger'[p] = ledger[p] \union {"gift"}
      BY <2>1, <2>4, <2>5, <2>6, <2>8 DEF PRODUCT_STATUS_TRANSITIONS, ProductStatus, product_status_side_effect
    <3>2. Lifecycle!Gift(p)
      BY <2>3, <3>1, MoveTravels DEF Lifecycle!Gift
    <3> QED
      BY <3>2 DEF Lifecycle!Next
  <2>9. CASE target = "returned"
    <3>1. PlaceOf(p) \in {"inventory", "sold"} /\ PlaceOf(p)' = "inventory"
          /\ ledger'[p] = ledger[p] \union {"return"}
      BY <2>1, <2>4, <2>5, <2>6, <2>9 DEF PRODUCT_STATUS_TRANSITIONS, ProductStatus, product_status_side_effect
    <3>2. CASE PlaceOf(p) = "sold"
      <4>1. Lifecycle!TakeBack(p)
        BY <2>3, <3>1, <3>2, MoveTravels DEF Lifecycle!TakeBack
      <4> QED
        BY <4>1 DEF Lifecycle!Next
    <3>3. CASE PlaceOf(p) = "inventory"
      <4>1. PlaceOf(p)' = PlaceOf(p) /\ "return" \in TransactionType
        BY <3>1, <3>3 DEF TransactionType
      <4>2. Lifecycle!Next
        BY <2>3, <2>6, <3>1, <4>1, BookTravels
      <4> QED
        BY <4>2
    <3> QED
      BY <3>1, <3>2, <3>3
  <2>10. CASE target = "broken"
    <3>1. PlaceOf(p) = "inventory" /\ PlaceOf(p)' = "inventory" /\ ledger'[p] = ledger[p] \union {"repair"}
      BY <2>1, <2>4, <2>5, <2>6, <2>10 DEF PRODUCT_STATUS_TRANSITIONS, ProductStatus, product_status_side_effect
    <3>2. PlaceOf(p)' = PlaceOf(p) /\ "repair" \in TransactionType
      BY <3>1 DEF TransactionType
    <3>3. Lifecycle!Next
      BY <2>3, <2>6, <3>1, <3>2, BookTravels
    <3> QED
      BY <3>3
  <2>11. CASE target = "active"
    <3>1. PlaceOf(p)' = PlaceOf(p) /\ ledger'[p] = ledger[p]
      BY <2>1, <2>4, <2>5, <2>6, <2>11 DEF PRODUCT_STATUS_TRANSITIONS, ProductStatus, product_status_side_effect
    <3> QED
      BY <2>3, <3>1, NoneTravel
  <2>12. CASE target = "archived"
    <3>1. PlaceOf(p)' = "archived" /\ ledger'[p] = ledger[p]
      BY <2>4, <2>5, <2>12 DEF product_status_side_effect
    <3>2. ledger' = ledger
      BY <2>3, <3>1 DEF Committed, TypeOK
    <3>3. [q \in Products |-> PlaceOf(q)]'
            = [q \in Products |-> IF q \in {p} THEN "archived" ELSE [r \in Products |-> PlaceOf(r)][q]]
      BY <2>3, <3>1
    <3>4. Lifecycle!Archive({p})
      BY <2>6, <3>2, <3>3 DEF Lifecycle!Archive, Lifecycle!Owned
    <3> QED
      BY <3>4 DEF Lifecycle!Next
  <2> QED
    BY <2>7, <2>8, <2>9, <2>10, <2>11, <2>12 DEF ProductStatus
<1>6. CASE Ages(u)
  <2>1. /\ DOMAIN u.status = AutoArchivable /\ \A q \in AutoArchivable : u.status[q] = "archived"
        /\ u.born = {} /\ u.dead = {} /\ u.tx = {}
    BY <1>6 DEF Ages
  <2>2. AutoArchivable \subseteq Products \intersect Live
    BY DEF AutoArchivable
  <2>3. \A q \in Products : ledger'[q] = ledger[q]
    BY <2>1, PlaceAfter
  <2>4. \A q \in Products : PlaceOf(q)' = IF q \in AutoArchivable THEN "archived" ELSE PlaceOf(q)
    BY <2>1, <2>2, PlaceAfter
  <2>5. ledger' = ledger
    BY <2>3 DEF Committed, TypeOK
  <2>6. [q \in Products |-> PlaceOf(q)]'
          = [q \in Products |-> IF q \in AutoArchivable THEN "archived" ELSE [r \in Products |-> PlaceOf(r)][q]]
    BY <2>4
  <2>7. \A q \in AutoArchivable : PlaceOf(q) \in {"inventory", "sold", "gifted", "archived"}
    BY <2>2, LiveOwned
  <2>8. Lifecycle!Archive(AutoArchivable)
    BY <2>2, <2>5, <2>6, <2>7 DEF Lifecycle!Archive, Lifecycle!Owned
  <2> QED
    BY <2>2, <2>8 DEF Lifecycle!Next
<1> QED
  BY <1>1, <1>2, <1>3, <1>4, <1>5, <1>6 DEF Orderly, Travels

-----------------------------------------------------------------------------
ReviewInv == Committed /\ Reviewed

LEMMA InitReview == Init => ReviewInv
<1> SUFFICES ASSUME Init PROVE ReviewInv
  OBVIOUS
<1>1. \A x \in Rows : wf[x] = "draft" /\ life[x] = "new"
  BY DEF Init
<1>2. Live = {}
  BY <1>1 DEF Live
<1>3. "draft" \notin WORKFLOW_REVIEW_DECISION_STATES
  BY DEF WORKFLOW_REVIEW_DECISION_STATES
<1> QED
  BY <1>1, <1>2, <1>3, InitCommitted DEF ReviewInv, Reviewed, DecisionHasReason

LEMMA NextReview ==
  ASSUME ReviewInv, [Next]_vars
  PROVE  ReviewInv'
<1>1. Committed'
  BY NextKeeps, StutterKeeps DEF ReviewInv
<1>2. CASE UNCHANGED vars
  BY <1>1, <1>2 DEF ReviewInv, Reviewed, DecisionHasReason, Live, vars
<1>3. CASE \E p \in Products : GrowDue(p)
  BY <1>1, <1>3 DEF ReviewInv, Reviewed, DecisionHasReason, Live, GrowDue
<1>4. CASE \E u : Safe(u) /\ Orderly(u) /\ Committable(u) /\ Apply(u)
  BY <1>1, <1>4, ReviewedKept DEF ReviewInv, Committed
<1> QED
  BY <1>2, <1>3, <1>4, StepsOrderly DEF ReviewInv, Committed, Reviewed

LEMMA ReviewAlways == Spec => []ReviewInv
  BY InitReview, NextReview, PTL DEF Spec

(* For any rows: whatever was approved, rejected or published carries its  *)
(* reason, whichever handler decided and whatever was patched since.       *)
THEOREM ReasonSafety == Spec => []DecisionHasReason
<1>1. ReviewInv => DecisionHasReason
  BY DEF ReviewInv, Reviewed
<1> QED
  BY <1>1, ReviewAlways, PTL

(* Every row moves through the workflow along the table, whether a request *)
(* moves it, an automatic re-review or a sale.                             *)
THEOREM WorkflowSafety == Spec => WorkflowStepsAllowed
<1>1. ASSUME ReviewInv, [Next]_vars, NEW x \in Live, wf'[x] # wf[x]
      PROVE  wf'[x] \in WORKFLOW_TRANSITIONS[wf[x]]
  <2>1. CASE \E u : Safe(u) /\ Orderly(u) /\ Committable(u) /\ Apply(u)
    BY <1>1, <2>1, AllowedStep DEF ReviewInv, Committed
  <2>2. wf' = wf \/ (Next /\ ~(\E p \in Products : GrowDue(p)))
    BY <1>1 DEF vars, GrowDue
  <2> QED
    BY <1>1, <2>1, <2>2, StepsOrderly DEF ReviewInv, Committed, Reviewed
<1>2. ReviewInv /\ [Next]_vars =>
        [\A x \in Live : wf'[x] # wf[x] => wf'[x] \in WORKFLOW_TRANSITIONS[wf[x]]]_vars
  BY <1>1
<1> QED
  BY <1>2, ReviewAlways, PTL DEF Spec, WorkflowStepsAllowed

(* The step that sells a product archives all that is linked to it and     *)
(* wins its deals.                                                         *)
THEOREM SweepSafety == Spec => SaleSweepsLinks
<1>1. ASSUME ReviewInv, [Next]_vars, NEW p \in Products, status[p] # "sold", status'[p] = "sold",
             NEW x \in Artifacts, life'[x] = "live", link'[x] = p
      PROVE  wf'[x] = "archived" /\ (x \in Deals => stage'[x] = "won")
  <2>1. CASE \E u : Safe(u) /\ Orderly(u) /\ Committable(u) /\ Apply(u)
    BY <1>1, <2>1, SweptStep DEF ReviewInv, Committed
  <2>2. Next /\ ~(\E q \in Products : GrowDue(q))
    BY <1>1 DEF vars, GrowDue
  <2> QED
    BY <1>1, <2>1, <2>2, StepsOrderly DEF ReviewInv, Committed, Reviewed
<1>2. ReviewInv /\ [Next]_vars =>
        [\A p \in Products : status[p] # "sold" /\ status'[p] = "sold" =>
           \A x \in Artifacts : life'[x] = "live" /\ link'[x] = p =>
             wf'[x] = "archived" /\ (x \in Deals => stage'[x] = "won")]_vars
  BY <1>1
<1> QED
  BY <1>2, ReviewAlways, PTL DEF Spec, SaleSweepsLinks

(* Products implement ProductLifecycle: acquired once, sold or gifted only *)
(* with the booking, back only from a sale and with a booked return,       *)
(* archived for good, and with books that only grow until they go.         *)
THEOREM LifecycleRefinement == Spec => LifecycleKept
<1>1. Init => Lifecycle!Init
  BY DEF Init, Lifecycle!Init, PlaceOf, Rows
<1>2. ReviewInv /\ [Next]_vars => [Lifecycle!Next]_(Lifecycle!pvars)
  <2> SUFFICES ASSUME ReviewInv, [Next]_vars
               PROVE  [Lifecycle!Next]_(Lifecycle!pvars)
    OBVIOUS
  <2>1. Committed /\ Committed'
    BY NextReview DEF ReviewInv
  <2>2. CASE UNCHANGED vars
    BY <2>1, <2>2, NoneTravel DEF vars, PlaceOf
  <2>3. CASE \E p \in Products : GrowDue(p)
    BY <2>1, <2>3, NoneTravel DEF GrowDue, PlaceOf
  <2>4. CASE \E u : Safe(u) /\ Orderly(u) /\ Committable(u) /\ Apply(u)
    BY <2>1, <2>4, OrderlyTravels
  <2> QED
    BY <2>2, <2>3, <2>4, StepsOrderly DEF ReviewInv, Committed, Reviewed
<1> QED
  BY <1>1, <1>2, ReviewAlways, PTL DEF Spec, LifecycleKept, Lifecycle!Spec

-----------------------------------------------------------------------------
(* The same when any number of sessions decide on stale rows.              *)
LEMMA LoadKeeps ==
  ASSUME InFlightBalanced, NEW r \in Requests, Handle(r)
  PROVE  InFlightBalanced'
  <1> TypeOK
    BY DEF InFlightBalanced
  <1>1. PICK u : Safe(u) /\ pending' = [pending EXCEPT ![r] = {u}] /\ UNCHANGED vars
    <2>1. CASE \E p \in Products : Load(r, ProductUpdates(p))
      BY <2>1, ProductUpdatesSafe DEF Load
    <2>2. CASE Load(r, apply_auto_archive_rules)
      BY <2>2, AutoArchiveSafe DEF Load
    <2>3. CASE \E d \in Deals : Load(r, DealUpdates(d))
      BY <2>3, DealUpdatesSafe DEF Load
    <2>4. CASE \E c \in Contents : Load(r, ItemUpdates(c))
      BY <2>4, ItemUpdatesSafe DEF Load
    <2>5. CASE \E a \in Assets : Load(r, AssetUpdates(a))
      BY <2>5, AssetUpdatesSafe DEF Load
    <2>6. QED BY <2>1, <2>2, <2>3, <2>4, <2>5 DEF Handle
  <1>2. Committed'
    BY <1>1, StutterKeeps DEF InFlightBalanced, Committed
  <1>3. \A q \in Requests : \A v \in pending'[q] : WellTyped(v) /\ Balanced(v)
    BY <1>1 DEF InFlightBalanced, Safe
  <1>4. QED BY <1>2, <1>3 DEF InFlightBalanced, Committed

LEMMA SettleKeeps ==
  ASSUME InFlightBalanced, NEW r \in Requests, CommitRequest(r) \/ Rollback(r)
  PROVE  InFlightBalanced'
  <1>1. Committed'
    <2>1. CASE CommitRequest(r)
      BY <2>1, ApplyKeeps DEF CommitRequest, InFlightBalanced, Committed, Safe
    <2>2. CASE Rollback(r)
      BY <2>2, StutterKeeps DEF Rollback, InFlightBalanced, Committed
    <2>3. QED BY <2>1, <2>2
  <1>2. pending' = [pending EXCEPT ![r] = {}]
    BY DEF CommitRequest, Rollback
  <1>3. \A q \in Requests : \A v \in pending'[q] : WellTyped(v) /\ Balanced(v)
    BY <1>2 DEF InFlightBalanced
  <1>4. QED BY <1>1, <1>3 DEF InFlightBalanced, Committed

(* InFlightBalanced is inductive, and the ledger backs every status under  *)
(* every interleaving of sessions, rollbacks and crashes.                  *)
THEOREM ConcurrentSafety == ConcurrentSpec => [](InFlightBalanced /\ LedgerBacksStatus)
  <1>1. ConcurrentInit => InFlightBalanced
    BY InitCommitted DEF ConcurrentInit, InFlightBalanced, Committed
  <1>2. InFlightBalanced /\ [ConcurrentNext]_cvars => InFlightBalanced'
    <2> SUFFICES ASSUME InFlightBalanced, [ConcurrentNext]_cvars
                 PROVE  InFlightBalanced'
      OBVIOUS
    <2>1. CASE \E r \in Requests : Handle(r)
      BY <2>1, LoadKeeps
    <2>2. CASE \E r \in Requests : CommitRequest(r) \/ Rollback(r)
      BY <2>2, SettleKeeps
    <2>3. CASE Time
      BY <2>3, GrowDueKeeps DEF Time, InFlightBalanced, Committed
    <2>4. CASE UNCHANGED cvars
      BY <2>4, StutterKeeps DEF cvars, InFlightBalanced, Committed
    <2>5. QED BY <2>1, <2>2, <2>3, <2>4 DEF ConcurrentNext
  <1>3. InFlightBalanced => LedgerBacksStatus
    BY DEF InFlightBalanced
  <1>4. QED BY <1>1, <1>2, <1>3, PTL DEF ConcurrentSpec
=============================================================================

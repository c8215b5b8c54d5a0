-------------------------- MODULE SalesDeskConcurrent --------------------------
(***************************************************************************)
(* SalesDesk with the interleavings its database allows.  Endpoints run in *)
(* a thread pool, each with a session of its own (backend/app/db/session.py*)
(* and backend/app/api/deps.py), at PostgreSQL's READ COMMITTED, without   *)
(* row locks or version columns: a handler decides on the rows it read and *)
(* its flush lands later, on whatever the rows are by then.                *)
(***************************************************************************)
EXTENDS SalesDesk

CONSTANT Requests  \* sessions open at once: request threads and the daemon

VARIABLE pending   \* per session, the update it is going to flush, if any

cvars == <<vars, pending>>

ConcurrentInit == Init /\ pending = [r \in Requests |-> {}]

(* The handler runs on the rows committed so far and decides on an update. *)
Load(r, updates) ==
  /\ pending[r] = {}
  /\ \E u \in updates : pending' = [pending EXCEPT ![r] = {u}]
  /\ UNCHANGED vars

ProductUpdates(p) ==
  UNION {create_product(p), update_product(p), delete_product(p),
         create_transaction(p), change_status(p)}
DealUpdates(d) ==
  UNION {create_deal_from_email(d), update_deal_draft(d), update_deal_from_email(d)}
ItemUpdates(c) == UNION {create_item(c), update_item(c), delete_item(c)}
AssetUpdates(a) == create_asset(a) \union update_asset(a)

(* The flush and the commit.  Of two sessions that write one row the       *)
(* second waits for the first and then overwrites it.                      *)
CommitRequest(r) ==
  /\ \E u \in pending[r] : Committable(u) /\ Apply(u)
  /\ pending' = [pending EXCEPT ![r] = {}]

(* A failed flush, an error of the handler or a crash of the process: the  *)
(* session is closed and nothing it was going to write remains.            *)
Rollback(r) ==
  /\ pending[r] # {}
  /\ pending' = [pending EXCEPT ![r] = {}]
  /\ UNCHANGED vars

Time == (\E p \in Products : GrowDue(p)) /\ UNCHANGED pending

Handle(r) ==
  \/ \E p \in Products : Load(r, ProductUpdates(p))
  \/ Load(r, apply_auto_archive_rules)
  \/ \E d \in Deals : Load(r, DealUpdates(d))
  \/ \E c \in Contents : Load(r, ItemUpdates(c))
  \/ \E a \in Assets : Load(r, AssetUpdates(a))

ConcurrentNext ==
  \/ \E r \in Requests : Handle(r) \/ CommitRequest(r) \/ Rollback(r)
  \/ Time

ConcurrentSpec == ConcurrentInit /\ [][ConcurrentNext]_cvars

-----------------------------------------------------------------------------
(* What every update in flight keeps to, however old the rows it was       *)
(* decided on: it writes values of their columns' types, and it books what *)
(* the statuses it writes ask for.                                         *)

Writes(f, rows, values) == DOMAIN f \subseteq rows /\ \A x \in DOMAIN f : f[x] \in values

WellTyped(u) ==
  /\ Writes(u.status, Products, ProductStatus)
  /\ Writes(u.wf, Rows, WorkflowStatus)
  /\ Writes(u.reason, Rows, BOOLEAN)
  /\ Writes(u.link, Artifacts, Products \union {None})
  /\ Writes(u.stage, Deals, DealDraftStatus)

Balanced(u) ==
  \A p \in DOMAIN u.status :
    \A t \in product_status_side_effect(u.status[p]) : <<p, t>> \in u.tx

(* The inductive invariant behind TypeOK and LedgerBacksStatus: what is    *)
(* committed is typed and backed, what is in flight will keep it so, and a *)
(* product is inserted as active.                                          *)
InFlightBalanced ==
  /\ TypeOK
  /\ LedgerBacksStatus
  /\ \A p \in Products : life[p] = "new" => status[p] = "active"
  /\ \A r \in Requests : \A u \in pending[r] : WellTyped(u) /\ Balanced(u)
=============================================================================

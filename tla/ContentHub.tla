------------------------------ MODULE ContentHub ------------------------------
(***************************************************************************)
(* One content item of the planning hub with its tasks and its assets      *)
(* (backend/app/services/content_service.py): its status machine, the      *)
(* publish gate and the stored readiness score.  A handler is the set of   *)
(* rows it may leave behind, and the empty set when it refuses.            *)
(* SerialSpec commits them at once.  In RaceSpec a session reads and       *)
(* decides, flushes, which locks the rows it writes, then looks at the     *)
(* tasks and assets for the score and the gate, and commits.               *)
(***************************************************************************)
EXTENDS Workflow, Integers, FiniteSets, FiniteSetsExt

CONSTANTS Tasks, Attachments, Authors, NoAsset

ASSUME HubFinite == IsFiniteSet(Tasks) /\ IsFiniteSet(Attachments)

ContentStatus == {"idea", "draft", "recorded", "edited", "scheduled", "published"}

CONTENT_STATUS_TRANSITIONS ==
  [idea      |-> {"draft"},
   draft     |-> {"recorded", "scheduled"},
   recorded  |-> {"edited"},
   edited    |-> {"scheduled", "published"},
   scheduled |-> {"published", "draft"},
   published |-> {}]

VARIABLES
  item,     \* the ContentItem row
  task,     \* the ContentTask rows of the item
  attached, \* review_state of the assets the item owns; "open" is any of the
            \* undecided states, quarantine to pending
  strict,   \* the active platform profile requires publish_date and external_url
  pending   \* per session, the request under way, if any: the item it has
            \* read, the column writes it flushes, the rows it has locked

rows == <<item, task, attached>>
hvars == <<item, task, attached, strict, pending>>

NewItem ==
  [life |-> "new", status |-> "idea", wf |-> "draft", dated |-> FALSE, linked |-> FALSE,
   primary |-> NoAsset, published |-> FALSE, score |-> 0]
NoTask == [life |-> "none", done |-> FALSE, blocks |-> FALSE]

TaskRow == [life : {"none", "live"}, done : BOOLEAN, blocks : BOOLEAN]
ItemRow ==
  [life : {"new", "live", "gone"}, status : ContentStatus, wf : WorkflowStatus,
   dated : BOOLEAN,     \* publish_date is set
   linked : BOOLEAN,    \* external_url is set
   primary : Attachments \union {NoAsset},
   published : BOOLEAN, \* published_at is set
   score : 0..100]      \* readiness_score

HubTypeOK ==
  /\ item \in ItemRow
  /\ task \in [Tasks -> TaskRow]
  /\ attached \in [Attachments -> {"none", "open", "approved", "rejected"}]
  /\ strict \in BOOLEAN
  /\ \A r \in Authors : Cardinality(pending[r]) <= 1

HubInit ==
  /\ item = NewItem
  /\ task = [t \in Tasks |-> NoTask]
  /\ attached = [a \in Attachments |-> "none"]
  /\ strict \in BOOLEAN
  /\ pending = [r \in Authors |-> {}]

-----------------------------------------------------------------------------
(* Readiness and the publish gate, over rows i, ts, as as a handler sees   *)
(* them.                                                                   *)

Missing(i) == IF strict THEN (IF i.dated THEN 0 ELSE 1) + (IF i.linked THEN 0 ELSE 1) ELSE 0
Blocking(ts) == {t \in Tasks : ts[t].life = "live" /\ ts[t].blocks /\ ~ts[t].done}
Approved(as) == {a \in Attachments : as[a] = "approved"}

compute_readiness_score(missing, open, approved) ==
  LET score == 100 - Min({30, 10 * missing}) - Min({40, 10 * open})
                   - (IF approved = 0 THEN 20 ELSE 0)
  IN  IF score < 0 THEN 0 ELSE score

Readiness(i, ts, as) ==
  compute_readiness_score(Missing(i), Cardinality(Blocking(ts)), Cardinality(Approved(as)))

PublishReady(i, ts, as) ==
  /\ i.wf = "approved"
  /\ Blocking(ts) = {}
  /\ Missing(i) = 0
  /\ Approved(as) # {}

(* The rows after a mutation that ends in _refresh_item_readiness. *)
Refreshed(i, ts, as) ==
  [item |-> IF i.life = "live" THEN [i EXCEPT !.score = Readiness(i, ts, as)] ELSE i,
   task |-> ts, attached |-> as]

When(cond, outcomes) == IF cond THEN outcomes ELSE {}

-----------------------------------------------------------------------------
(* Content items.                                                          *)

(* planned_date is not kept as a column: a request that schedules an item  *)
(* may bring one.                                                          *)
validate_content_status_change(current, target, dated, linked) ==
  /\ current = target \/ target \in CONTENT_STATUS_TRANSITIONS[current]
  /\ target = "published" => dated \/ linked

(* Any status and any workflow status may be asked for at once; the        *)
(* default tasks that come with an item block nothing.                     *)
create_item ==
  When(item.life = "new",
    {Refreshed([NewItem EXCEPT !.life = "live", !.status = in.status, !.wf = in.wf,
                               !.dated = in.dated, !.linked = in.linked],
               [t \in Tasks |-> IF t \in in.defaults THEN [NoTask EXCEPT !.life = "live"]
                                                     ELSE NoTask],
               attached) :
       in \in {i \in [status : ContentStatus, wf : WorkflowStatus, dated : BOOLEAN,
                      linked : BOOLEAN, defaults : SUBSET Tasks] :
                 validate_content_status_change(i.status, i.status, i.dated, i.linked)}})

(* The row a PATCH leads to.  Publishing sets a missing publish_date, too  *)
(* late to count as a change.                                              *)
Patched(in, asked, relevant) ==
  LET publishes == in.status = "published" /\ item.status # "published"
      changed == relevant \/ in.dated # item.dated \/ in.linked # item.linked
  IN  [item EXCEPT
         !.status = in.status, !.wf = TargetStatus(item.wf, asked, changed),
         !.dated = in.dated \/ publishes, !.linked = in.linked, !.primary = in.primary,
         !.published = in.status = "published" /\ (item.published \/ publishes)]

PatchValid(new) ==
  /\ validate_workflow_status_change(item.wf, new.wf, TRUE)
  /\ new.primary # NoAsset => attached[new.primary] = "approved"

(* A slip: the gate is forgotten. *)
UngatedPatch(new) == PatchValid(new)

PatchAccepted(new) ==
  /\ PatchValid(new)
  /\ new.status = "published" /\ item.status # "published" =>
       PublishReady(new, task, attached)

ItemInputs ==
  {in \in [status : {item.status} \union CONTENT_STATUS_TRANSITIONS[item.status],
           dated : BOOLEAN, linked : BOOLEAN, primary : Attachments \union {NoAsset}] :
     validate_content_status_change(item.status, in.status, in.dated, in.linked)}

Patches ==
  {Patched(in, asked, relevant) :
     in \in ItemInputs, asked \in Requested, relevant \in BOOLEAN}

update_item ==
  When(item.life = "live",
    {Refreshed(new, task, attached) : new \in {i \in Patches : PatchAccepted(i)}})

delete_item ==
  When(item.life = "live",
    {Refreshed([item EXCEPT !.life = "gone"], [t \in Tasks |-> NoTask], attached)})

-----------------------------------------------------------------------------
(* Tasks and assets: each mutation refreshes the score of the item.        *)

(* A slip: the score is left to the next PATCH of the item. *)
TaskChangeOnly(ts) == [item |-> item, task |-> ts, attached |-> attached]

TaskChange(ts) == Refreshed(item, ts, attached)

create_task(t) ==
  When(item.life = "live" /\ task[t].life = "none",
    {TaskChange([task EXCEPT ![t] = [life |-> "live", done |-> done, blocks |-> blocks]]) :
       done \in BOOLEAN, blocks \in BOOLEAN})

update_task(t) ==
  When(task[t].life = "live",
    {TaskChange([task EXCEPT ![t].done = done, ![t].blocks = blocks]) :
       done \in BOOLEAN, blocks \in BOOLEAN})

delete_task(t) ==
  When(task[t].life = "live", {TaskChange([task EXCEPT ![t] = NoTask])})

TemplateMode == {"append", "replace", "replace but done"}

(* The tasks a template keeps: all of them when it appends, else none or   *)
(* those that are done.  Its own tasks are new rows.                       *)
Kept(mode) == {t \in Tasks : mode = "append" \/ (mode = "replace but done" /\ task[t].done)}

Applied(mode, new, blocking) ==
  [t \in Tasks |-> IF t \in new THEN [life |-> "live", done |-> FALSE, blocks |-> blocking[t]]
                   ELSE IF t \in Kept(mode) THEN task[t] ELSE NoTask]

apply_checklist_template ==
  When(item.life = "live",
    {TaskChange(Applied(mode, new, blocking)) :
       mode \in TemplateMode, new \in SUBSET {t \in Tasks : task[t].life = "none"},
       blocking \in [Tasks -> BOOLEAN]})

AssetChange(as) == Refreshed(item, task, as)

create_asset(a) ==
  When(item.life = "live" /\ attached[a] = "none", {AssetChange([attached EXCEPT ![a] = "open"])})

(* Decisions and their withdrawal, without the steps among the undecided   *)
(* states.                                                                 *)
decide_asset(a) ==
  When(attached[a] # "none",
    {AssetChange([attached EXCEPT ![a] = s]) :
       s \in {"open", "rejected"} \union (IF attached[a] = "rejected" THEN {} ELSE {"approved"})})

(* The sale of the linked product archives the item and refreshes nothing. *)
finalize_product_sale ==
  When(item.life = "live" /\ validate_workflow_status_change(item.wf, "archived", TRUE),
    {[item |-> [item EXCEPT !.wf = "archived"], task |-> task, attached |-> attached]})

-----------------------------------------------------------------------------
(* Serial requests. *)

Conclude(outcomes) ==
  /\ \E o \in outcomes : item' = o.item /\ task' = o.task /\ attached' = o.attached
  /\ UNCHANGED <<strict, pending>>

CreateItem == Conclude(create_item)
UpdateItem == Conclude(update_item)
DeleteItem == Conclude(delete_item)
CreateTask == \E t \in Tasks : Conclude(create_task(t))
UpdateTask == \E t \in Tasks : Conclude(update_task(t))
DeleteTask == \E t \in Tasks : Conclude(delete_task(t))
ApplyTemplate == Conclude(apply_checklist_template)
CreateAsset == \E a \in Attachments : Conclude(create_asset(a))
UpdateAsset == \E a \in Attachments : Conclude(decide_asset(a))
SellProduct == Conclude(finalize_product_sale)

(* Another profile becomes the active one: no item is refreshed. *)
ChangeProfile == strict' \in BOOLEAN /\ UNCHANGED <<item, task, attached, pending>>

SerialNext ==
  \/ CreateItem \/ UpdateItem \/ DeleteItem
  \/ CreateTask \/ UpdateTask \/ DeleteTask \/ ApplyTemplate
  \/ CreateAsset \/ UpdateAsset
  \/ SellProduct \/ ChangeProfile

SerialSpec == HubInit /\ [][SerialNext]_hvars

-----------------------------------------------------------------------------
(* Concurrent requests.  What a session writes: per column the set with    *)
(* the new value, or nothing where the handler changed nothing.            *)

Diff(old, new) == [k \in DOMAIN old |-> IF new[k] = old[k] THEN {} ELSE {new[k]}]
Patch(old, diff) ==
  [k \in DOMAIN old |-> IF diff[k] = {} THEN old[k] ELSE CHOOSE v \in diff[k] : TRUE]
Touches(diff) == \E k \in DOMAIN diff : diff[k] # {}

(* All but the score, which is computed after the flush. *)
Writes(o) ==
  [item |-> Diff(item, [o.item EXCEPT !.score = item.score]),
   task |-> [t \in Tasks |-> Diff(task[t], o.task[t])],
   attached |-> Diff(attached, o.attached)]

(* An UPDATE or a DELETE locks its row to the end of the transaction; one  *)
(* of a row that another session has locked waits.                         *)
RowsOf(w) ==
  (IF Touches(w.item) THEN {"item"} ELSE {}) \union {t \in Tasks : Touches(w.task[t])}
  \union {a \in Attachments : w.attached[a] # {}}
Waits(r, w) ==
  \E q \in Authors \ {r} : \E f \in pending[q] : f.locks \intersect RowsOf(w) # {}

(* Updated rows must still exist, and a row is inserted once. *)
Committable(w) ==
  /\ Touches(w.item) => item.life = (IF w.item.life = {"live"} THEN "new" ELSE "live")
  /\ \A t \in Tasks :
       Touches(w.task[t]) =>
         IF w.task[t].life = {"live"} THEN task[t].life = "none" /\ item.life # "gone"
                                      ELSE task[t].life = "live"

(* The checks of update_item that come before its flush. *)
decide_update ==
  When(item.life = "live",
    {[item |-> i, task |-> task, attached |-> attached] : i \in {i \in Patches : PatchValid(i)}})

Load(r, outcomes, refreshes) ==
  /\ pending[r] = {}
  /\ \E o \in outcomes :
       pending' = [pending EXCEPT ![r] =
         {[step |-> "read", read |-> item, writes |-> Writes(o), refreshes |-> refreshes,
           locks |-> {}]}]
  /\ UNCHANGED <<item, task, attached, strict>>

(* The flush of _refresh_item_readiness, and what follows it: the score    *)
(* and the gate, over the item as the session knows it and over the tasks  *)
(* and assets of this moment.  A request that is refused rolls back.       *)
Flush(r) ==
  /\ \E f \in pending[r] :
       LET w == f.writes
           i == IF Touches(w.item) THEN Patch(f.read, w.item) ELSE item
           ts == [t \in Tasks |-> Patch(task[t], w.task[t])]
           as == Patch(attached, w.attached)
           score == IF f.refreshes /\ i.life = "live" THEN {Readiness(i, ts, as)} \ {i.score} ELSE {}
       IN  /\ f.step = "read" /\ ~Waits(r, w) /\ Committable(w)
           /\ w.item.status = {"published"} => PublishReady(i, ts, as)
           /\ pending' = [pending EXCEPT ![r] =
                {[f EXCEPT !.step = "flushed", !.locks = RowsOf(w), !.writes.item.score = score]}]
  /\ UNCHANGED <<item, task, attached, strict>>

(* The score is flushed with the commit: it too may have to wait. *)
CommitRequest(r) ==
  /\ \E f \in pending[r] :
       LET w == f.writes
           i == Patch(item, w.item)
       IN  /\ f.step = "flushed" /\ ~Waits(r, w) /\ Committable(w)
           /\ item' = i
           /\ task' = [t \in Tasks |-> IF i.life = "gone" THEN NoTask
                                      ELSE Patch(task[t], w.task[t])]
           /\ attached' = Patch(attached, w.attached)
  /\ pending' = [pending EXCEPT ![r] = {}]
  /\ UNCHANGED strict

Rollback(r) ==
  /\ pending[r] # {}
  /\ pending' = [pending EXCEPT ![r] = {}]
  /\ UNCHANGED <<item, task, attached, strict>>

RaceNext ==
  \/ ChangeProfile
  \/ \E r \in Authors :
       \/ Load(r, create_item \union decide_update \union apply_checklist_template, TRUE)
       \/ Load(r, UNION {create_task(t) \union update_task(t) \union delete_task(t) : t \in Tasks}, TRUE)
       \/ Load(r, UNION {create_asset(a) \union decide_asset(a) : a \in Attachments}, TRUE)
       \/ Load(r, delete_item \union finalize_product_sale, FALSE)
       \/ Flush(r) \/ CommitRequest(r) \/ Rollback(r)

RaceSpec == HubInit /\ [][RaceNext]_hvars

-----------------------------------------------------------------------------
(* A mutation of a task or an asset leaves the item with the score of the  *)
(* rows as they are then, even after a change of the profile has made the  *)
(* stored score stale.                                                     *)
Fresh == item.life = "live" => item.score = Readiness(item, task, attached)
ScoreRefreshed == [][task' # task \/ attached' # attached => Fresh']_hvars

(* An existing item becomes published only while it is approved, has an    *)
(* approved asset and no open blocking task, and misses no field.          *)
PublishThroughGate ==
  [][item.life = "live" /\ item'.life = "live" /\ item.status # "published"
     /\ item'.status = "published" => PublishReady(item', task', attached')]_hvars

(* Whoever publishes an item, its approval still stands then, or somebody  *)
(* has moved it on to published: it was not sent back, rejected or         *)
(* archived since the gate asked for it.                                   *)
PublishedWhileApproved ==
  [][item.life = "live" /\ item'.life = "live" /\ item.status # "published"
     /\ item'.status = "published" => item'.wf \in {"approved", "published"}]_hvars
=============================================================================

------------------------------ MODULE ProjectDesk ------------------------------
(***************************************************************************)
(* Projects with their categories and the content items and products they  *)
(* join (services/project_service.py, models/project.py).                  *)
(*                                                                         *)
(* A request checks what it reads and commits once; the database has the   *)
(* last word on names, references and links.  Items and products also      *)
(* change behind the projects' back: they are created, archived and        *)
(* deleted by their own routers.                                           *)
(***************************************************************************)
EXTENDS Naturals, FiniteSets, Functions

CONSTANTS
  Projects, Categories,  \* ids of rows
  Items, Goods,          \* content items and products
  Names,                 \* names of categories, and what they are in lower case
  Lower,
  Days,                  \* dates, 0 for none
  Nil,
  Planners               \* sessions open at once

ASSUME NamesFold == DOMAIN Lower = Names /\ Range(Lower) \subseteq Names
ASSUME DaysCount == Days \subseteq Nat /\ 0 \in Days
ASSUME IdsApart ==
  Categories \intersect Projects = {} /\ Nil \notin Categories \union Projects \union Planners

VARIABLES
  category, project,  \* rows
  links,              \* project_content_links and project_product_links
  thing,              \* items and products: "none", "live" or "archived"
  planner,            \* what each session is about to commit
  mixed               \* projects changed by requests that overlapped others

pvars == <<category, project, links, thing, planner, mixed>>

PreviewStatus == {"not_required", "pending", "requested", "changes_requested", "approved"}
Things == Items \union Goods
AtRest == [row |-> Nil]
Rows == [i \in Categories \union Projects |-> IF i \in Categories THEN category[i] ELSE project[i]]
Stands(i) == i # Nil /\ Rows[i] # Nil

(* New ids are nobody else's. *)
AtWork == {s \in Planners : planner[s] # AtRest}
Taken == {planner[s].row : s \in AtWork} \union UNION {planner[s].makes : s \in AtWork}

ProjectsTypeOK ==
  /\ category \in [Categories -> [name : Names] \union {Nil}]
  /\ \A p \in Projects : Stands(p) =>
       /\ project[p].category = Nil \/ Stands(project[p].category)
       /\ project[p].required \in BOOLEAN /\ project[p].preview \in PreviewStatus
       /\ project[p].start \in Days /\ project[p].due \in Days
  /\ thing \in [Things -> {"none", "live", "archived"}]
  /\ \A l \in links : Stands(l[1]) /\ thing[l[2]] # "none"

-----------------------------------------------------------------------------
(* Handlers: the row a session changes, links to add and to remove, and    *)
(* the item or product it creates.                                         *)
Work(i, want, add, cut, makes) ==
  [row |-> i, read |-> Rows[i], want |-> want, add |-> add, cut |-> cut, makes |-> makes,
   met |-> FALSE]
OnRow(i, want) == {Work(i, want, {}, {}, {})}

(* A slip: names are compared as they are written. *)
ExactName(n, own) == \A c \in Categories \ {own} : Stands(c) => category[c].name # n

_ensure_unique_category_name(n, own) ==
  \A c \in Categories \ {own} : Stands(c) => Lower[category[c].name] # Lower[n]

create_category(c, n) ==
  IF ~Stands(c) /\ c \notin Taken /\ _ensure_unique_category_name(n, Nil) THEN OnRow(c, [name |-> n]) ELSE {}
update_category(c, n) ==
  IF Stands(c) /\ _ensure_unique_category_name(n, c) THEN OnRow(c, [name |-> n]) ELSE {}
delete_category(c) == IF Stands(c) THEN OnRow(c, Nil) ELSE {}

_sync_preview_state(row) ==
  CASE ~row.required -> [row EXCEPT !.preview = "not_required"]
    [] row.required /\ row.preview = "not_required" -> [row EXCEPT !.preview = "pending"]
    [] OTHER -> row

(* A slip: the due date may be the day before. *)
AlmostDates(start, due) == start # 0 /\ due # 0 => due + 1 >= start

_validate_dates(start, due) == start # 0 /\ due # 0 => due >= start

_resolve_products(xs) == \A x \in xs : thing[x] = "live"

ProjectRow(c, required, preview, start, due) ==
  [category |-> c, required |-> required, preview |-> preview, start |-> start, due |-> due]

ASSUME NilIsNoRow ==
  /\ \A n \in Names : [name |-> n] # Nil
  /\ \A c \in Categories \union {Nil}, required \in BOOLEAN, preview \in PreviewStatus,
        start \in Days, due \in Days : ProjectRow(c, required, preview, start, due) # Nil

create_project(p, row, xs) ==
  IF /\ ~Stands(p) /\ p \notin Taken /\ (row.category = Nil \/ Stands(row.category))
     /\ _validate_dates(row.start, row.due) /\ _resolve_products(xs)
    THEN {Work(p, _sync_preview_state(row), {p} \X xs, {}, {})} ELSE {}

(* The fields a PATCH sends replace the row's.                             *)
update_project(p, field, value) ==
  LET row == [project[p] EXCEPT ![field] = value] IN
  IF /\ field = "category" => value = Nil \/ Stands(value)
     /\ _validate_dates(row.start, row.due)
    THEN OnRow(p, _sync_preview_state(row)) ELSE {}

delete_project(p) == OnRow(p, Nil)

link_content(p, x) ==
  IF _resolve_products({x}) /\ <<p, x>> \notin links
    THEN {Work(p, project[p], {<<p, x>>}, {}, {})} ELSE {}

unlink_content(p, x) ==
  IF <<p, x>> \in links THEN {Work(p, project[p], {}, {<<p, x>>}, {})} ELSE {}

create_linked_content(p, x) ==
  IF thing[x] = "none" /\ x \notin Taken THEN {Work(p, project[p], {<<p, x>>}, {}, {x})} ELSE {}

-----------------------------------------------------------------------------
ProjectsInit ==
  /\ category = [c \in Categories |-> Nil] /\ project = [p \in Projects |-> Nil]
  /\ links = {} /\ thing = [x \in Things |-> "none"]
  /\ planner = [s \in Planners |-> AtRest] /\ mixed = {}

RowRequests(p) ==
  delete_project(p)
    \union (UNION {link_content(p, x) \union unlink_content(p, x) : x \in {y \in Things : thing[y] # "none"}})
    \union (UNION {create_linked_content(p, x) : x \in Things})
    \union (UNION {update_project(p, "category", c) : c \in Categories \union {Nil}})
    \union (UNION {update_project(p, "required", b) : b \in BOOLEAN})
    \union (UNION {update_project(p, "preview", v) : v \in PreviewStatus})
    \union (UNION {update_project(p, f, d) : f \in {"start", "due"}, d \in Days})

Requests ==
  (UNION {create_category(c, n) \union update_category(c, n) : c \in Categories, n \in Names})
    \union (UNION {delete_category(c) : c \in Categories})
    \union (UNION {create_project(p, ProjectRow(c, required, preview, start, due), xs) :
             p \in Projects, c \in Categories \union {Nil}, required \in BOOLEAN,
             preview \in {"not_required", "approved"}, start \in Days, due \in Days,
             xs \in SUBSET {x \in Things : thing[x] # "none"}})
    \union (UNION {RowRequests(p) : p \in {q \in Projects : Stands(q)}})

BeginPlan(s) ==
  /\ planner[s] = AtRest
  /\ \E w \in Requests : planner' = [planner EXCEPT ![s] = w]
  /\ UNCHANGED <<category, project, links, thing, mixed>>

(* The row as the statements of the commit leave it: changed columns only. *)
RowAfter(w) ==
  IF w.row \in Categories \/ w.read = Nil \/ w.want = Nil \/ ~Stands(w.row) THEN w.want
  ELSE [c \in DOMAIN w.want |->
          IF w.want[c] = w.read[c] THEN project[w.row][c] ELSE w.want[c]]

(* The unique index on the lower-case name, the references, the keys of    *)
(* the link tables, and the rows an UPDATE or a DELETE has to find.        *)
Lands(w) ==
  LET after == RowAfter(w) IN
  /\ w.row \in Categories /\ w.want # Nil =>
       \A c \in Categories \ {w.row} : Stands(c) => Lower[category[c].name] # Lower[w.want.name]
  /\ w.row \in Projects /\ w.want # Nil => after.category = Nil \/ Stands(after.category)
  /\ w.read # Nil /\ w.want # w.read => Stands(w.row)
  /\ w.add \intersect links = {} /\ w.cut \subseteq links
  /\ w.add # {} => \A l \in w.add : (Stands(w.row) \/ w.read = Nil)
                                    /\ (thing[l[2]] # "none" \/ l[2] \in w.makes)

(* Those at work learn nothing of what others commit.                      *)
OthersMet(s) ==
  planner' = [o \in Planners |->
                IF o = s THEN AtRest
                ELSE IF planner[o] # AtRest THEN [planner[o] EXCEPT !.met = TRUE] ELSE planner[o]]

CommitPlan(s) ==
  LET w == planner[s] IN
  /\ w # AtRest /\ Lands(w)
  /\ category' = IF w.row \in Categories THEN [category EXCEPT ![w.row] = w.want] ELSE category
  /\ project' = [p \in Projects |->
       IF p = w.row THEN (IF w.want # w.read THEN RowAfter(w) ELSE project[p])
       ELSE IF Stands(p) /\ w.want = Nil /\ project[p].category = w.row
         THEN [project[p] EXCEPT !.category = Nil] ELSE project[p]]
  /\ links' = {l \in links \union w.add : l \notin w.cut /\ (w.want = Nil => l[1] # w.row)}
  /\ thing' = [x \in Things |-> IF x \in w.makes THEN "live" ELSE thing[x]]
  /\ mixed' = IF w.met /\ w.row \in Projects THEN mixed \union {w.row} ELSE mixed
  /\ OthersMet(s)

DropPlan(s) ==
  /\ planner[s] # AtRest
  /\ planner' = [planner EXCEPT ![s] = AtRest]
  /\ UNCHANGED <<category, project, links, thing, mixed>>

(* What the other routers do to items and products.                        *)
ThingChanges ==
  /\ \E x \in Things :
       \/ thing[x] = "none" /\ x \notin Taken /\ thing' = [thing EXCEPT ![x] = "live"] /\ links' = links
       \/ thing[x] = "live" /\ x \in Goods /\ thing' = [thing EXCEPT ![x] = "archived"] /\ links' = links
       \/ thing[x] # "none" /\ thing' = [thing EXCEPT ![x] = "none"]
          /\ links' = {l \in links : l[2] # x}
  /\ OthersMet(Nil)
  /\ UNCHANGED <<category, project, mixed>>

ProjectsNext == (\E s \in Planners : BeginPlan(s) \/ CommitPlan(s) \/ DropPlan(s)) \/ ThingChanges

ProjectsSpec == ProjectsInit /\ [][ProjectsNext]_pvars

-----------------------------------------------------------------------------
(* The database never refuses a request that overlapped no other change:   *)
(* names, references and links have been checked before.                   *)
RequestsLand ==
  \A s \in Planners : planner[s] # AtRest /\ ~planner[s].met => Lands(planner[s])

(* Unless a change of the project overlapped another request of any kind:  *)
(* "Due date must not be before start date", whichever of the two dates was *)
(* sent last, and a project has a preview status exactly when it requires  *)
(* a preview.                                                              *)
ProjectFieldsAgree ==
  \A p \in Projects \ mixed : Stands(p) =>
    /\ project[p].start # 0 /\ project[p].due # 0 => project[p].due >= project[p].start
    /\ project[p].required <=> project[p].preview # "not_required"

=============================================================================

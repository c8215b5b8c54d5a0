---------------------------- MODULE PlanningProofs ----------------------------
(***************************************************************************)
(* Projects, their categories and links, for any number of sessions, rows, *)
(* names and dates; and a content item with any number of tasks and assets.*)
(* At the end the run that composes both with the pictures.                *)
(***************************************************************************)
EXTENDS MCLibrary, AssetProofs, FiniteSetTheorems, TLAPS

CategoryRows == [name : Names]
ProjectRows ==
  [category : Categories \union {Nil}, required : BOOLEAN, preview : PreviewStatus,
   start : Days, due : Days]
RowsFor(i) == IF i \in Categories THEN CategoryRows ELSE ProjectRows

FieldsAgree(row) ==
  /\ row.start # 0 /\ row.due # 0 => row.due >= row.start
  /\ row.required <=> row.preview # "not_required"

(* Categories and links refer to rows that are there.                      *)
TablesOK ==
  /\ category \in [Categories -> CategoryRows \union {Nil}]
  /\ project \in [Projects -> ProjectRows \union {Nil}]
  /\ \A p \in Projects : project[p] # Nil =>
       project[p].category = Nil \/ Stands(project[p].category)
  /\ thing \in [Things -> {"none", "live", "archived"}]
  /\ \A l \in links : l \in Projects \X Things /\ Stands(l[1]) /\ thing[l[2]] # "none"

(* A project a session is to write is one the checks have passed.          *)
IsWork(w) ==
  w = [row |-> w.row, read |-> w.read, want |-> w.want, add |-> w.add, cut |-> w.cut,
       makes |-> w.makes, met |-> w.met]
WorkOK(w) ==
  /\ IsWork(w) /\ w.row \in Categories \union Projects
  /\ w.read \in RowsFor(w.row) \union {Nil} /\ w.want \in RowsFor(w.row) \union {Nil}
  /\ w.add \subseteq {w.row} \X Things
  /\ w.row \in Categories \/ w.want = Nil => w.add = {}
  /\ w.row \in Projects /\ w.want # Nil /\ w.want # w.read => FieldsAgree(w.want)

(* Until somebody else commits, what the session read and checked holds.   *)
WorkFits(w) == ~w.met => w.read = Rows[w.row] /\ Lands(w)

PlansOK ==
  /\ DOMAIN planner = Planners
  /\ \A s \in Planners : planner[s] # AtRest => WorkOK(planner[s]) /\ WorkFits(planner[s])

FieldsOK == \A p \in Projects \ mixed : project[p] # Nil => FieldsAgree(project[p])

PlanInv == TablesOK /\ PlansOK /\ FieldsOK

-----------------------------------------------------------------------------
LEMMA StandingRows ==
  /\ \A c \in Categories : Rows[c] = category[c] /\ (Stands(c) <=> category[c] # Nil)
  /\ \A p \in Projects : Rows[p] = project[p] /\ (Stands(p) <=> project[p] # Nil) /\ p \notin Categories
  /\ ~Stands(Nil)
  BY IdsApart DEF Rows, Stands

LEMMA NilNoRow == Nil \notin CategoryRows /\ Nil \notin ProjectRows
<1>1. ASSUME Nil \in ProjectRows PROVE FALSE
  <2>1. PICK r \in ProjectRows : r = Nil
    BY <1>1
  <2>2. r = ProjectRow(r.category, r.required, r.preview, r.start, r.due)
    BY DEF ProjectRow, ProjectRows
  <2>3. /\ r.category \in Categories \union {Nil} /\ r.required \in BOOLEAN
        /\ r.preview \in PreviewStatus /\ r.start \in Days /\ r.due \in Days
    BY DEF ProjectRows
  <2> QED
    BY <2>1, <2>2, <2>3, NilIsNoRow
<1>2. ASSUME Nil \in CategoryRows PROVE FALSE
  <2>1. PICK n \in Names : Nil = [name |-> n]
    BY <1>2 DEF CategoryRows
  <2> QED
    BY <2>1, NilIsNoRow
<1> QED
  BY <1>1, <1>2

LEMMA WorkIsNoRest == ASSUME NEW w, WorkOK(w) PROVE w # AtRest
  BY IdsApart DEF WorkOK, AtRest

LEMMA InitPlans == ProjectsInit => PlanInv
  BY StandingRows DEF ProjectsInit, PlanInv, TablesOK, PlansOK, FieldsOK

-----------------------------------------------------------------------------
(* What the handlers decide: work that lands unless somebody else commits. *)
Planned(w) == WorkOK(w) /\ w.read = Rows[w.row] /\ Lands(w)

LEMMA Worked ==
  ASSUME NEW i, NEW want, NEW add, NEW cut, NEW makes, NEW w, w = Work(i, want, add, cut, makes)
  PROVE  /\ IsWork(w) /\ w.row = i /\ w.read = Rows[i] /\ w.want = want /\ w.add = add
         /\ w.cut = cut /\ w.makes = makes /\ ~w.met
  BY DEF Work, IsWork

LEMMA CategoryDecided ==
  ASSUME PlanInv, NEW c \in Categories, NEW w,
         \/ \E n \in Names : w \in create_category(c, n) \/ w \in update_category(c, n)
         \/ w \in delete_category(c)
  PROVE  Planned(w)
<1>1. category[c] \in CategoryRows \union {Nil} /\ c \notin Projects /\ Rows[c] = category[c]
  BY IdsApart, StandingRows DEF PlanInv, TablesOK
<1>2. ASSUME NEW n \in Names, w \in create_category(c, n) \/ w \in update_category(c, n)
      PROVE  Planned(w)
  <2>1. PICK want : want = [name |-> n]
    OBVIOUS
  <2>2. want \in CategoryRows /\ want.name = n /\ want # Nil
    BY <2>1, NilNoRow DEF CategoryRows
  <2>3. w = Work(c, want, {}, {}, {})
    BY <1>2, <2>1 DEF create_category, update_category, OnRow
  <2>4. \A x \in Categories \ {c} : Stands(x) => Lower[category[x].name] # Lower[n]
    BY <1>2, StandingRows, IdsApart DEF create_category, update_category, _ensure_unique_category_name
  <2>5. /\ IsWork(w) /\ w.row = c /\ w.read = Rows[c] /\ w.want = want /\ w.add = {}
        /\ w.cut = {} /\ w.makes = {}
    BY <2>3, Worked
  <2>6. Lands(w)
    BY <1>1, <2>2, <2>4, <2>5, StandingRows DEF Lands
  <2> QED
    BY <1>1, <2>2, <2>5, <2>6 DEF Planned, WorkOK, RowsFor
<1>3. ASSUME w \in delete_category(c) PROVE Planned(w)
  <2>1. w = Work(c, Nil, {}, {}, {}) /\ Stands(c)
    BY <1>3 DEF delete_category, OnRow
  <2>2. /\ IsWork(w) /\ w.row = c /\ w.read = Rows[c] /\ w.want = Nil /\ w.add = {}
        /\ w.cut = {} /\ w.makes = {}
    BY <2>1, Worked
  <2>3. Lands(w)
    BY <2>1, <2>2 DEF Lands
  <2> QED
    BY <1>1, <2>2, <2>3 DEF Planned, WorkOK, RowsFor
<1> QED
  BY <1>2, <1>3

(* Work on a project that keeps its references and links in order.         *)
LEMMA ProjectDecided ==
  ASSUME PlanInv, NEW p \in Projects, NEW want, NEW add, NEW cut, NEW makes, NEW w,
         w = Work(p, want, add, cut, makes),
         want = Nil \/ want \in ProjectRows,
         want # Nil => want.category = Nil \/ Stands(want.category),
         want # Nil /\ want # project[p] => FieldsAgree(want),
         add \subseteq {p} \X Things, want = Nil => add = {},
         add \intersect links = {}, cut \subseteq links,
         \A l \in add : thing[l[2]] # "none" \/ l[2] \in makes
  PROVE  Planned(w)
<1>1. /\ IsWork(w) /\ w.row = p /\ w.read = project[p] /\ w.want = want /\ w.add = add
      /\ w.cut = cut /\ w.makes = makes
  BY Worked, StandingRows
<1>2. p \notin Categories /\ project[p] \in ProjectRows \union {Nil} /\ (Stands(p) <=> project[p] # Nil)
      /\ Rows[p] = project[p]
  BY StandingRows DEF PlanInv, TablesOK
<1>3. RowAfter(w) = want
  <2>1. CASE project[p] = Nil \/ want = Nil
    BY <1>1, <2>1 DEF RowAfter
  <2>2. CASE project[p] # Nil /\ want # Nil
    <3>1. PICK o, r : o = project[p] /\ r = RowAfter(w)
      OBVIOUS
    <3>2. r = [c \in DOMAIN want |-> IF want[c] = o[c] THEN o[c] ELSE want[c]]
      BY <1>1, <1>2, <2>2, <3>1 DEF RowAfter
    <3>3. r = want
      BY <2>2, <3>2 DEF ProjectRows
    <3> QED
      BY <3>1, <3>3
  <2> QED
    BY <2>1, <2>2
<1>4. Lands(w)
  BY <1>1, <1>2, <1>3 DEF Lands
<1>5. WorkOK(w)
  BY <1>1, <1>2 DEF WorkOK, RowsFor
<1> QED
  BY <1>1, <1>2, <1>4, <1>5 DEF Planned

LEMMA Synced ==
  ASSUME NEW row \in ProjectRows, NEW r, r = _sync_preview_state(row)
  PROVE  /\ r \in ProjectRows /\ r.category = row.category /\ r.start = row.start /\ r.due = row.due
         /\ r.required <=> r.preview # "not_required"
<1>1. CASE ~row.required
  <2>1. r = [row EXCEPT !.preview = "not_required"]
    BY <1>1 DEF _sync_preview_state
  <2> QED
    BY <1>1, <2>1 DEF ProjectRows, PreviewStatus
<1>2. CASE row.required /\ row.preview = "not_required"
  <2>1. r = [row EXCEPT !.preview = "pending"]
    BY <1>2 DEF _sync_preview_state
  <2> QED
    BY <1>2, <2>1 DEF ProjectRows, PreviewStatus
<1>3. CASE row.required /\ row.preview # "not_required"
  <2>1. r = row
    BY <1>3 DEF _sync_preview_state
  <2> QED
    BY <1>3, <2>1 DEF ProjectRows
<1> QED
  BY <1>1, <1>2, <1>3 DEF ProjectRows

LEMMA CreateDecided ==
  ASSUME PlanInv, NEW p \in Projects, NEW row \in ProjectRows,
         NEW xs \in SUBSET {x \in Things : thing[x] # "none"}, NEW w \in create_project(p, row, xs)
  PROVE  Planned(w)
<1>1. PICK want : want = _sync_preview_state(row)
  OBVIOUS
<1>2. /\ want \in ProjectRows /\ want.category = row.category /\ want.start = row.start /\ want.due = row.due
      /\ want.required <=> want.preview # "not_required"
  BY <1>1, Synced
<1>3. /\ ~Stands(p) /\ (row.category = Nil \/ Stands(row.category)) /\ _validate_dates(row.start, row.due)
      /\ w = Work(p, want, {p} \X xs, {}, {})
  BY <1>1 DEF create_project
<1>4. FieldsAgree(want)
  BY <1>2, <1>3 DEF FieldsAgree, _validate_dates
<1>5. ({p} \X xs) \intersect links = {}
  BY <1>3 DEF PlanInv, TablesOK
<1>6. \A l \in {p} \X xs : thing[l[2]] # "none"
  OBVIOUS
<1>7. {p} \X xs \subseteq {p} \X Things
  OBVIOUS
<1> QED
  BY <1>2, <1>3, <1>4, <1>5, <1>6, <1>7, NilNoRow, ProjectDecided

LEMMA UpdateDecided ==
  ASSUME PlanInv, NEW p \in Projects, Stands(p), NEW field, NEW value,
         NEW row \in ProjectRows, row = [project[p] EXCEPT ![field] = value],
         IF field = "category" THEN row.category = value ELSE row.category = project[p].category,
         NEW w \in update_project(p, field, value)
  PROVE  Planned(w)
<1>1. PICK want : want = _sync_preview_state(row)
  OBVIOUS
<1>2. /\ want \in ProjectRows /\ want.category = row.category /\ want.start = row.start /\ want.due = row.due
      /\ want.required <=> want.preview # "not_required"
  BY <1>1, Synced
<1>3. /\ field = "category" => value = Nil \/ Stands(value)
      /\ _validate_dates(row.start, row.due) /\ w = Work(p, want, {}, {}, {})
  BY <1>1 DEF update_project, OnRow
<1>4. FieldsAgree(want)
  BY <1>2, <1>3 DEF FieldsAgree, _validate_dates
<1>5. want.category = Nil \/ Stands(want.category)
  BY <1>2, <1>3, StandingRows DEF PlanInv, TablesOK
<1> QED
  BY <1>2, <1>3, <1>4, <1>5, NilNoRow, ProjectDecided

LEMMA WriteDecided ==
  ASSUME PlanInv, NEW p \in Projects, Stands(p), NEW w \in RowRequests(p)
  PROVE  Planned(w)
<1>1. /\ project[p] \in ProjectRows /\ (project[p].category = Nil \/ Stands(project[p].category))
      /\ project[p] # Nil
  BY StandingRows DEF PlanInv, TablesOK
<1>2. CASE w \in delete_project(p)
  <2>1. w = Work(p, Nil, {}, {}, {})
    BY <1>2 DEF delete_project, OnRow
  <2> QED
    BY <2>1, ProjectDecided
<1>3. ASSUME NEW x \in Things, thing[x] # "none", w \in link_content(p, x)
      PROVE  Planned(w)
  <2>1. w = Work(p, project[p], {<<p, x>>}, {}, {}) /\ <<p, x>> \notin links
    BY <1>3 DEF link_content
  <2>2. /\ {<<p, x>>} \subseteq {p} \X Things /\ {<<p, x>>} \intersect links = {}
        /\ \A l \in {<<p, x>>} : thing[l[2]] # "none"
    BY <1>3, <2>1
  <2> QED
    BY <1>1, <2>1, <2>2, ProjectDecided
<1>4. ASSUME NEW x \in Things, w \in unlink_content(p, x)
      PROVE  Planned(w)
  <2>1. w = Work(p, project[p], {}, {<<p, x>>}, {}) /\ {<<p, x>>} \subseteq links
    BY <1>4 DEF unlink_content
  <2> QED
    BY <1>1, <2>1, ProjectDecided
<1>5. ASSUME NEW x \in Things, w \in create_linked_content(p, x)
      PROVE  Planned(w)
  <2>1. w = Work(p, project[p], {<<p, x>>}, {}, {x}) /\ thing[x] = "none"
    BY <1>5 DEF create_linked_content
  <2>2. /\ {<<p, x>>} \subseteq {p} \X Things /\ {<<p, x>>} \intersect links = {}
        /\ \A l \in {<<p, x>>} : l[2] \in {x}
    BY <2>1 DEF PlanInv, TablesOK
  <2> QED
    BY <1>1, <2>1, <2>2, ProjectDecided
<1>6. ASSUME NEW c \in Categories \union {Nil}, w \in update_project(p, "category", c) PROVE Planned(w)
  <2>1. PICK row : row = [project[p] EXCEPT !["category"] = c]
    OBVIOUS
  <2>2. row \in ProjectRows /\ row.category = c
    BY <1>1, <2>1 DEF ProjectRows
  <2> QED
    BY <1>6, <2>1, <2>2, UpdateDecided
<1>7. ASSUME NEW b \in BOOLEAN, w \in update_project(p, "required", b) PROVE Planned(w)
  <2>1. PICK row : row = [project[p] EXCEPT !["required"] = b]
    OBVIOUS
  <2>2. row \in ProjectRows /\ row.category = project[p].category
    BY <1>1, <2>1 DEF ProjectRows
  <2> QED
    BY <1>7, <2>1, <2>2, UpdateDecided
<1>8. ASSUME NEW v \in PreviewStatus, w \in update_project(p, "preview", v) PROVE Planned(w)
  <2>1. PICK row : row = [project[p] EXCEPT !["preview"] = v]
    OBVIOUS
  <2>2. row \in ProjectRows /\ row.category = project[p].category
    BY <1>1, <2>1 DEF ProjectRows
  <2> QED
    BY <1>8, <2>1, <2>2, UpdateDecided
<1>9. ASSUME NEW f \in {"start", "due"}, NEW d \in Days, w \in update_project(p, f, d) PROVE Planned(w)
  <2>1. PICK row : row = [project[p] EXCEPT ![f] = d]
    OBVIOUS
  <2>2. row \in ProjectRows /\ row.category = project[p].category
    BY <1>1, <2>1 DEF ProjectRows
  <2> QED
    BY <1>9, <2>1, <2>2, UpdateDecided
<1>10. \/ w \in delete_project(p)
       \/ \E x \in Things : thing[x] # "none" /\ (w \in link_content(p, x) \/ w \in unlink_content(p, x))
       \/ \E x \in Things : w \in create_linked_content(p, x)
       \/ \E c \in Categories \union {Nil} : w \in update_project(p, "category", c)
       \/ \E b \in BOOLEAN : w \in update_project(p, "required", b)
       \/ \E v \in PreviewStatus : w \in update_project(p, "preview", v)
       \/ \E f \in {"start", "due"}, d \in Days : w \in update_project(p, f, d)
  BY DEF RowRequests
<1> QED
  BY <1>2, <1>3, <1>4, <1>5, <1>6, <1>7, <1>8, <1>9, <1>10

LEMMA RequestDecided ==
  ASSUME PlanInv, NEW w \in Requests
  PROVE  Planned(w)
<1>1. ASSUME NEW p \in Projects, NEW c \in Categories \union {Nil}, NEW required \in BOOLEAN,
             NEW preview \in {"not_required", "approved"}, NEW start \in Days, NEW due \in Days,
             NEW xs \in SUBSET {x \in Things : thing[x] # "none"},
             w \in create_project(p, ProjectRow(c, required, preview, start, due), xs)
      PROVE  Planned(w)
  <2>1. ProjectRow(c, required, preview, start, due) \in ProjectRows
    BY DEF ProjectRow, ProjectRows, PreviewStatus
  <2> QED
    BY <1>1, <2>1, CreateDecided
<1> DEFINE Creating ==
             {create_project(p, ProjectRow(c, required, preview, start, due), xs) :
                p \in Projects, c \in Categories \union {Nil}, required \in BOOLEAN,
                preview \in {"not_required", "approved"}, start \in Days, due \in Days,
                xs \in SUBSET {x \in Things : thing[x] # "none"}}
           Naming == {create_category(c, n) \union update_category(c, n) : c \in Categories, n \in Names}
           Deleting == {delete_category(c) : c \in Categories}
           Changing == {RowRequests(p) : p \in {q \in Projects : Stands(q)}}
<1>2. ASSUME NEW works \in Creating, w \in works PROVE Planned(w)
  <2>1. PICK p \in Projects, c \in Categories \union {Nil}, required \in BOOLEAN,
             preview \in {"not_required", "approved"}, start \in Days, due \in Days,
             xs \in SUBSET {x \in Things : thing[x] # "none"} :
          works = create_project(p, ProjectRow(c, required, preview, start, due), xs)
    OBVIOUS
  <2> QED
    BY <1>1, <1>2, <2>1
<1>3. ASSUME NEW works \in Naming, w \in works PROVE Planned(w)
  BY <1>3, CategoryDecided
<1>4. ASSUME NEW works \in Deleting, w \in works PROVE Planned(w)
  BY <1>4, CategoryDecided
<1>5. ASSUME NEW works \in Changing, w \in works PROVE Planned(w)
  BY <1>5, WriteDecided
<1>6. Requests = (UNION Naming) \union (UNION Deleting) \union (UNION Creating) \union (UNION Changing)
  BY DEF Requests
<1> HIDE DEF Creating, Naming, Deleting, Changing
<1> QED
  BY <1>2, <1>3, <1>4, <1>5, <1>6

-----------------------------------------------------------------------------
LEMMA BeginPlanStep ==
  ASSUME PlanInv, NEW s \in Planners, BeginPlan(s)
  PROVE  PlanInv'
<1>1. PICK w \in Requests : planner' = [planner EXCEPT ![s] = w]
  BY DEF BeginPlan
<1>2. UNCHANGED <<category, project, links, thing, mixed>>
  BY DEF BeginPlan
<1>3. Planned(w)
  BY RequestDecided
<1>4. TablesOK' /\ FieldsOK' /\ \A i : Rows[i]' = Rows[i]
  BY <1>2 DEF PlanInv, TablesOK, FieldsOK, Rows, Stands
<1>5. ASSUME NEW u, WorkFits(u) PROVE WorkFits(u)'
  BY <1>2, <1>5 DEF WorkFits, Lands, RowAfter, Rows, Stands
<1>6. ASSUME NEW t \in Planners, planner'[t] # AtRest PROVE WorkOK(planner'[t]) /\ WorkFits(planner[t])'
  <2>1. PICK u : u = planner'[t]
    OBVIOUS
  <2>2. WorkOK(u) /\ WorkFits(u)
    BY <1>1, <1>3, <1>6, <2>1 DEF PlanInv, PlansOK, Planned, WorkFits
  <2> QED
    BY <1>5, <2>1, <2>2
<1>7. PlansOK'
  BY <1>1, <1>6 DEF PlanInv, PlansOK
<1> QED
  BY <1>4, <1>7 DEF PlanInv

LEMMA DropPlanStep ==
  ASSUME PlanInv, NEW s \in Planners, DropPlan(s)
  PROVE  PlanInv'
<1>1. UNCHANGED <<category, project, links, thing, mixed>> /\ planner' = [planner EXCEPT ![s] = AtRest]
  BY DEF DropPlan
<1>2. TablesOK' /\ FieldsOK'
  BY <1>1 DEF PlanInv, TablesOK, FieldsOK, Rows, Stands
<1>3. ASSUME NEW u, WorkFits(u) PROVE WorkFits(u)'
  BY <1>1, <1>3 DEF WorkFits, Lands, RowAfter, Rows, Stands
<1>4. ASSUME NEW t \in Planners, planner'[t] # AtRest PROVE WorkOK(planner'[t]) /\ WorkFits(planner[t])'
  <2>1. PICK u : u = planner'[t]
    OBVIOUS
  <2>2. WorkOK(u) /\ WorkFits(u)
    BY <1>1, <1>4, <2>1 DEF PlanInv, PlansOK
  <2> QED
    BY <1>3, <2>1, <2>2
<1>5. PlansOK'
  BY <1>1, <1>4 DEF PlanInv, PlansOK
<1> QED
  BY <1>2, <1>5 DEF PlanInv

(* Whoever is at work when another one commits is excused.                 *)
LEMMA OthersExcused ==
  ASSUME PlanInv, NEW s, OthersMet(s)
  PROVE  PlansOK'
<1>1. DOMAIN planner' = Planners
  BY DEF OthersMet
<1>2. ASSUME NEW t \in Planners, planner'[t] # AtRest PROVE WorkOK(planner'[t]) /\ WorkFits(planner[t])'
  <2>1. PICK w, u : w = planner[t] /\ u = planner'[t]
    OBVIOUS
  <2>2. w # AtRest /\ u = [w EXCEPT !.met = TRUE]
    BY <1>2, <2>1 DEF OthersMet
  <2>3. WorkOK(w)
    BY <2>1, <2>2 DEF PlanInv, PlansOK
  <2>4. u = [row |-> w.row, read |-> w.read, want |-> w.want, add |-> w.add, cut |-> w.cut,
             makes |-> w.makes, met |-> TRUE]
    BY <2>2, <2>3 DEF WorkOK, IsWork
  <2>5. WorkOK(u) /\ u.met
    BY <2>3, <2>4 DEF WorkOK, IsWork
  <2> QED
    BY <2>1, <2>5 DEF WorkFits
<1> QED
  BY <1>1, <1>2 DEF PlansOK

LEMMA ThingStep ==
  ASSUME PlanInv, ThingChanges
  PROVE  PlanInv'
<1>1. OthersMet(Nil) /\ UNCHANGED <<category, project, mixed>>
  BY DEF ThingChanges
<1>2. PICK x \in Things :
        \/ thing' = [thing EXCEPT ![x] = "live"] /\ links' = links
        \/ thing' = [thing EXCEPT ![x] = "archived"] /\ links' = links
        \/ thing' = [thing EXCEPT ![x] = "none"] /\ links' = {l \in links : l[2] # x}
  BY DEF ThingChanges
<1>3. \A i : Stands(i)' <=> Stands(i)
  BY <1>1 DEF Stands, Rows
<1>4. TablesOK'
  BY <1>1, <1>2, <1>3 DEF PlanInv, TablesOK
<1>5. FieldsOK'
  BY <1>1 DEF PlanInv, FieldsOK
<1> QED
  BY <1>1, <1>4, <1>5, OthersExcused DEF PlanInv

(* The row a commit writes.                                                *)
LEMMA WrittenRow ==
  ASSUME PlanInv, NEW w, WorkOK(w), Lands(w), w.row \in Projects, NEW r,
         r = IF w.want # w.read THEN RowAfter(w) ELSE project[w.row]
  PROVE  /\ r \in ProjectRows \union {Nil}
         /\ w.want # Nil /\ (Stands(w.row) \/ w.read = Nil) => r # Nil
         /\ r # Nil => r.category = Nil \/ Stands(r.category)
         /\ ~w.met /\ WorkFits(w) => r = w.want
<1>1. PICK o, q : o = project[w.row] /\ q = RowAfter(w)
  OBVIOUS
<1>2. /\ o \in ProjectRows \union {Nil} /\ (Stands(w.row) <=> o # Nil)
      /\ w.read \in ProjectRows \union {Nil} /\ w.want \in ProjectRows \union {Nil}
      /\ w.row \notin Categories /\ Rows[w.row] = o
  BY <1>1, StandingRows DEF PlanInv, TablesOK, WorkOK, RowsFor
<1>3. q = IF w.read = Nil \/ w.want = Nil \/ o = Nil THEN w.want
          ELSE [c \in DOMAIN w.want |-> IF w.want[c] = w.read[c] THEN o[c] ELSE w.want[c]]
  BY <1>1, <1>2 DEF RowAfter
<1>4. q \in ProjectRows \union {Nil} /\ (w.want # Nil => q # Nil)
  <2>1. CASE w.read = Nil \/ w.want = Nil \/ o = Nil
    BY <1>2, <1>3, <2>1
  <2>2. CASE ~(w.read = Nil \/ w.want = Nil \/ o = Nil)
    <3>1. q \in ProjectRows
      BY <1>2, <1>3, <2>2 DEF ProjectRows
    <3> QED
      BY <3>1, NilNoRow
  <2> QED
    BY <2>1, <2>2
<1>5. o = w.read => q = w.want
  BY <1>2, <1>3 DEF ProjectRows
<1>6. w.want # Nil => q.category = Nil \/ Stands(q.category)
  BY <1>1 DEF Lands
<1>7. o # Nil => o.category = Nil \/ Stands(o.category)
  BY <1>1 DEF PlanInv, TablesOK
<1>8. w.want = Nil => q = Nil
  BY <1>3
<1> QED
  BY <1>1, <1>2, <1>4, <1>5, <1>6, <1>7, <1>8 DEF WorkFits

LEMMA CommitPlanStep ==
  ASSUME PlanInv, NEW s \in Planners, CommitPlan(s)
  PROVE  PlanInv'
<1>1. PICK w : w = planner[s]
  OBVIOUS
<1>2. WorkOK(w) /\ WorkFits(w) /\ Lands(w) /\ OthersMet(s)
  BY <1>1 DEF CommitPlan, PlanInv, PlansOK
<1>3. PICK r : r = IF w.want # w.read THEN RowAfter(w) ELSE project[w.row]
  OBVIOUS
<1>4. /\ category' = IF w.row \in Categories THEN [category EXCEPT ![w.row] = w.want] ELSE category
      /\ project' = [p \in Projects |->
           IF p = w.row THEN r
           ELSE IF Stands(p) /\ w.want = Nil /\ project[p].category = w.row
             THEN [project[p] EXCEPT !.category = Nil] ELSE project[p]]
      /\ links' = {l \in links \union w.add : l \notin w.cut /\ (w.want = Nil => l[1] # w.row)}
      /\ thing' = [x \in Things |-> IF x \in w.makes THEN "live" ELSE thing[x]]
      /\ mixed' = IF w.met /\ w.row \in Projects THEN mixed \union {w.row} ELSE mixed
  BY <1>1, <1>3 DEF CommitPlan
<1>5. w.row \in Projects =>
        /\ r \in ProjectRows \union {Nil}
        /\ w.want # Nil /\ (Stands(w.row) \/ w.read = Nil) => r # Nil
        /\ r # Nil => r.category = Nil \/ Stands(r.category)
        /\ ~w.met => r = w.want
  BY <1>2, <1>3, WrittenRow
<1>6. \A p \in Projects : p \notin Categories /\ project[p] \in ProjectRows \union {Nil}
                          /\ (Stands(p) <=> project[p] # Nil)
  BY StandingRows DEF PlanInv, TablesOK
<1>7. category' \in [Categories -> CategoryRows \union {Nil}]
  BY <1>2, <1>4 DEF PlanInv, TablesOK, WorkOK, RowsFor
<1>8. ASSUME NEW p \in Projects, p # w.row
      PROVE  /\ project'[p] \in ProjectRows \union {Nil} /\ (project'[p] # Nil <=> project[p] # Nil)
             /\ project[p] # Nil =>
                  /\ project'[p].category = IF w.want = Nil /\ project[p].category = w.row
                                              THEN Nil ELSE project[p].category
                  /\ FieldsAgree(project[p]) => FieldsAgree(project'[p])
  <2>1. PICK o, n : o = project[p] /\ n = project'[p]
    OBVIOUS
  <2>2. n = IF o # Nil /\ w.want = Nil /\ o.category = w.row THEN [o EXCEPT !.category = Nil] ELSE o
    BY <1>4, <1>6, <1>8, <2>1
  <2>3. o \in ProjectRows \union {Nil}
    BY <1>6, <2>1
  <2>4. CASE o # Nil /\ w.want = Nil /\ o.category = w.row
    <3>1. n \in ProjectRows /\ n.category = Nil /\ (FieldsAgree(o) => FieldsAgree(n))
      BY <2>2, <2>3, <2>4 DEF ProjectRows, FieldsAgree
    <3> QED
      BY <2>1, <2>4, <3>1, NilNoRow
  <2>5. CASE ~(o # Nil /\ w.want = Nil /\ o.category = w.row)
    BY <2>1, <2>2, <2>3, <2>5
  <2> QED
    BY <2>4, <2>5
<1>9. w.row \in Projects => project'[w.row] = r
  BY <1>4
<1>10. project' \in [Projects -> ProjectRows \union {Nil}]
  BY <1>4, <1>5, <1>8, <1>9
<1>11. \A c \in Categories : Stands(c)' <=> IF c = w.row THEN w.want # Nil ELSE Stands(c)
  <2>1. \A c \in Categories : Stands(c)' <=> category'[c] # Nil
    BY IdsApart DEF Rows, Stands
  <2>2. \A c \in Categories : Stands(c) <=> category[c] # Nil
    BY StandingRows
  <2>3. DOMAIN category = Categories
    BY DEF PlanInv, TablesOK
  <2> QED
    BY <1>4, <2>1, <2>2, <2>3
<1>12. \A p \in Projects : Stands(p)' <=> project'[p] # Nil
  BY IdsApart DEF Rows, Stands
<1>13. ASSUME NEW p \in Projects, project'[p] # Nil
       PROVE  (project[p].category = Nil \/ Stands(project[p].category))'
  <2> PICK c : c = project'[p].category
    OBVIOUS
  <2>1. CASE p = w.row
    <3>1. c = Nil \/ (Stands(c) /\ c \in Categories /\ c # w.row)
      BY <1>5, <1>6, <1>9, <1>13, <2>1 DEF ProjectRows
    <3> QED
      BY <1>11, <3>1
  <2>2. CASE p # w.row
    <3>1. project[p] # Nil /\ project[p] \in ProjectRows
      BY <1>6, <1>8, <1>13, <2>2
    <3>2. project[p].category = Nil \/ (project[p].category \in Categories /\ Stands(project[p].category))
      BY <3>1 DEF PlanInv, TablesOK, ProjectRows
    <3>3. c = IF w.want = Nil /\ project[p].category = w.row
                                   THEN Nil ELSE project[p].category
      BY <1>8, <2>2, <3>1
    <3> QED
      BY <1>11, <3>2, <3>3
  <2> QED
    BY <2>1, <2>2
<1>14. thing' \in [Things -> {"none", "live", "archived"}]
  BY <1>4 DEF PlanInv, TablesOK
<1>15. ASSUME NEW l \in links'
       PROVE  l \in Projects \X Things /\ Stands(l[1])' /\ thing'[l[2]] # "none"
  <2>1. l \in links \union w.add /\ (w.want = Nil => l[1] # w.row)
    BY <1>4
  <2>2. CASE l \in links
    <3>1. l \in Projects \X Things /\ l[1] \in Projects /\ l[2] \in Things
          /\ Stands(l[1]) /\ thing[l[2]] # "none"
      BY <2>2 DEF PlanInv, TablesOK
    <3>2. project'[l[1]] # Nil
      BY <1>5, <1>6, <1>8, <1>9, <2>1, <3>1
    <3> QED
      BY <1>4, <1>12, <3>1, <3>2
  <2>3. CASE l \in w.add
    <3>1. /\ w.row \in Projects /\ l \in {w.row} \X Things /\ l[1] = w.row /\ l[2] \in Things
          /\ w.want # Nil
      BY <1>2, <2>3 DEF WorkOK
    <3>2. (Stands(w.row) \/ w.read = Nil) /\ (thing[l[2]] # "none" \/ l[2] \in w.makes)
      BY <1>2, <2>3 DEF Lands
    <3>3. project'[w.row] # Nil
      BY <1>5, <1>9, <3>1, <3>2
    <3> QED
      BY <1>4, <1>12, <3>1, <3>2, <3>3
  <2> QED
    BY <2>1, <2>2, <2>3
<1>16. TablesOK'
  BY <1>7, <1>10, <1>13, <1>14, <1>15 DEF TablesOK
<1>17. FieldsOK'
  <2>1. ASSUME NEW p \in Projects, p \notin mixed', project'[p] # Nil
        PROVE  FieldsAgree(project'[p])
    <3>1. CASE p # w.row
      BY <1>4, <1>8, <2>1, <3>1 DEF PlanInv, FieldsOK
    <3>2. CASE p = w.row
      <4>1. ~w.met /\ r = w.want /\ project'[p] = w.want
        BY <1>4, <1>5, <1>9, <2>1, <3>2
      <4>2. CASE w.want # w.read
        BY <1>2, <2>1, <3>2, <4>1, <4>2 DEF WorkOK
      <4>3. CASE w.want = w.read
        <5>1. project'[p] = project[p] /\ p \notin mixed
          BY <1>3, <1>4, <1>9, <2>1, <3>2, <4>3
        <5> QED
          BY <2>1, <5>1 DEF PlanInv, FieldsOK
      <4> QED
        BY <4>2, <4>3
    <3> QED
      BY <3>1, <3>2
  <2> QED
    BY <2>1 DEF FieldsOK
<1> QED
  BY <1>2, <1>16, <1>17, OthersExcused DEF PlanInv

LEMMA NextPlans ==
  ASSUME PlanInv, [ProjectsNext]_pvars
  PROVE  PlanInv'
<1>1. CASE UNCHANGED pvars
  <2>1. ASSUME NEW u, WorkFits(u) PROVE WorkFits(u)'
    BY <1>1, <2>1 DEF pvars, WorkFits, Lands, RowAfter, Rows, Stands
  <2>2. TablesOK' /\ FieldsOK'
    BY <1>1 DEF pvars, PlanInv, TablesOK, FieldsOK, Rows, Stands
  <2>3. PlansOK'
    BY <1>1, <2>1 DEF pvars, PlanInv, PlansOK
  <2> QED
    BY <2>2, <2>3 DEF PlanInv
<1> QED
  BY <1>1, BeginPlanStep, CommitPlanStep, DropPlanStep, ThingStep DEF ProjectsNext

LEMMA PlansAlways == ProjectsSpec => []PlanInv
  BY InitPlans, NextPlans, PTL DEF ProjectsSpec

-----------------------------------------------------------------------------
(* A request that overlapped no other change never fails at its commit:    *)
(* its checks have covered the index on names, the references and the keys *)
(* of the links.                                                           *)
THEOREM LandingSafety == ProjectsSpec => []RequestsLand
<1>1. PlanInv => RequestsLand
  BY DEF PlanInv, PlansOK, WorkFits, RequestsLand
<1> QED
  BY <1>1, PlansAlways, PTL

(* Dates are in order and the preview status fits, whichever field was     *)
(* sent last, unless requests that changed the project overlapped.         *)
THEOREM FieldsSafety == ProjectsSpec => []ProjectFieldsAgree
<1>1. PlanInv => ProjectFieldsAgree
  BY StandingRows DEF PlanInv, FieldsOK, FieldsAgree, ProjectFieldsAgree
<1> QED
  BY <1>1, PlansAlways, PTL

(* Every row is one its columns can hold, and every reference and link is  *)
(* to a row that is there.                                                 *)
THEOREM ProjectTypes == ProjectsSpec => []ProjectsTypeOK
<1>1. ASSUME PlanInv PROVE ProjectsTypeOK
  <2>1. \A p \in Projects : Stands(p) => project[p] \in ProjectRows
    BY <1>1, StandingRows DEF PlanInv, TablesOK
  <2> QED
    BY <1>1, <2>1, StandingRows DEF PlanInv, TablesOK, ProjectsTypeOK, ProjectRows, CategoryRows
<1> QED
  BY <1>1, PlansAlways, PTL

-----------------------------------------------------------------------------
(* The content item: a score is a percentage, and a row that was refreshed *)
(* carries the score of the rows it was refreshed from.                    *)
TaskRows == [Tasks -> TaskRow]
AttachedRows == [Attachments -> {"none", "open", "approved", "rejected"}]

LEMMA SmallerOf ==
  ASSUME NEW m \in Nat, NEW n \in Nat
  PROVE  Min({m, n}) \in Nat /\ Min({m, n}) <= m
<1>1. \E x \in {m, n} : \A y \in {m, n} : x =< y
  <2>1. CASE m <= n
    BY <2>1
  <2>2. CASE n <= m
    BY <2>2
  <2> QED
    BY <2>1, <2>2
<1>2. PICK least : least = Min({m, n})
  OBVIOUS
<1>3. least \in {m, n} /\ \A y \in {m, n} : least =< y
  BY <1>1, <1>2, Zenon DEF Min
<1> QED
  BY <1>2, <1>3

LEMMA MissingFew ==
  ASSUME NEW i
  PROVE  Missing(i) \in Nat
  BY DEF Missing

LEMMA ScoreBounds ==
  ASSUME NEW missing \in Nat, NEW open \in Nat, NEW approved
  PROVE  compute_readiness_score(missing, open, approved) \in 0..100
<1>1. PICK lost : lost = Min({30, 10 * missing})
  OBVIOUS
<1>2. PICK late : late = Min({40, 10 * open})
  OBVIOUS
<1>3. 10 * missing \in Nat /\ 10 * open \in Nat
  OBVIOUS
<1>4. lost \in Nat /\ late \in Nat
  BY <1>1, <1>2, <1>3, SmallerOf
<1>5. PICK bare \in {0, 20} : bare = IF approved = 0 THEN 20 ELSE 0
  OBVIOUS
<1>6. 100 - lost - late - bare \in Int /\ 100 - lost - late - bare <= 100
  BY <1>4, <1>5
<1>7. compute_readiness_score(missing, open, approved)
        = IF 100 - lost - late - bare < 0 THEN 0 ELSE 100 - lost - late - bare
  BY <1>1, <1>2, <1>5 DEF compute_readiness_score
<1> QED
  BY <1>6, <1>7

LEMMA ReadinessBounds ==
  ASSUME NEW i, NEW ts \in TaskRows, NEW as \in AttachedRows
  PROVE  Readiness(i, ts, as) \in 0..100
<1>1. IsFiniteSet(Blocking(ts))
  BY HubFinite, FS_Subset DEF Blocking
<1>2. Cardinality(Blocking(ts)) \in Nat
  BY <1>1, FS_CardinalityType
<1>3. PICK m : m = Missing(i)
  OBVIOUS
<1>4. PICK b : b = Cardinality(Blocking(ts))
  OBVIOUS
<1>5. PICK a : a = Cardinality(Approved(as))
  OBVIOUS
<1>6. m \in Nat /\ b \in Nat
  BY <1>2, <1>3, <1>4, MissingFew
<1>7. compute_readiness_score(m, b, a) \in 0..100
  BY <1>6, ScoreBounds
<1> QED
  BY <1>3, <1>4, <1>5, <1>7 DEF Readiness

SameBut(j, i) ==
  /\ j.life = i.life /\ j.status = i.status /\ j.wf = i.wf /\ j.dated = i.dated
  /\ j.linked = i.linked /\ j.primary = i.primary /\ j.published = i.published

LEMMA SameReadiness ==
  ASSUME NEW i, NEW j, SameBut(j, i), NEW ts \in TaskRows, NEW as \in AttachedRows
  PROVE  Readiness(j, ts, as) = Readiness(i, ts, as)
<1>1. Missing(j) = Missing(i)
  BY DEF SameBut, Missing
<1> QED
  BY <1>1 DEF Readiness

LEMMA SameGate ==
  ASSUME NEW i, NEW j, SameBut(j, i), NEW ts \in TaskRows, NEW as \in AttachedRows, PublishReady(i, ts, as)
  PROVE  PublishReady(j, ts, as)
<1>1. Missing(j) = Missing(i) /\ j.wf = i.wf
  BY DEF SameBut, Missing
<1> QED
  BY <1>1 DEF PublishReady

LEMMA RefreshedTask ==
  ASSUME NEW i \in ItemRow, NEW ts \in TaskRows, NEW as \in AttachedRows
  PROVE  Refreshed(i, ts, as).task = ts
  BY DEF Refreshed

LEMMA RefreshedAttached ==
  ASSUME NEW i \in ItemRow, NEW ts \in TaskRows, NEW as \in AttachedRows
  PROVE  Refreshed(i, ts, as).attached = as
  BY DEF Refreshed

LEMMA RefreshedRow ==
  ASSUME NEW i \in ItemRow, NEW ts \in TaskRows, NEW as \in AttachedRows,
         NEW j, j = Refreshed(i, ts, as).item
  PROVE  j \in ItemRow /\ SameBut(j, i) /\ (i.life = "live" => j.score = Readiness(i, ts, as))
<1>1. PICK n \in 0..100 : n = Readiness(i, ts, as)
  BY ReadinessBounds
<1>2. j = IF i.life = "live" THEN [i EXCEPT !.score = n] ELSE i
  BY <1>1 DEF Refreshed
<1>3. j \in ItemRow
  BY <1>2 DEF ItemRow
<1>4. SameBut(j, i) /\ (i.life = "live" => j.score = n)
  BY <1>2 DEF ItemRow, SameBut
<1> QED
  BY <1>1, <1>3, <1>4

-----------------------------------------------------------------------------
(* What a handler may leave behind: rows refreshed after the mutation, or  *)
(* the archived item of a sale.  An item that it publishes has passed the  *)
(* gate.                                                                   *)
Gated(i, ts, as) ==
  item.life = "live" /\ i.life = "live" /\ item.status # "published" /\ i.status = "published"
    => PublishReady(i, ts, as)

Leaves(o) ==
  \E i \in ItemRow, ts \in TaskRows, as \in AttachedRows :
    o = Refreshed(i, ts, as) /\ Gated(i, ts, as)

Archives(o) == o.task = task /\ o.attached = attached /\ o.item = [item EXCEPT !.wf = "archived"]

LEMMA ItemKept ==
  ASSUME HubTypeOK, NEW ts \in TaskRows, NEW as \in AttachedRows, NEW o, o = Refreshed(item, ts, as)
  PROVE  Leaves(o)
  BY DEF Leaves, Gated, HubTypeOK

LEMMA NewItemRow == NewItem \in ItemRow
  BY DEF NewItem, ItemRow, ContentStatus, WorkflowStatus

LEMMA NoTaskRow == NoTask \in TaskRow
  BY DEF NoTask, TaskRow

LEMMA Created ==
  ASSUME HubTypeOK, NEW o \in create_item
  PROVE  Leaves(o)
<1>1. item.life = "new"
  BY DEF create_item, When
<1>2. PICK in \in [status : ContentStatus, wf : WorkflowStatus, dated : BOOLEAN,
                   linked : BOOLEAN, defaults : SUBSET Tasks] :
        o = Refreshed([NewItem EXCEPT !.life = "live", !.status = in.status, !.wf = in.wf,
                               !.dated = in.dated, !.linked = in.linked],
               [t \in Tasks |-> IF t \in in.defaults THEN [NoTask EXCEPT !.life = "live"]
                                                     ELSE NoTask],
               attached)
  BY <1>1 DEF create_item, When
<1>3. PICK i : i = [NewItem EXCEPT !.life = "live", !.status = in.status, !.wf = in.wf,
                                   !.dated = in.dated, !.linked = in.linked]
  OBVIOUS
<1>4. i \in ItemRow
  BY <1>3, NewItemRow DEF ItemRow
<1>5. PICK ts : ts = [t \in Tasks |-> IF t \in in.defaults THEN [NoTask EXCEPT !.life = "live"]
                                                           ELSE NoTask]
  OBVIOUS
<1>6. [NoTask EXCEPT !.life = "live"] \in TaskRow
  BY NoTaskRow DEF TaskRow
<1>7. ts \in TaskRows
  BY <1>5, <1>6, NoTaskRow DEF TaskRows
<1>8. Gated(i, ts, attached) /\ attached \in AttachedRows
  BY <1>1 DEF Gated, HubTypeOK, AttachedRows
<1> QED
  BY <1>2, <1>3, <1>4, <1>5, <1>7, <1>8 DEF Leaves

LEMMA PatchedRow ==
  ASSUME HubTypeOK, NEW in \in ItemInputs, NEW asked \in Requested, NEW relevant \in BOOLEAN
  PROVE  Patched(in, asked, relevant) \in ItemRow
<1>1. PICK changed \in BOOLEAN :
        changed = (relevant \/ in.dated # item.dated \/ in.linked # item.linked)
  OBVIOUS
<1>2. PICK publishes \in BOOLEAN :
        publishes = (in.status = "published" /\ item.status # "published")
  OBVIOUS
<1>3. PICK target : target = TargetStatus(item.wf, asked, changed)
  OBVIOUS
<1>4. target \in WorkflowStatus
  <2>1. item.wf \in WorkflowStatus
    BY DEF HubTypeOK, ItemRow
  <2> QED
    BY <1>3, <2>1 DEF TargetStatus, Requested, WorkflowStatus
<1>5. in \in [status : ContentStatus, dated : BOOLEAN, linked : BOOLEAN,
              primary : Attachments \union {NoAsset}]
  <2>1. item.status \in ContentStatus
    BY DEF HubTypeOK, ItemRow
  <2>2. CONTENT_STATUS_TRANSITIONS[item.status] \subseteq ContentStatus
    BY <2>1 DEF CONTENT_STATUS_TRANSITIONS, ContentStatus
  <2> QED
    BY <2>1, <2>2 DEF ItemInputs
<1>6. PICK status, dated, linked, primary :
        /\ status = in.status /\ dated = in.dated /\ linked = in.linked /\ primary = in.primary
        /\ status \in ContentStatus /\ dated \in BOOLEAN /\ linked \in BOOLEAN
        /\ primary \in Attachments \union {NoAsset}
  BY <1>5
<1>7. PICK planned \in BOOLEAN : planned = (in.dated \/ publishes)
  OBVIOUS
<1>8. PICK out \in BOOLEAN : out = (in.status = "published" /\ (item.published \/ publishes))
  OBVIOUS
<1>9. Patched(in, asked, relevant) =
        [item EXCEPT !.status = status, !.wf = target, !.dated = planned, !.linked = linked,
                     !.primary = primary, !.published = out]
  BY <1>1, <1>2, <1>3, <1>6, <1>7, <1>8 DEF Patched
<1>10. item \in ItemRow
  BY DEF HubTypeOK
<1> QED
  BY <1>4, <1>6, <1>9, <1>10 DEF ItemRow

LEMMA ItemChanged ==
  ASSUME HubTypeOK, NEW o \in update_item
  PROVE  Leaves(o)
<1>1. PICK new \in Patches : o = Refreshed(new, task, attached) /\ PatchAccepted(new)
  BY DEF update_item, When
<1>2. new \in ItemRow
  BY <1>1, PatchedRow DEF Patches
<1>3. Gated(new, task, attached)
  BY <1>1 DEF Gated, PatchAccepted
<1> QED
  BY <1>1, <1>2, <1>3 DEF Leaves, HubTypeOK, TaskRows, AttachedRows

LEMMA ItemDeleted ==
  ASSUME HubTypeOK, NEW o \in delete_item
  PROVE  Leaves(o)
<1>1. o = Refreshed([item EXCEPT !.life = "gone"], [t \in Tasks |-> NoTask], attached)
  BY DEF delete_item, When
<1>2. PICK i : i = [item EXCEPT !.life = "gone"]
  OBVIOUS
<1>3. PICK ts : ts = [t \in Tasks |-> NoTask]
  OBVIOUS
<1>4. i \in ItemRow /\ i.life = "gone"
  BY <1>2 DEF HubTypeOK, ItemRow
<1>5. ts \in TaskRows
  BY <1>3, NoTaskRow DEF TaskRows
<1> QED
  BY <1>1, <1>2, <1>3, <1>4, <1>5 DEF Leaves, Gated, HubTypeOK, AttachedRows

LEMMA TaskWritten ==
  ASSUME HubTypeOK, NEW t \in Tasks, NEW row \in TaskRow, NEW o, o = TaskChange([task EXCEPT ![t] = row])
  PROVE  Leaves(o)
<1>1. PICK ts : ts = [task EXCEPT ![t] = row]
  OBVIOUS
<1>2. ts \in TaskRows
  BY <1>1 DEF HubTypeOK, TaskRows
<1>3. attached \in AttachedRows
  BY DEF HubTypeOK, AttachedRows
<1> QED
  BY <1>1, <1>2, <1>3, ItemKept DEF TaskChange

LEMMA TaskChanged ==
  ASSUME HubTypeOK, NEW t \in Tasks, NEW o \in create_task(t) \union update_task(t) \union delete_task(t)
  PROVE  Leaves(o)
<1>1. CASE o \in create_task(t)
  <2>1. PICK done \in BOOLEAN, blocks \in BOOLEAN :
          o = TaskChange([task EXCEPT ![t] = [life |-> "live", done |-> done, blocks |-> blocks]])
    BY <1>1 DEF create_task, When
  <2>2. PICK row : row = [life |-> "live", done |-> done, blocks |-> blocks]
    OBVIOUS
  <2>3. row \in TaskRow
    BY <2>2 DEF TaskRow
  <2> QED
    BY <2>1, <2>2, <2>3, TaskWritten
<1>2. CASE o \in update_task(t)
  <2>1. PICK done \in BOOLEAN, blocks \in BOOLEAN :
          o = TaskChange([task EXCEPT ![t].done = done, ![t].blocks = blocks])
    BY <1>2 DEF update_task, When
  <2>2. PICK row : row = [[task[t] EXCEPT !.done = done] EXCEPT !.blocks = blocks]
    OBVIOUS
  <2>3. task \in TaskRows /\ task[t] \in TaskRow
    BY DEF HubTypeOK, TaskRows
  <2>4. row \in TaskRow
    BY <2>2, <2>3 DEF TaskRow
  <2>5. [task EXCEPT ![t].done = done, ![t].blocks = blocks] = [task EXCEPT ![t] = row]
    BY <2>2, <2>3 DEF TaskRows
  <2> QED
    BY <2>1, <2>4, <2>5, TaskWritten
<1>3. CASE o \in delete_task(t)
  BY <1>3, NoTaskRow, TaskWritten DEF delete_task, When
<1> QED
  BY <1>1, <1>2, <1>3

LEMMA TemplateApplied ==
  ASSUME HubTypeOK, NEW o \in apply_checklist_template
  PROVE  Leaves(o)
<1>1. PICK mode \in TemplateMode, new \in SUBSET {t \in Tasks : task[t].life = "none"},
           blocking \in [Tasks -> BOOLEAN] :
        o = TaskChange(Applied(mode, new, blocking))
  BY DEF apply_checklist_template, When
<1>2. PICK ts : ts = Applied(mode, new, blocking)
  OBVIOUS
<1>3. ASSUME NEW t \in Tasks
      PROVE  [life |-> "live", done |-> FALSE, blocks |-> blocking[t]] \in TaskRow
  <2>1. PICK b \in BOOLEAN : b = blocking[t]
    OBVIOUS
  <2> QED
    BY <2>1 DEF TaskRow
<1>4. ts \in TaskRows
  BY <1>2, <1>3, NoTaskRow DEF Applied, HubTypeOK, TaskRows
<1>5. attached \in AttachedRows
  BY DEF HubTypeOK, AttachedRows
<1> QED
  BY <1>1, <1>2, <1>4, <1>5, ItemKept DEF TaskChange

LEMMA AssetChanged ==
  ASSUME HubTypeOK, NEW a \in Attachments, NEW o \in create_asset(a) \union decide_asset(a)
  PROVE  Leaves(o)
<1>1. PICK s \in {"open", "rejected", "approved"} : o = AssetChange([attached EXCEPT ![a] = s])
  BY DEF create_asset, decide_asset, When
<1>2. PICK as : as = [attached EXCEPT ![a] = s]
  OBVIOUS
<1>3. as \in AttachedRows
  BY <1>2 DEF HubTypeOK, AttachedRows
<1>4. task \in TaskRows
  BY DEF HubTypeOK, TaskRows
<1> QED
  BY <1>1, <1>2, <1>3, <1>4, ItemKept DEF AssetChange

-----------------------------------------------------------------------------
LEMMA LeavesStep ==
  ASSUME HubTypeOK, NEW o, Leaves(o), item' = o.item, task' = o.task, attached' = o.attached,
         UNCHANGED <<strict, pending>>
  PROVE  /\ HubTypeOK' /\ Fresh'
         /\ item.life = "live" /\ item'.life = "live" /\ item.status # "published"
              /\ item'.status = "published" => PublishReady(item', task', attached')
<1>1. PICK i \in ItemRow, ts \in TaskRows, as \in AttachedRows : o = Refreshed(i, ts, as) /\ Gated(i, ts, as)
  BY DEF Leaves
<1>2. PICK j : j = Refreshed(i, ts, as).item
  OBVIOUS
<1>3. o.item = j /\ o.task = ts /\ o.attached = as
  BY <1>1, <1>2, RefreshedTask, RefreshedAttached
<1>4. j \in ItemRow /\ SameBut(j, i) /\ (i.life = "live" => j.score = Readiness(i, ts, as))
  BY <1>2, RefreshedRow
<1>5. item' = j /\ task' = ts /\ attached' = as
  BY <1>3
<1>6. j.life = i.life /\ j.status = i.status
  BY <1>4 DEF SameBut
<1>7. HubTypeOK'
  BY <1>4, <1>5 DEF HubTypeOK, TaskRows, AttachedRows
<1>8. j.life = "live" => j.score = Readiness(j, ts, as)
  BY <1>4, <1>6, SameReadiness
<1>9. Readiness(j, ts, as)' = Readiness(j, ts, as)
  BY DEF Readiness, Missing
<1>10. Fresh'
  BY <1>5, <1>8, <1>9 DEF Fresh
<1>11. item.life = "live" /\ j.life = "live" /\ item.status # "published" /\ j.status = "published"
         => PublishReady(j, ts, as)
  BY <1>1, <1>4, <1>6, SameGate DEF Gated
<1> QED
  BY <1>5, <1>7, <1>10, <1>11

LEMMA ArchivesStep ==
  ASSUME HubTypeOK, NEW o, Archives(o), item' = o.item, task' = o.task, attached' = o.attached,
         UNCHANGED <<strict, pending>>
  PROVE  HubTypeOK' /\ UNCHANGED <<task, attached>> /\ item'.status = item.status
<1>1. item' = [item EXCEPT !.wf = "archived"]
  BY DEF Archives
<1>2. item' \in ItemRow /\ item'.status = item.status
  BY <1>1 DEF HubTypeOK, ItemRow, WorkflowStatus
<1> QED
  BY <1>2 DEF Archives, HubTypeOK

LEMMA HubStep ==
  ASSUME HubTypeOK, [SerialNext]_hvars
  PROVE  /\ HubTypeOK'
         /\ task' # task \/ attached' # attached => Fresh'
         /\ item.life = "live" /\ item'.life = "live" /\ item.status # "published"
              /\ item'.status = "published" => PublishReady(item', task', attached')
<1>1. CASE UNCHANGED hvars
  BY <1>1 DEF hvars, HubTypeOK
<1>2. CASE ChangeProfile
  BY <1>2 DEF ChangeProfile, HubTypeOK
<1>3. ASSUME NEW o, Leaves(o), item' = o.item, task' = o.task, attached' = o.attached,
             UNCHANGED <<strict, pending>>
      PROVE  /\ HubTypeOK'
             /\ task' # task \/ attached' # attached => Fresh'
             /\ item.life = "live" /\ item'.life = "live" /\ item.status # "published"
                  /\ item'.status = "published" => PublishReady(item', task', attached')
  BY <1>3, LeavesStep
<1>4. CASE SellProduct
  <2>1. PICK o \in finalize_product_sale :
          /\ item' = o.item /\ task' = o.task /\ attached' = o.attached
          /\ UNCHANGED <<strict, pending>>
    BY <1>4 DEF SellProduct, Conclude
  <2>2. Archives(o)
    <3>1. PICK i : i = [item EXCEPT !.wf = "archived"]
      OBVIOUS
    <3>2. o = [item |-> i, task |-> task, attached |-> attached]
      BY <2>1, <3>1 DEF finalize_product_sale, When
    <3> QED
      BY <3>1, <3>2 DEF Archives
  <2> QED
    BY <2>1, <2>2, ArchivesStep
<1>5. CASE CreateItem \/ UpdateItem \/ DeleteItem
  BY <1>3, <1>5, Created, ItemChanged, ItemDeleted DEF CreateItem, UpdateItem, DeleteItem, Conclude
<1>6. CASE CreateTask \/ UpdateTask \/ DeleteTask
  BY <1>3, <1>6, TaskChanged DEF CreateTask, UpdateTask, DeleteTask, Conclude
<1>7. CASE ApplyTemplate
  BY <1>3, <1>7, TemplateApplied DEF ApplyTemplate, Conclude
<1>8. CASE CreateAsset \/ UpdateAsset
  BY <1>3, <1>8, AssetChanged DEF CreateAsset, UpdateAsset, Conclude
<1> QED
  BY <1>1, <1>2, <1>4, <1>5, <1>6, <1>7, <1>8 DEF SerialNext

LEMMA InitHub == HubInit => HubTypeOK
<1> SUFFICES ASSUME HubInit PROVE HubTypeOK
  OBVIOUS
<1>1. \A r \in Authors : Cardinality(pending[r]) <= 1
  BY FS_EmptySet DEF HubInit
<1> QED
  BY <1>1, NewItemRow, NoTaskRow DEF HubInit, HubTypeOK

(* Every stored row, and the score in it, is one the columns allow.        *)
THEOREM HubTypes == SerialSpec => []HubTypeOK
  BY InitHub, HubStep, PTL DEF SerialSpec

(* Every change of a task or an asset leaves the item with the score of    *)
(* the rows as they are then, whatever the template, the decision or the   *)
(* profile that went before.                                               *)
THEOREM ScoreSafety == SerialSpec => ScoreRefreshed
<1>1. HubTypeOK /\ [SerialNext]_hvars => [task' # task \/ attached' # attached => Fresh']_hvars
  BY HubStep
<1> QED
  BY <1>1, HubTypes, PTL DEF SerialSpec, ScoreRefreshed

(* Serial requests publish an item through the gate only.                  *)
THEOREM GateSafety == SerialSpec => PublishThroughGate
<1>1. HubTypeOK /\ [SerialNext]_hvars =>
        [item.life = "live" /\ item'.life = "live" /\ item.status # "published"
         /\ item'.status = "published" => PublishReady(item', task', attached')]_hvars
  BY HubStep
<1> QED
  BY <1>1, HubTypes, PTL DEF SerialSpec, PublishThroughGate

-----------------------------------------------------------------------------
(* Checked in one run and cut into slices, pictures, projects and the item *)
(* still take only steps they may take alone.  So the run's tables are     *)
(* typed as theirs.                                                        *)
LEMMA PictureParts == LibraryNext => AssetNext
<1>1. ASSUME NEW s \in Sessions, ReviewSlice(s) PROVE AssetNext
  <2>1. CASE AddLink(s)
    BY <2>1 DEF AssetNext
  <2>2. CASE \E a \in Present, c \in IF Cardinality(Present) = 1 THEN Changes ELSE AboutMark :
               Begin(s, update_asset(a, c))
    <3>1. PICK a \in Present, c \in Changes : Begin(s, update_asset(a, c))
      BY <2>2 DEF AboutMark
    <3> QED
      BY <3>1 DEF AssetNext, Review
  <2> QED
    BY <1>1, <2>1, <2>2 DEF ReviewSlice
<1>2. ASSUME NEW s \in Sessions, FileSlice(s) PROVE AssetNext
  BY <1>2 DEF FileSlice, AssetNext
<1>3. ASSUME NEW h \in Hunts, HuntSlice(h) PROVE AssetNext
  BY <1>3 DEF HuntSlice, AssetNext
<1>4. ASSUME NEW s \in Sessions, Commit(s) \/ Abort(s) PROVE AssetNext
  BY <1>4 DEF AssetNext
<1> QED
  BY <1>1, <1>2, <1>3, <1>4 DEF LibraryNext

LEMMA ProjectParts == ProjectSlice => ProjectsNext
  BY DEF ProjectSlice, PlanSlice, ProjectsNext

LEMMA PartsOfLibrary == Spec => AssetSpec /\ ProjectsSpec /\ SerialSpec
<1>1. Init => AssetInit /\ ProjectsInit /\ HubInit
  BY DEF Init
<1>2. [Next]_vars => [AssetNext]_avars
  BY PictureParts DEF Next, vars
<1>3. [Next]_vars => [ProjectsNext]_pvars
  BY ProjectParts DEF Next, vars
<1>4. [Next]_vars => [SerialNext]_hvars
  BY DEF Next, vars
<1> QED
  BY <1>1, <1>2, <1>3, <1>4, PTL DEF Spec, AssetSpec, ProjectsSpec, SerialSpec

THEOREM LibraryTypes == Spec => []TypeOK
<1>1. AssetTypeOK /\ ProjectsTypeOK /\ HubTypeOK => TypeOK
  BY DEF TypeOK
<1> QED
  BY <1>1, PartsOfLibrary, AssetTypes, ProjectTypes, HubTypes, PTL
=============================================================================

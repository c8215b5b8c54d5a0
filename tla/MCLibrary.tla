------------------------------- MODULE MCLibrary -------------------------------
(***************************************************************************)
(* Pictures, projects and a content item, checked in one run: the parts    *)
(* share no state here, so only one of them moves away from its initial    *)
(* state in a behaviour.  A mix of two requests that the properties except *)
(* is the last of its behaviour.                                           *)
(***************************************************************************)
EXTENDS AssetDesk, ProjectDesk, MCContentHub

CONSTANT Twin  \* the picture that looks unlike the others

vars == <<avars, pvars, hvars>>

-----------------------------------------------------------------------------
MCLook == [x \in Pictures |-> IF x = Twin THEN "plain" ELSE "detailed"]

ChangeOf(state, primary, workflow, reason, edit) ==
  [state |-> state, primary |-> primary, workflow |-> workflow, reason |-> reason, edit |-> edit]

MCChanges ==
  {ChangeOf(st, "unset", "unset", TRUE, FALSE) : st \in AssetReviewState}
  \union {ChangeOf("unset", pr, "unset", TRUE, FALSE) : pr \in {"yes", "no"}}
  \union {ChangeOf("rejected", "yes", "unset", TRUE, FALSE),
          ChangeOf("unset", "unset", "unset", FALSE, TRUE)}
  \union {ChangeOf("unset", "unset", w, TRUE, FALSE) : w \in {"in_review", "published", "draft"}}

(* The review of a row changes while it is the only one; what concerns the *)
(* mark of the primary one goes on with more.                              *)
AboutMark == {c \in Changes : c.primary # "unset" \/ c.state = "rejected"}
Reviewed == {a \in Present : asset[a].state \notin {"quarantine", "needs_review", "pending"}
                             \/ asset[a].wf # "draft" \/ asset[a].primary}

Links == {a \in Present : asset[a].from = "link" /\ asset[a].file = None}
OneUpload == {a \in Present : asset[a].hash = Twin /\ Cardinality(Unwritten) + 1 = Cardinality(Files)}

ReviewSlice(s) ==
  /\ \A h \in Hunts : ~Hunting(h)
  /\ \A o \in Sessions : desk[o] # Idle => ~Wrote(desk[o])
  /\ \/ Present = Links /\ Unwritten = Files
     \/ Present = OneUpload
  /\ \/ Present = Links /\ AddLink(s)
     \/ \E a \in Present, c \in IF Cardinality(Present) = 1 THEN Changes ELSE AboutMark :
          Begin(s, update_asset(a, c))

Reviewing(s) == desk[s] # Idle /\ desk[s].read # Absent /\ ~Wrote(desk[s])

FileSlice(s) ==
  /\ Reviewed = {} /\ ~\E o \in Sessions : Reviewing(o)
  /\ Upload(s) \/ FetchLink(s) \/ AddLink(s)

HuntSlice(h) ==
  /\ Reviewed = {} /\ ~\E s \in Sessions : Reviewing(s)
  /\ StartHunt(h) \/ cache_download(h) \/ _delete_cached_candidate(h) \/ AcceptCandidate(h) \/ EndHunt(h)

LibraryNext ==
  /\ crossed = {}
  /\ \/ \E s \in Sessions : ReviewSlice(s) \/ FileSlice(s) \/ Commit(s) \/ Abort(s)
     \/ \E h \in Hunts : HuntSlice(h)

-----------------------------------------------------------------------------
MCLower == [n \in Names |-> IF n = "Lipstick" THEN "lipstick" ELSE n]

(* A project has dates, or a preview, or links, or a category; a second    *)
(* category comes only while there is no project.                          *)
Undated(row) == row # Nil => row.start = 0 /\ row.due = 0
Unseen(row) == row # Nil => ~row.required /\ row.preview = "not_required"
Plain(row) == Undated(row) /\ Unseen(row)
AllPlain == \A p \in Projects : Plain(project[p])
NoThings == \A x \in Things : thing[x] = "none"
NoProject == \A p \in Projects : ~Stands(p)
Named == {c \in Categories : Stands(c)}

PlanSlice(s) ==
  LET w == planner'[s] IN
  /\ BeginPlan(s)
  /\ \/ /\ AllPlain /\ (w.row \in Projects => Plain(w.want))
        /\ w.row \in Categories /\ w.want # Nil => Named = {} \/ NoProject
        /\ w.row \in Projects => Cardinality(Named) <= 1 /\ (Named = {} \/ NoThings)
        /\ w.makes = {} \/ Named = {}
     \/ /\ Named = {} /\ NoThings /\ w.row \in Projects /\ w.makes = {}
        /\ Undated(w.want) \/ Unseen(w.want)

ProjectSlice ==
  /\ mixed = {}
  /\ \/ \E s \in Planners : PlanSlice(s) \/ CommitPlan(s) \/ DropPlan(s)
     \/ AllPlain /\ Named = {} /\ ThingChanges

-----------------------------------------------------------------------------
Init == AssetInit /\ ProjectsInit /\ HubInit

NoItemYet == HubInit /\ ~strict

Next ==
  \/ NoItemYet /\ ProjectsInit /\ LibraryNext /\ UNCHANGED <<pvars, hvars>>
  \/ NoItemYet /\ AssetInit /\ ProjectSlice /\ UNCHANGED <<avars, hvars>>
  \/ AssetInit /\ ProjectsInit /\ SerialNext /\ UNCHANGED <<avars, pvars>>

Spec == Init /\ [][Next]_vars

(* The tables of the three parts hold what their columns can. *)
TypeOK == AssetTypeOK /\ ProjectsTypeOK /\ HubTypeOK

Symmetry == Permutations(Sessions) \union Permutations(Planners) \union TaskSlots
=============================================================================

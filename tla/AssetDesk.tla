------------------------------- MODULE AssetDesk -------------------------------
(***************************************************************************)
(* The pictures of products, their files and the hunt for more             *)
(* (api/routers/assets.py, services/storage.py, workers/jobs.py).          *)
(*                                                                         *)
(* A request writes its file before it looks at the table, and commits     *)
(* last: between the two other requests and hunts run.  A hunt reads the   *)
(* pictures of its product once, then commits one row per accepted         *)
(* candidate; a failure ends it with the rows it has committed.            *)
(***************************************************************************)
EXTENDS Workflow, FiniteSets

CONSTANTS
  Assets,    \* ids of rows
  Files,     \* names of files: each is written once
  Products,
  Pictures,  \* contents, told apart by their hash
  Look,      \* their perceptual hash, up to the distance that counts as alike
  None,
  Sessions,
  Hunts,     \* jobs of the worker
  Changes    \* what a PATCH may ask: [state, primary, workflow, reason, edit]

ASSUME LooksOfPictures ==
  DOMAIN Look = Pictures /\ None \notin Pictures \union Files \union Products

VARIABLES
  asset,   \* rows of assets
  disk,    \* what became of each file
  desk,    \* what each session is about to commit
  hunt,    \* what each job knows
  crossed, \* rows committed after another request of the product had been
  stray    \* files left behind by a failure, or by two downloads of one link

avars == <<asset, disk, desk, hunt, crossed, stray>>

AssetReviewState ==
  {"quarantine", "pending_review", "needs_review", "pending", "approved", "rejected"}

ASSET_REVIEW_TRANSITIONS ==
  [quarantine     |-> {"pending_review", "rejected"},
   pending_review |-> {"needs_review", "pending", "approved", "rejected", "quarantine"},
   needs_review   |-> {"pending", "approved", "rejected"},
   pending        |-> {"needs_review", "approved", "rejected"},
   approved       |-> {"needs_review", "rejected"},
   rejected       |-> {"pending_review", "needs_review"}]

Absent == [from |-> "none"]
Idle == [row |-> None]
Present == {a \in Assets : asset[a] # Absent}
PicturesOf(p) == {a \in Present : asset[a].product = p}
PrimaryOf(p) == {a \in PicturesOf(p) : asset[a].primary}

AssetTypeOK ==
  /\ disk \in [Files -> {"unwritten", "kept", "deleted"}]
  /\ crossed \subseteq Present /\ stray \subseteq Files
  /\ \A a \in Present :
       /\ asset[a].from \in {"upload", "link", "hunt"} /\ asset[a].product \in Products
       /\ asset[a].state \in AssetReviewState /\ asset[a].wf \in WorkflowStatus
       /\ asset[a].primary \in BOOLEAN
       /\ asset[a].file \in Files \union {None} /\ asset[a].hash \in Pictures \union {None}
       /\ asset[a].file = None => asset[a].from = "link" /\ asset[a].hash = None

NewRow(from, p, state, primary, file, hash) ==
  [from |-> from, product |-> p, state |-> state, primary |-> primary, wf |-> "draft",
   file |-> file, hash |-> hash]

Held == {desk[s].row : s \in Sessions}
Unborn == Assets \ (Present \union Held)
Unwritten == {f \in Files : disk[f] = "unwritten"}
NewId == CHOOSE a \in Unborn : TRUE
NewFile == CHOOSE f \in Unwritten : TRUE

-----------------------------------------------------------------------------
(* Handlers: the files as a request leaves them, and what it will commit:  *)
(* a row as read and as wanted, and the rows whose primary mark it clears. *)
Holding(a, want, clears, files) ==
  [disk |-> files,
   hold |-> [row |-> a, read |-> asset[a], want |-> want, clears |-> clears, met |-> FALSE]]
Nothing(files) == [disk |-> files, hold |-> Idle]

(* A slip: the row found loses its file, not the duplicate. *)
DeletesFound(p, x) ==
  LET found == {a \in PicturesOf(p) : asset[a].hash = x}
      stored == [disk EXCEPT ![NewFile] = "kept"]
  IN
  IF Unwritten = {} THEN {}
  ELSE IF found # {} THEN {Nothing([stored EXCEPT ![asset[a].file] = "deleted"]) : a \in found}
  ELSE IF Unborn = {} THEN {}
  ELSE {Holding(NewId, NewRow("upload", p, "quarantine", FALSE, NewFile, x), {}, stored)}

upload_asset(p, x) ==
  LET found == {a \in PicturesOf(p) : asset[a].hash = x}
      stored == [disk EXCEPT ![NewFile] = "kept"]
  IN
  IF Unwritten = {} THEN {}
  ELSE IF found # {} THEN {Nothing([stored EXCEPT ![NewFile] = "deleted"])}
  ELSE IF Unborn = {} THEN {}
  ELSE {Holding(NewId, NewRow("upload", p, "quarantine", FALSE, NewFile, x), {}, stored)}

_clear_other_primary_product_images(p, primary, own) ==
  IF primary THEN PrimaryOf(p) \ own ELSE {}

create_web_asset(p, primary) ==
  IF Unborn = {} THEN {}
  ELSE {Holding(NewId, NewRow("link", p, "needs_review", primary, None, None),
                _clear_other_primary_product_images(p, primary, {}), disk)}

(* The workflow status a PATCH leads to: the one it asks for, or the one   *)
(* of the review state it sends, and back to review when it changes an     *)
(* approved or published row.                                              *)
WorkflowAfter(row, c, changed) ==
  CASE c.workflow # "unset" -> c.workflow
    [] requires_re_review(row.wf, changed) -> "in_review"
    [] c.state = "unset" -> row.wf
    [] c.state \in {"approved", "rejected"} -> c.state
    [] OTHER -> "in_review"

(* A slip: a rejected picture keeps its mark. *)
KeepsMark(a, c) ==
  LET row == asset[a]
      state == IF c.state = "unset" THEN row.state ELSE c.state
      primary == IF c.primary = "unset" THEN row.primary ELSE c.primary = "yes"
      changed == state # row.state \/ (c.primary # "unset" /\ primary # row.primary) \/ c.edit
      wf == WorkflowAfter(row, c, changed)
      clears == _clear_other_primary_product_images(row.product, c.primary = "yes", {a})
  IN
  IF /\ state = row.state \/ state \in ASSET_REVIEW_TRANSITIONS[row.state]
     /\ validate_workflow_status_change(row.wf, wf, c.reason)
    THEN {Holding(a, [row EXCEPT !.state = state, !.primary = primary, !.wf = wf], clears, disk)}
    ELSE {}

update_asset(a, c) ==
  LET row == asset[a]
      state == IF c.state = "unset" THEN row.state ELSE c.state
      asked == IF c.primary = "unset" THEN row.primary ELSE c.primary = "yes"
      primary == asked /\ state # "rejected"
      changed == state # row.state \/ asked # row.primary \/ c.edit
      wf == WorkflowAfter(row, c, changed)
      clears == _clear_other_primary_product_images(
                  row.product, c.primary = "yes" /\ state # "rejected", {a})
  IN
  IF /\ state = row.state \/ state \in ASSET_REVIEW_TRANSITIONS[row.state]
     /\ validate_workflow_status_change(row.wf, wf, c.reason)
    THEN {Holding(a, [row EXCEPT !.state = state, !.primary = primary, !.wf = wf], clears, disk)}
    ELSE {}

(* A slip: the hash is recorded, the path is not. *)
PathForgotten(a, x) ==
  IF asset[a].file # None \/ Unwritten = {} THEN {}
  ELSE {Holding(a, [asset[a] EXCEPT !.hash = x], {}, [disk EXCEPT ![NewFile] = "kept"])}

(* The file or the thumbnail of a link that has not been fetched yet.      *)
get_asset_file(a, x) ==
  IF asset[a].file # None \/ Unwritten = {} THEN {}
  ELSE {Holding(a, [asset[a] EXCEPT !.file = NewFile, !.hash = x], {},
                [disk EXCEPT ![NewFile] = "kept"])}

-----------------------------------------------------------------------------
AssetInit ==
  /\ asset = [a \in Assets |-> Absent]
  /\ disk = [f \in Files |-> "unwritten"]
  /\ desk = [s \in Sessions |-> Idle]
  /\ hunt = [h \in Hunts |-> [product |-> None]]
  /\ crossed = {} /\ stray = {}

Begin(s, outcomes) ==
  /\ desk[s] = Idle
  /\ \E o \in outcomes : disk' = o.disk /\ desk' = [desk EXCEPT ![s] = o.hold]
  /\ UNCHANGED <<asset, hunt, crossed, stray>>

Upload(s) == \E p \in Products, x \in Pictures : Begin(s, upload_asset(p, x))
AddLink(s) == \E p \in Products, primary \in BOOLEAN : Begin(s, create_web_asset(p, primary))
Review(s) == \E a \in Present, c \in Changes : Begin(s, update_asset(a, c))
FetchLink(s) == \E a \in Present, x \in Pictures : Begin(s, get_asset_file(a, x))

(* The request has written a file.                                         *)
Wrote(h) == h.want.file \notin (IF h.read = Absent THEN {None} ELSE {None, h.read.file})

(* What the statements of a commit make of the table.                      *)
Merged(h) ==
  [a \in Assets |->
     IF a \in h.clears THEN [asset[a] EXCEPT !.primary = FALSE]
     ELSE IF a # h.row THEN asset[a]
     ELSE IF h.read = Absent THEN h.want
     ELSE [c \in DOMAIN h.want |-> IF h.want[c] = h.read[c] THEN asset[a][c] ELSE h.want[c]]]

(* uq_assets_one_primary_product_image *)
IndexAllows(rows) ==
  LET marked == {a \in Assets : rows[a] # Absent /\ rows[a].primary} IN
  \A a, b \in marked : rows[a].product = rows[b].product => a = b

(* Those at work on the product learn nothing of the commit.               *)
Meets(p, inserted, self) ==
  /\ desk' = [s \in Sessions |->
                IF s = self THEN Idle
                ELSE IF desk[s] # Idle /\ desk[s].want.product = p
                  THEN [desk[s] EXCEPT !.met = TRUE] ELSE desk[s]]
  /\ hunt' = [h \in Hunts |->
                IF inserted /\ hunt[h].product = p
                  THEN [hunt[h] EXCEPT !.met = TRUE] ELSE hunt[h]]

Commit(s) ==
  LET h == desk[s] IN
  /\ h # Idle /\ IndexAllows(Merged(h))
  /\ asset' = Merged(h)
  /\ Meets(h.want.product, h.read = Absent, s)
  /\ crossed' = IF h.met THEN crossed \union {h.row} ELSE crossed
  /\ stray' = IF h.met /\ h.read # Absent /\ Wrote(h)
                THEN stray \union ({asset[h.row].file} \ {None}) ELSE stray
  /\ UNCHANGED disk

(* An error of the database, the index among them, or of the server.       *)
Abort(s) ==
  LET h == desk[s] IN
  /\ h # Idle
  /\ desk' = [desk EXCEPT ![s] = Idle]
  /\ stray' = IF Wrote(h) THEN stray \union {h.want.file} ELSE stray
  /\ UNCHANGED <<asset, disk, hunt, crossed>>

-----------------------------------------------------------------------------
(* The job of the worker, candidate by candidate.                          *)
Hunting(h) == hunt[h].product # None

StartHunt(h) ==
  /\ ~Hunting(h)
  /\ \E p \in Products :
       hunt' = [hunt EXCEPT ![h] =
         [product |-> p, met |-> FALSE, file |-> None, picture |-> None,
          hashes |-> {asset[a].hash : a \in PicturesOf(p)},
          looks |-> {Look[asset[a].hash] : a \in {b \in PicturesOf(p) : asset[b].from # "link"}}]]
  /\ UNCHANGED <<asset, disk, desk, crossed, stray>>

cache_download(h) ==
  /\ Hunting(h) /\ hunt[h].file = None /\ Unwritten # {}
  /\ disk' = [disk EXCEPT ![NewFile] = "kept"]
  /\ \E x \in Pictures : hunt' = [hunt EXCEPT ![h].file = NewFile, ![h].picture = x]
  /\ UNCHANGED <<asset, desk, crossed, stray>>

Known(j) == j.picture \in j.hashes \/ Look[j.picture] \in j.looks

(* A slip: the pictures accepted on the way are not remembered. *)
ForgetsOwn(j) == [j EXCEPT !.file = None, !.picture = None]
Remembered(j) ==
  [j EXCEPT !.hashes = @ \union {j.picture}, !.looks = @ \union {Look[j.picture]},
            !.file = None, !.picture = None]

(* A duplicate, or a picture too small, too long or too plain.             *)
_delete_cached_candidate(h) ==
  /\ Hunting(h) /\ hunt[h].file # None
  /\ disk' = [disk EXCEPT ![hunt[h].file] = "deleted"]
  /\ hunt' = [hunt EXCEPT ![h].file = None, ![h].picture = None]
  /\ UNCHANGED <<asset, desk, crossed, stray>>

AcceptCandidate(h) ==
  LET j == hunt[h] IN
  /\ Hunting(h) /\ j.file # None /\ ~Known(j) /\ Unborn # {}
  /\ asset' = [asset EXCEPT ![NewId] = NewRow("hunt", j.product, "pending", FALSE, j.file, j.picture)]
  /\ crossed' = IF j.met THEN crossed \union {NewId} ELSE crossed
  /\ desk' = [s \in Sessions |->
                IF desk[s] # Idle /\ desk[s].want.product = j.product
                  THEN [desk[s] EXCEPT !.met = TRUE] ELSE desk[s]]
  /\ hunt' = [o \in Hunts |->
                IF o = h THEN Remembered(j)
                ELSE IF hunt[o].product = j.product THEN [hunt[o] EXCEPT !.met = TRUE] ELSE hunt[o]]
  /\ UNCHANGED <<disk, stray>>

(* After the last candidate, on an error, or when the worker is stopped.   *)
EndHunt(h) ==
  /\ Hunting(h)
  /\ hunt' = [hunt EXCEPT ![h] = [product |-> None]]
  /\ stray' = stray \union ({hunt[h].file} \ {None})
  /\ UNCHANGED <<asset, disk, desk, crossed>>

AssetNext ==
  \/ \E s \in Sessions : Upload(s) \/ AddLink(s) \/ Review(s) \/ FetchLink(s) \/ Commit(s) \/ Abort(s)
  \/ \E h \in Hunts : StartHunt(h) \/ cache_download(h) \/ _delete_cached_candidate(h)
                      \/ AcceptCandidate(h) \/ EndHunt(h)

AssetSpec == AssetInit /\ [][AssetNext]_avars

-----------------------------------------------------------------------------
(* "A transition to rejected clears is_primary" (docs/domain-status-       *)
(* rules.md): a rejected picture is not the primary one of its product,    *)
(* unless some change of it overlapped another request of the product.  And *)
(* the index never refuses a request that nobody overlapped: whoever marks *)
(* a picture has cleared the marks of the others.                          *)
PrimaryMarksAgree ==
  /\ \A a \in Present \ crossed : asset[a].state = "rejected" => ~asset[a].primary
  /\ \A s \in Sessions : desk[s] # Idle /\ ~desk[s].met => IndexAllows(Merged(desk[s]))

(* A row's file is there as long as the row: cleaning up after duplicates  *)
(* and rejected candidates never takes a file another row shows.  A file   *)
(* on disk belongs to a row, or to a request or job at work, or it was     *)
(* left behind by a failure or by two downloads of the same link.          *)
FilesKept ==
  /\ \A a \in Present : asset[a].file # None => disk[asset[a].file] = "kept"
  /\ \A f \in Files :
       disk[f] = "kept" =>
         \/ \E a \in Present : asset[a].file = f
         \/ \E s \in Sessions : desk[s] # Idle /\ desk[s].want.file = f
         \/ \E h \in Hunts : Hunting(h) /\ hunt[h].file = f
         \/ f \in stray

(* A product has an uploaded or hunted picture once, and no two hunted     *)
(* ones that look alike, unless the second was committed after a row its   *)
(* request or its hunt had not seen.                                       *)
PicturesOnce ==
  \A a, b \in Present \ crossed :
    LET from == <<asset[a].from, asset[b].from>> IN
    a # b /\ asset[a].product = asset[b].product =>
      /\ from \in {"upload", "hunt"} \X {"upload", "hunt"} => asset[a].hash # asset[b].hash
      /\ from = <<"hunt", "hunt">> => Look[asset[a].hash] # Look[asset[b].hash]

=============================================================================

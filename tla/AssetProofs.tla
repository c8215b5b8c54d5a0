------------------------------ MODULE AssetProofs ------------------------------
(***************************************************************************)
(* Pictures, their files and their primary marks, for any number of        *)
(* products, pictures, sessions and hunts at once.                         *)
(***************************************************************************)
EXTENDS AssetDesk, TLAPS

Row ==
  [from : {"upload", "link", "hunt"}, product : Products, state : AssetReviewState,
   primary : BOOLEAN, wf : WorkflowStatus, file : Files \union {None}, hash : Pictures \union {None}]
RowOK(r) == r \in Row /\ (r.file = None => r.from = "link" /\ r.hash = None)
RowsOK == DOMAIN asset = Assets /\ \A a \in Assets : asset[a] = Absent \/ RowOK(asset[a])

(* What a session holds: a new upload or link, a row whose file stays, or  *)
(* a link that gets one.                                                   *)
IsHold(h) ==
  h = [row |-> h.row, read |-> h.read, want |-> h.want, clears |-> h.clears, met |-> h.met]
HoldOK(h) ==
  /\ IsHold(h) /\ h.row \in Assets /\ RowOK(h.want)
  /\ h.want.state = "rejected" /\ h.want.primary =>
       h.read # Absent /\ h.read.state = "rejected" /\ h.read.primary
  /\ \/ h.read = Absent /\ h.want.from \in {"upload", "link"}
     \/ /\ RowOK(h.read) /\ h.read.from = h.want.from /\ h.read.product = h.want.product
        /\ \/ h.want.file = h.read.file /\ h.want.hash = h.read.hash
           \/ h.read.file = None /\ h.want.file # None

(* Its row, once there, stays the product's; what it read holds until      *)
(* another request of the product commits.                                 *)
RowStands(h) ==
  IF h.read = Absent THEN asset[h.row] = Absent
  ELSE h.row \in Present /\ asset[h.row].from = h.want.from /\ asset[h.row].product = h.want.product
ClearsOwn(h) == h.clears \subseteq PicturesOf(h.want.product) \ {h.row}
MarksCleared(h) ==
  h.want.primary => \/ h.read # Absent /\ h.read.primary
                    \/ PrimaryOf(h.want.product) \ {h.row} \subseteq h.clears
NewPicture(h) ==
  h.read = Absent /\ h.want.from = "upload" =>
    \A a \in PicturesOf(h.want.product) : asset[a].hash # h.want.hash
HoldFits(h) ==
  /\ RowStands(h) /\ ClearsOwn(h)
  /\ ~h.met => asset[h.row] = h.read /\ MarksCleared(h) /\ NewPicture(h)

HoldsOK ==
  /\ DOMAIN desk = Sessions
  /\ \A s \in Sessions : desk[s] # Idle => HoldOK(desk[s]) /\ HoldFits(desk[s])
  /\ \A s, t \in Sessions : desk[s] # Idle /\ desk[t] # Idle /\ s # t /\ desk[s].read = Absent
                              => desk[t].row # desk[s].row

(* A hunt remembers every picture of its product that has been uploaded or *)
(* hunted, until another request adds one.                                 *)
IsHunt(j) ==
  j = [product |-> j.product, met |-> j.met, file |-> j.file, picture |-> j.picture,
       hashes |-> j.hashes, looks |-> j.looks]
HuntOK(j) ==
  /\ IsHunt(j) /\ j.product \in Products /\ j.file \in Files \union {None}
  /\ j.file # None => j.picture \in Pictures
HuntFits(j) ==
  ~j.met => \A a \in PicturesOf(j.product) :
              asset[a].from # "link" => asset[a].hash \in j.hashes /\ Look[asset[a].hash] \in j.looks
HuntsOK ==
  /\ DOMAIN hunt = Hunts
  /\ \A h \in Hunts : Hunting(h) => HuntOK(hunt[h]) /\ HuntFits(hunt[h])

(* Files in use are on disk, a hunt's is nobody else's, and each file on   *)
(* disk has an owner.                                                      *)
RowHas(f) == \E a \in Present : asset[a].file = f
DeskHas(f) == \E s \in Sessions : desk[s] # Idle /\ desk[s].want.file = f
DeskWrote(f) == \E s \in Sessions : desk[s] # Idle /\ desk[s].want.file = f /\ Wrote(desk[s])
HuntHas(h, f) == Hunting(h) /\ hunt[h].file = f
FilesOK ==
  /\ disk \in [Files -> {"unwritten", "kept", "deleted"}] /\ stray \subseteq Files
  /\ \A f \in Files : RowHas(f) \/ DeskHas(f) \/ (\E h \in Hunts : HuntHas(h, f)) => disk[f] = "kept"
  /\ \A f \in Files, h \in Hunts : HuntHas(h, f) =>
       ~RowHas(f) /\ ~DeskHas(f) /\ \A o \in Hunts : HuntHas(o, f) => o = h
  /\ \A f \in Files : disk[f] = "kept" =>
       RowHas(f) \/ DeskWrote(f) \/ (\E h \in Hunts : HuntHas(h, f)) \/ f \in stray

MarksOK == IndexAllows(asset) /\ \A a \in Present \ crossed : asset[a].state = "rejected" => ~asset[a].primary

AssetInv ==
  /\ RowsOK /\ HoldsOK /\ HuntsOK /\ FilesOK
  /\ crossed \subseteq Present
  /\ MarksOK /\ PicturesOnce

-----------------------------------------------------------------------------
LEMMA NoneIsNoFile == \A f \in Files : f # None
  BY LooksOfPictures

LEMMA RowIsPresent == \A r : RowOK(r) => r # Absent
  BY DEF RowOK, Row, Absent

LEMMA NewRowOK ==
  ASSUME NEW from \in {"upload", "link", "hunt"}, NEW p \in Products,
         NEW state \in {"quarantine", "needs_review", "pending"}, NEW primary \in BOOLEAN,
         NEW f \in Files \union {None}, NEW x \in Pictures \union {None},
         f = None => from = "link" /\ x = None
  PROVE  RowOK(NewRow(from, p, state, primary, f, x))
  BY DEF RowOK, Row, NewRow, AssetReviewState, WorkflowStatus

LEMMA TypeFromInv == AssetInv => AssetTypeOK
<1> SUFFICES ASSUME AssetInv PROVE AssetTypeOK
  OBVIOUS
<1>1. \A a \in Present : RowOK(asset[a])
  BY DEF AssetInv, RowsOK, Present
<1>2. ASSUME NEW a \in Present
      PROVE  /\ asset[a].from \in {"upload", "link", "hunt"} /\ asset[a].product \in Products
             /\ asset[a].state \in AssetReviewState /\ asset[a].wf \in WorkflowStatus
             /\ asset[a].primary \in BOOLEAN
             /\ asset[a].file \in Files \union {None} /\ asset[a].hash \in Pictures \union {None}
             /\ asset[a].file = None => asset[a].from = "link" /\ asset[a].hash = None
  BY <1>1 DEF RowOK, Row
<1> QED
  BY <1>2 DEF AssetInv, AssetTypeOK, FilesOK

LEMMA InitAsset == AssetInit => AssetInv
<1> SUFFICES ASSUME AssetInit PROVE AssetInv
  OBVIOUS
<1>1. Present = {} /\ \A h \in Hunts : ~Hunting(h)
  BY DEF AssetInit, Present, Hunting
<1>2. \A s \in Sessions : desk[s] = Idle
  BY DEF AssetInit
<1>3. RowsOK /\ HoldsOK /\ HuntsOK
  BY <1>1, <1>2 DEF AssetInit, RowsOK, HoldsOK, HuntsOK
<1>4. FilesOK
  BY <1>1, <1>2 DEF AssetInit, FilesOK, RowHas, DeskHas, HuntHas
<1>5. MarksOK /\ PicturesOnce
  BY <1>1 DEF AssetInit, MarksOK, IndexAllows, PicturesOnce
<1> QED
  BY <1>3, <1>4, <1>5 DEF AssetInit, AssetInv

-----------------------------------------------------------------------------
(* What the handlers decide.                                               *)
Keeps(o) ==
  /\ o.disk = disk /\ o.hold # Idle /\ ~Wrote(o.hold)
  /\ o.hold.want.file # None => o.hold.row \in Present /\ o.hold.want.file = asset[o.hold.row].file
WritesFile(o, f) ==
  /\ f \in Unwritten /\ o.disk = [disk EXCEPT ![f] = "kept"]
  /\ o.hold # Idle /\ o.hold.want.file = f /\ Wrote(o.hold)
Deletes(o, f) ==
  f \in Unwritten /\ o.disk = [disk EXCEPT ![f] = "deleted"] /\ o.hold = Idle
Decided(o) ==
  /\ o.hold # Idle =>
       /\ HoldOK(o.hold) /\ HoldFits(o.hold) /\ ~o.hold.met
       /\ o.hold.read = Absent => o.hold.row \in Unborn
  /\ Keeps(o) \/ \E f \in Files : WritesFile(o, f) \/ Deletes(o, f)

LEMMA FreshNames ==
  /\ Unborn # {} => NewId \in Unborn
  /\ Unwritten # {} => NewFile \in Unwritten /\ NewFile \in Files
  BY DEF NewId, NewFile, Unwritten

LEMMA UploadDecided ==
  ASSUME AssetInv, NEW p \in Products, NEW x \in Pictures, NEW o \in upload_asset(p, x)
  PROVE  Decided(o)
<1>1. Unwritten # {} /\ NewFile \in Unwritten /\ NewFile \in Files /\ NewFile # None
  BY FreshNames, LooksOfPictures DEF upload_asset
<1>2. CASE o = Nothing([[disk EXCEPT ![NewFile] = "kept"] EXCEPT ![NewFile] = "deleted"])
  <2>1. o.disk = [disk EXCEPT ![NewFile] = "deleted"] /\ o.hold = Idle
    BY <1>1, <1>2 DEF Nothing, AssetInv, FilesOK
  <2> QED
    BY <1>1, <2>1 DEF Decided, Deletes
<1>3. CASE /\ Unborn # {} /\ {a \in PicturesOf(p) : asset[a].hash = x} = {}
           /\ o = Holding(NewId, NewRow("upload", p, "quarantine", FALSE, NewFile, x), {},
                          [disk EXCEPT ![NewFile] = "kept"])
  <2>1. PICK w : w = NewRow("upload", p, "quarantine", FALSE, NewFile, x)
    OBVIOUS
  <2>2. RowOK(w) /\ w.from = "upload" /\ w.product = p /\ w.state = "quarantine" /\ ~w.primary
        /\ w.file = NewFile /\ w.hash = x
    BY <1>1, <2>1, NewRowOK DEF NewRow
  <2>3. NewId \in Unborn /\ NewId \in Assets /\ asset[NewId] = Absent
    BY <1>3, FreshNames DEF Unborn, Present
  <2>4. PICK h : h = o.hold
    OBVIOUS
  <2>5. /\ IsHold(h) /\ h.row = NewId /\ h.want = w /\ h.clears = {} /\ h.read = Absent /\ ~h.met /\ h # Idle
        /\ o.disk = [disk EXCEPT ![NewFile] = "kept"]
    BY <1>3, <2>1, <2>3, <2>4 DEF Holding, Idle, IsHold
  <2>6. HoldOK(h) /\ HoldFits(h)
    BY <1>3, <2>2, <2>3, <2>5 DEF HoldOK, HoldFits, RowStands, ClearsOwn, MarksCleared, NewPicture
  <2>7. WritesFile(o, NewFile)
    BY <1>1, <2>2, <2>4, <2>5 DEF WritesFile, Wrote
  <2> QED
    BY <1>1, <2>3, <2>4, <2>5, <2>6, <2>7 DEF Decided
<1> QED
  BY <1>1, <1>2, <1>3 DEF upload_asset

LEMMA LinkDecided ==
  ASSUME AssetInv, NEW p \in Products, NEW primary \in BOOLEAN, NEW o \in create_web_asset(p, primary)
  PROVE  Decided(o)
<1>1. PICK w : w = NewRow("link", p, "needs_review", primary, None, None)
  OBVIOUS
<1>2. RowOK(w) /\ w.from = "link" /\ w.product = p /\ w.state = "needs_review"
      /\ (w.primary <=> primary) /\ w.file = None
  BY <1>1, NewRowOK DEF NewRow
<1>3. NewId \in Unborn /\ NewId \in Assets /\ asset[NewId] = Absent
  BY FreshNames DEF create_web_asset, Unborn, Present
<1>4. PICK h : h = o.hold
  OBVIOUS
<1>5. /\ IsHold(h) /\ h.row = NewId /\ h.want = w /\ h.read = Absent /\ ~h.met /\ h # Idle /\ o.disk = disk
      /\ h.clears = _clear_other_primary_product_images(p, primary, {})
  BY <1>1, <1>3, <1>4 DEF create_web_asset, Holding, Idle, IsHold
<1>6. HoldOK(h) /\ HoldFits(h)
  BY <1>2, <1>3, <1>5 DEF HoldOK, HoldFits, RowStands, ClearsOwn, MarksCleared, NewPicture,
       _clear_other_primary_product_images, PrimaryOf, PicturesOf, Present
<1>7. Keeps(o)
  BY <1>2, <1>4, <1>5 DEF Keeps, Wrote
<1> QED
  BY <1>3, <1>4, <1>5, <1>6, <1>7 DEF Decided

LEMMA StatesTyped ==
  /\ \A st \in AssetReviewState : ASSET_REVIEW_TRANSITIONS[st] \subseteq AssetReviewState
  /\ \A st \in WorkflowStatus : WORKFLOW_TRANSITIONS[st] \subseteq WorkflowStatus
  BY DEF AssetReviewState, ASSET_REVIEW_TRANSITIONS, WorkflowStatus, WORKFLOW_TRANSITIONS

LEMMA ReviewDecided ==
  ASSUME AssetInv, NEW a \in Present, NEW c, NEW o \in update_asset(a, c)
  PROVE  Decided(o)
<1>1. PICK row : row = asset[a]
  OBVIOUS
<1>2. PICK state : state = IF c.state = "unset" THEN row.state ELSE c.state
  OBVIOUS
<1>3. PICK asked : asked = IF c.primary = "unset" THEN row.primary ELSE c.primary = "yes"
  OBVIOUS
<1>4. PICK wf : wf = WorkflowAfter(row, c, state # row.state \/ asked # row.primary \/ c.edit)
  OBVIOUS
<1>5. PICK clears : clears = _clear_other_primary_product_images(
                               row.product, c.primary = "yes" /\ state # "rejected", {a})
  OBVIOUS
<1>6. PICK primary : primary = (asked /\ state # "rejected")
  OBVIOUS
<1>7. PICK want : want = [row EXCEPT !.state = state, !.primary = primary, !.wf = wf]
  OBVIOUS
<1>8. /\ state = row.state \/ state \in ASSET_REVIEW_TRANSITIONS[row.state]
      /\ validate_workflow_status_change(row.wf, wf, c.reason)
      /\ o = Holding(a, want, clears, disk)
  BY <1>1, <1>2, <1>3, <1>4, <1>5, <1>6, <1>7 DEF update_asset
<1>9. a \in Assets /\ RowOK(row) /\ row # Absent
  BY <1>1 DEF AssetInv, RowsOK, Present
<1>10. state \in AssetReviewState /\ wf \in WorkflowStatus
  BY <1>8, <1>9, StatesTyped DEF RowOK, Row, validate_workflow_status_change
<1>11. primary \in BOOLEAN
  BY <1>6
<1>12. RowOK(want)
  BY <1>7, <1>9, <1>10, <1>11 DEF RowOK, Row
<1>13. /\ want.state = state /\ want.primary = primary /\ want.from = row.from
       /\ want.product = row.product /\ want.file = row.file /\ want.hash = row.hash
  BY <1>7, <1>9 DEF RowOK, Row
<1>14. PICK h : h = o.hold
  OBVIOUS
<1>15. /\ IsHold(h) /\ h.row = a /\ h.want = want /\ h.clears = clears /\ h.read = row /\ ~h.met /\ h # Idle
       /\ o.disk = disk
  BY <1>1, <1>8, <1>14 DEF Holding, Idle, IsHold
<1>16. HoldOK(h)
  BY <1>6, <1>9, <1>12, <1>13, <1>15 DEF HoldOK
<1>17. ClearsOwn(h) /\ RowStands(h)
  BY <1>1, <1>5, <1>9, <1>13, <1>15 DEF ClearsOwn, RowStands, _clear_other_primary_product_images, PrimaryOf
<1>18. MarksCleared(h)
  BY <1>3, <1>5, <1>6, <1>9, <1>13, <1>15 DEF MarksCleared, _clear_other_primary_product_images
<1>19. HoldFits(h)
  BY <1>1, <1>9, <1>15, <1>17, <1>18 DEF HoldFits, NewPicture
<1>20. Keeps(o)
  BY <1>1, <1>9, <1>13, <1>14, <1>15 DEF Keeps, Wrote
<1> QED
  BY <1>9, <1>14, <1>15, <1>16, <1>19, <1>20 DEF Decided

LEMMA FetchDecided ==
  ASSUME AssetInv, NEW a \in Present, NEW x \in Pictures, NEW o \in get_asset_file(a, x)
  PROVE  Decided(o)
<1>1. PICK row : row = asset[a]
  OBVIOUS
<1>2. row.file = None /\ NewFile \in Unwritten /\ NewFile \in Files /\ NewFile # None
  BY <1>1, FreshNames, LooksOfPictures DEF get_asset_file
<1>3. a \in Assets /\ RowOK(row) /\ row # Absent
  BY <1>1 DEF AssetInv, RowsOK, Present
<1>4. PICK want : want = [row EXCEPT !.file = NewFile, !.hash = x]
  OBVIOUS
<1>5. RowOK(want)
  BY <1>2, <1>3, <1>4 DEF RowOK, Row
<1>6. /\ want.state = row.state /\ want.primary = row.primary /\ want.from = row.from
      /\ want.product = row.product /\ want.file = NewFile /\ want.hash = x
  BY <1>3, <1>4 DEF RowOK, Row
<1>7. PICK h : h = o.hold
  OBVIOUS
<1>8. /\ IsHold(h) /\ h.row = a /\ h.want = want /\ h.clears = {} /\ h.read = row /\ ~h.met /\ h # Idle
      /\ o.disk = [disk EXCEPT ![NewFile] = "kept"]
  BY <1>1, <1>4, <1>7 DEF get_asset_file, Holding, Idle, IsHold
<1>9. HoldOK(h)
  BY <1>2, <1>3, <1>5, <1>6, <1>8 DEF HoldOK
<1>10. HoldFits(h)
  BY <1>1, <1>3, <1>6, <1>8 DEF HoldFits, ClearsOwn, RowStands, MarksCleared, NewPicture
<1>11. WritesFile(o, NewFile)
  BY <1>2, <1>3, <1>6, <1>7, <1>8 DEF WritesFile, Wrote
<1> QED
  BY <1>2, <1>3, <1>7, <1>8, <1>9, <1>10, <1>11 DEF Decided

-----------------------------------------------------------------------------
LEMMA BeginStep ==
  ASSUME AssetInv, NEW s \in Sessions, NEW o, Decided(o),
         desk[s] = Idle, disk' = o.disk, desk' = [desk EXCEPT ![s] = o.hold],
         UNCHANGED <<asset, hunt, crossed, stray>>
  PROVE  AssetInv'
<1>1. \A t \in Sessions : desk'[t] = IF t = s THEN o.hold ELSE desk[t]
  BY DEF AssetInv, HoldsOK
<1>2. RowsOK' /\ HuntsOK' /\ MarksOK' /\ PicturesOnce' /\ (crossed \subseteq Present)'
  BY DEF AssetInv, RowsOK, HuntsOK, HuntFits, Hunting, PicturesOf, Present, MarksOK, PicturesOnce
<1>3. HoldsOK'
  <2>1. ASSUME NEW h, HoldFits(h) PROVE HoldFits(h)'
    BY <2>1 DEF HoldFits, RowStands, ClearsOwn, MarksCleared, NewPicture, PrimaryOf, PicturesOf, Present
  <2>2. ASSUME NEW t \in Sessions, desk'[t] # Idle PROVE (HoldOK(desk[t]) /\ HoldFits(desk[t]))'
    <3>1. PICK h : h = desk'[t]
      OBVIOUS
    <3>2. HoldOK(h) /\ HoldFits(h)
      BY <1>1, <2>2, <3>1 DEF Decided, AssetInv, HoldsOK
    <3> QED
      BY <2>1, <3>1, <3>2
  <2>3. ASSUME NEW t \in Sessions, NEW u \in Sessions, desk'[t] # Idle, desk'[u] # Idle, t # u,
               desk'[t].read = Absent
        PROVE  desk'[u].row # desk'[t].row
    <3>1. CASE t = s
      <4>1. desk'[t].row \in Unborn /\ desk'[u] = desk[u]
        BY <1>1, <2>3, <3>1 DEF Decided
      <4> QED
        BY <4>1 DEF Unborn, Held
    <3>2. CASE u = s /\ desk'[u].read = Absent
      <4>1. desk'[u].row \in Unborn /\ desk'[t] = desk[t]
        BY <1>1, <2>3, <3>2 DEF Decided
      <4> QED
        BY <4>1 DEF Unborn, Held
    <3>3. CASE u = s /\ desk'[u].read # Absent
      <4>1. desk'[u].row \in Present /\ desk'[t] = desk[t]
        BY <1>1, <2>3, <3>3 DEF Decided, HoldFits, RowStands
      <4>2. asset[desk[t].row] = Absent
        BY <2>3, <4>1 DEF AssetInv, HoldsOK, HoldFits, RowStands
      <4> QED
        BY <4>1, <4>2 DEF Present
    <3>4. CASE t # s /\ u # s
      BY <1>1, <2>3, <3>4 DEF AssetInv, HoldsOK
    <3> QED
      BY <3>1, <3>2, <3>3, <3>4
  <2>4. DOMAIN desk' = Sessions
    BY DEF AssetInv, HoldsOK
  <2> QED
    BY <2>2, <2>3, <2>4 DEF HoldsOK
<1>4. FilesOK'
  <2>1. PICK d : d = disk'
    OBVIOUS
  <2>2. /\ d \in [Files -> {"unwritten", "kept", "deleted"}]
        /\ \A f \in Files : disk[f] = "kept" => d[f] = "kept"
    BY <2>1 DEF AssetInv, FilesOK, Decided, Keeps, WritesFile, Deletes, Unwritten
  <2>3. \A f : RowHas(f)' <=> RowHas(f)
    BY DEF RowHas, Present
  <2>4. \A f, h : HuntHas(h, f)' <=> HuntHas(h, f)
    BY DEF HuntHas, Hunting
  <2>5. \A f : DeskHas(f) => DeskHas(f)'
    BY <1>1 DEF DeskHas
  <2>6. \A f : DeskWrote(f) => DeskWrote(f)'
    BY <1>1 DEF DeskWrote, Wrote
  <2>7. CASE Keeps(o)
    <3>1. \A f \in Files : DeskHas(f)' => DeskHas(f) \/ RowHas(f)
      BY <1>1, <2>7, LooksOfPictures DEF DeskHas, RowHas, Keeps
    <3>2. d = disk
      BY <2>1, <2>7 DEF Keeps
    <3> QED
      BY <2>1, <2>2, <2>3, <2>4, <2>6, <3>1, <3>2 DEF AssetInv, FilesOK
  <2>8. ASSUME NEW f \in Files, WritesFile(o, f) PROVE FilesOK'
    <3>1. \A g \in Files : DeskHas(g)' => DeskHas(g) \/ g = f
      BY <1>1, <2>8 DEF DeskHas, WritesFile
    <3>2. DeskWrote(f)'
      BY <1>1, <2>8 DEF DeskWrote, WritesFile
    <3>3. d[f] = "kept" /\ disk[f] = "unwritten" /\ \A g \in Files \ {f} : d[g] = disk[g]
      BY <2>1, <2>8 DEF WritesFile, Unwritten, AssetInv, FilesOK
    <3>4. ~RowHas(f) /\ \A h \in Hunts : ~HuntHas(h, f)
      BY <3>3 DEF AssetInv, FilesOK
    <3> QED
      BY <2>1, <2>2, <2>3, <2>4, <2>6, <3>1, <3>2, <3>3, <3>4 DEF AssetInv, FilesOK
  <2>9. ASSUME NEW f \in Files, Deletes(o, f) PROVE FilesOK'
    <3>1. \A g \in Files : DeskHas(g)' => DeskHas(g)
      BY <1>1, <2>9 DEF DeskHas, Deletes
    <3>2. d[f] = "deleted" /\ \A g \in Files \ {f} : d[g] = disk[g]
      BY <2>1, <2>9 DEF Deletes, Unwritten, AssetInv, FilesOK
    <3> QED
      BY <2>1, <2>2, <2>3, <2>4, <2>6, <3>1, <3>2 DEF AssetInv, FilesOK
  <2> QED
    BY <2>7, <2>8, <2>9 DEF Decided
<1> QED
  BY <1>2, <1>3, <1>4 DEF AssetInv

-----------------------------------------------------------------------------
(* A step that changes rows of product p alone, adds no row outside new,   *)
(* and leaves origin, product and the hash of a picture as they are.       *)
RowsChange(p, new) ==
  /\ DOMAIN asset' = Assets
  /\ \A a \in Present :
       /\ RowOK(asset'[a]) /\ asset'[a].from = asset[a].from /\ asset'[a].product = asset[a].product
       /\ asset[a].from # "link" => asset'[a].hash = asset[a].hash
       /\ asset[a].product # p => asset'[a] = asset[a]
  /\ \A a \in Assets \ Present :
       asset'[a] = Absent \/ (a \in new /\ RowOK(asset'[a]) /\ asset'[a].product = p)

LEMMA RowsAfter ==
  ASSUME AssetInv, NEW p, NEW new, RowsChange(p, new)
  PROVE  RowsOK' /\ Present \subseteq Present' /\ Present' \subseteq Present \union new
  BY RowIsPresent DEF AssetInv, RowsOK, RowsChange, Present

LEMMA MetHold ==
  ASSUME NEW h, HoldOK(h), NEW g, g = [h EXCEPT !.met = TRUE]
  PROVE  /\ HoldOK(g) /\ g.met /\ g.row = h.row /\ g.read = h.read /\ g.want = h.want
         /\ g.clears = h.clears
<1>1. g = [row |-> h.row, read |-> h.read, want |-> h.want, clears |-> h.clears, met |-> TRUE]
  BY DEF HoldOK, IsHold
<1> QED
  BY <1>1 DEF HoldOK, IsHold

LEMMA HoldAfter ==
  ASSUME AssetInv, NEW p, NEW new, RowsChange(p, new),
         NEW h, HoldOK(h), HoldFits(h), h.read = Absent => h.row \notin new,
         NEW g, g = IF h.want.product = p THEN [h EXCEPT !.met = TRUE] ELSE h
  PROVE  HoldOK(g) /\ HoldFits(g)'
<1>1. /\ HoldOK(g) /\ g.row = h.row /\ g.read = h.read /\ g.want = h.want /\ g.clears = h.clears
      /\ IF h.want.product = p THEN g.met ELSE g = h
  BY MetHold
<1>2. Present \subseteq Present' /\ h.row \in Assets
  BY RowsAfter DEF HoldOK
<1>3. RowStands(g)'
  BY <1>1, <1>2 DEF RowsChange, HoldFits, RowStands, Present
<1>4. ClearsOwn(g)'
  BY <1>1, <1>2 DEF RowsChange, HoldFits, ClearsOwn, PicturesOf
<1>5. ASSUME ~g.met PROVE asset'[g.row] = g.read /\ MarksCleared(g)' /\ NewPicture(g)'
  <2>1. h.want.product # p /\ g = h
    BY <1>1, <1>5
  <2>2. PicturesOf(h.want.product)' = PicturesOf(h.want.product)
    BY <1>2, <2>1, RowsAfter DEF RowsChange, PicturesOf, Present
  <2>3. \A a \in PicturesOf(h.want.product) : asset'[a] = asset[a]
    BY <2>1 DEF RowsChange, PicturesOf
  <2>4. PrimaryOf(h.want.product)' = PrimaryOf(h.want.product)
    BY <2>2, <2>3 DEF PrimaryOf
  <2>5. asset'[h.row] = h.read
    BY <1>2, <1>3, <1>5, <2>1 DEF HoldFits, RowStands, RowsChange
  <2> QED
    BY <1>5, <2>1, <2>2, <2>3, <2>4, <2>5 DEF HoldFits, MarksCleared, NewPicture
<1> QED
  BY <1>1, <1>3, <1>4, <1>5 DEF HoldFits

LEMMA HuntAfter ==
  ASSUME AssetInv, NEW p, NEW new, RowsChange(p, new),
         NEW j, HuntOK(j), HuntFits(j),
         NEW k, k = IF new # {} /\ j.product = p THEN [j EXCEPT !.met = TRUE] ELSE j
  PROVE  HuntOK(k) /\ HuntFits(k)' /\ k.file = j.file /\ k.product = j.product
<1>1. CASE new # {} /\ j.product = p
  <2>1. k = [product |-> j.product, met |-> TRUE, file |-> j.file, picture |-> j.picture,
             hashes |-> j.hashes, looks |-> j.looks]
    BY <1>1 DEF HuntOK, IsHunt
  <2>2. k.met /\ k.file = j.file /\ k.product = j.product /\ k.picture = j.picture
    BY <2>1
  <2>3. HuntOK(k)
    BY <2>1, <2>2 DEF HuntOK, IsHunt
  <2> QED
    BY <2>2, <2>3 DEF HuntFits
<1>2. CASE ~(new # {} /\ j.product = p)
  <2>1. k = j
    BY <1>2
  <2>2. PicturesOf(j.product)' \subseteq PicturesOf(j.product)
    BY <1>2, RowsAfter DEF RowsChange, PicturesOf, Present
  <2>3. \A a \in PicturesOf(j.product) :
          asset'[a].from = asset[a].from /\ (asset[a].from # "link" => asset'[a].hash = asset[a].hash)
    BY DEF RowsChange, PicturesOf
  <2> QED
    BY <2>1, <2>2, <2>3 DEF HuntFits
<1> QED
  BY <1>1, <1>2

LEMMA PicturesAfter ==
  ASSUME AssetInv, NEW p, NEW n \in Assets, RowsChange(p, {n}), crossed \subseteq crossed',
         n \notin Present /\ n \in Present' \ crossed' =>
           \A a \in PicturesOf(p) :
             /\ asset[a].from # "link" /\ asset'[n].from # "link" => asset[a].hash # asset'[n].hash
             /\ asset[a].from = "hunt" /\ asset'[n].from = "hunt"
                  => Look[asset[a].hash] # Look[asset'[n].hash]
  PROVE  PicturesOnce'
<1> SUFFICES ASSUME NEW a \in Present' \ crossed', NEW b \in Present' \ crossed',
                    a # b, asset'[a].product = asset'[b].product
             PROVE  /\ asset'[a].from # "link" /\ asset'[b].from # "link"
                         => asset'[a].hash # asset'[b].hash
                    /\ asset'[a].from = "hunt" /\ asset'[b].from = "hunt"
                         => Look[asset'[a].hash] # Look[asset'[b].hash]
  BY DEF PicturesOnce
<1>1. a \in Present \union {n} /\ b \in Present \union {n}
  BY RowsAfter
<1>2. CASE a \in Present /\ b \in Present
  <2>1. \A r \in Present : asset[r].from \in {"upload", "link", "hunt"}
    BY DEF AssetInv, RowsOK, RowOK, Row, Present
  <2>2. /\ asset[a].product = asset[b].product /\ a \notin crossed /\ b \notin crossed
        /\ asset'[a].from = asset[a].from /\ asset'[b].from = asset[b].from
        /\ asset[a].from # "link" => asset'[a].hash = asset[a].hash
        /\ asset[b].from # "link" => asset'[b].hash = asset[b].hash
    BY <1>2 DEF RowsChange
  <2>3. asset[a].from # "link" /\ asset[b].from # "link" => asset[a].hash # asset[b].hash
    BY <1>2, <2>1, <2>2 DEF AssetInv, PicturesOnce
  <2>4. asset[a].from = "hunt" /\ asset[b].from = "hunt" => Look[asset[a].hash] # Look[asset[b].hash]
    BY <1>2, <2>2 DEF AssetInv, PicturesOnce
  <2> QED
    BY <2>2, <2>3, <2>4
<1>3. ASSUME NEW r \in Present, NEW t \in Present' \ crossed', t \notin Present,
             asset'[r].product = asset'[t].product
      PROVE  /\ asset'[r].from # "link" /\ asset'[t].from # "link"
                  => asset'[r].hash # asset'[t].hash
             /\ asset'[r].from = "hunt" /\ asset'[t].from = "hunt"
                  => Look[asset'[r].hash] # Look[asset'[t].hash]
  <2>1. t = n /\ asset'[n].product = p
    BY <1>3, RowsAfter DEF RowsChange, Present
  <2>2. r \in PicturesOf(p) /\ asset'[r].from = asset[r].from
    BY <1>3, <2>1 DEF RowsChange, PicturesOf
  <2> QED
    BY <1>3, <2>1, <2>2 DEF RowsChange
<1> QED
  BY <1>1, <1>2, <1>3

-----------------------------------------------------------------------------
(* What a commit makes of the rows. *)
Cleared(q, w) == w = [q EXCEPT !.primary = FALSE]

LEMMA ClearedRow ==
  ASSUME NEW q, RowOK(q), NEW w, Cleared(q, w)
  PROVE  /\ RowOK(w) /\ w.from = q.from /\ w.product = q.product /\ w.hash = q.hash
         /\ w.file = q.file /\ w.state = q.state /\ ~w.primary
  BY DEF RowOK, Row, Cleared

LEMMA CommitRows ==
  ASSUME AssetInv, NEW s \in Sessions, Commit(s), NEW h, h = desk[s]
  PROVE  /\ h # Idle /\ HoldOK(h) /\ HoldFits(h) /\ DOMAIN asset' = Assets
         /\ \A a \in h.clears : Cleared(asset[a], asset'[a])
         /\ \A a \in Assets \ h.clears : a # h.row => asset'[a] = asset[a]
<1>1. h # Idle /\ asset' = Merged(h) /\ HoldOK(h) /\ HoldFits(h)
  BY DEF Commit, AssetInv, HoldsOK
<1>2. h.row \in Assets /\ h.row \notin h.clears /\ h.clears \subseteq Assets
  BY <1>1 DEF HoldOK, HoldFits, ClearsOwn, PicturesOf, Present
<1> QED
  BY <1>1, <1>2 DEF Merged, Cleared

LEMMA CommitRow ==
  ASSUME AssetInv, NEW s \in Sessions, Commit(s), NEW h, h = desk[s]
  PROVE  asset'[h.row] =
           IF h.read = Absent THEN h.want
           ELSE [c \in DOMAIN h.want |->
                   IF h.want[c] = h.read[c] THEN asset[h.row][c] ELSE h.want[c]]
<1>1. asset' = Merged(h) /\ HoldOK(h) /\ HoldFits(h)
  BY DEF Commit, AssetInv, HoldsOK
<1>2. h.row \in Assets /\ h.row \notin h.clears
  BY <1>1 DEF HoldOK, HoldFits, ClearsOwn, PicturesOf, Present
<1> QED
  BY <1>1, <1>2 DEF Merged

(* The row itself: columns that nobody wanted to change stay.              *)
LEMMA MergedRow ==
  ASSUME AssetInv, NEW h, HoldOK(h), HoldFits(h), NEW r,
         r = IF h.read = Absent THEN h.want
             ELSE [c \in DOMAIN h.want |->
                     IF h.want[c] = h.read[c] THEN asset[h.row][c] ELSE h.want[c]]
  PROVE  /\ RowOK(r) /\ r.from = h.want.from /\ r.product = h.want.product
         /\ ~h.met => r = h.want
         /\ Wrote(h) => r.file = h.want.file
         /\ h.read # Absent /\ ~Wrote(h) => r.file = asset[h.row].file
         /\ h.read # Absent /\ h.want.from # "link" => r.hash = asset[h.row].hash
<1>1. RowOK(h.want) /\ h.want \in Row
  BY DEF HoldOK, RowOK
<1>2. CASE h.read = Absent
  BY <1>1, <1>2 DEF HoldOK
<1>3. CASE h.read # Absent
  <2>1. PICK w, o, a : w = h.want /\ o = h.read /\ a = asset[h.row]
    OBVIOUS
  <2>2. RowOK(w) /\ RowOK(o) /\ RowOK(a) /\ a.from = w.from /\ a.product = w.product
        /\ o.from = w.from /\ o.product = w.product
    BY <1>3, <2>1 DEF HoldOK, HoldFits, RowStands, AssetInv, RowsOK, Present
  <2>3. r = [c \in DOMAIN w |-> IF w[c] = o[c] THEN a[c] ELSE w[c]]
    BY <1>3, <2>1
  <2>4. r \in Row /\ r.from = w.from /\ r.product = w.product
        /\ r.file = (IF w.file = o.file THEN a.file ELSE w.file)
        /\ r.hash = (IF w.hash = o.hash THEN a.hash ELSE w.hash)
    BY <2>2, <2>3 DEF RowOK, Row
  <2>5. \/ w.file = o.file /\ w.hash = o.hash
        \/ o.file = None /\ o.hash = None /\ o.from = "link" /\ w.file # None
    BY <1>3, <2>1, <2>2 DEF HoldOK, RowOK
  <2>6. RowOK(r)
    BY <2>2, <2>4, <2>5 DEF RowOK
  <2>7. a = o => r = w
    BY <2>2, <2>3 DEF RowOK, Row
  <2>8. Wrote(h) <=> w.file \notin {None, o.file}
    BY <1>3, <2>1 DEF Wrote
  <2> QED
    BY <1>3, <2>1, <2>2, <2>4, <2>5, <2>6, <2>7, <2>8 DEF HoldFits
<1> QED
  BY <1>2, <1>3

(* What the others at work know after a step on the rows of a product.     *)
OthersKnow(p, done) ==
  /\ DOMAIN desk' = Sessions /\ DOMAIN hunt' = Hunts
  /\ \A t \in Sessions \ done :
       desk'[t] = IF desk[t] # Idle /\ desk[t].want.product = p
                    THEN [desk[t] EXCEPT !.met = TRUE] ELSE desk[t]

LEMMA HoldsAfter ==
  ASSUME AssetInv, NEW p, NEW new, RowsChange(p, new), NEW done, OthersKnow(p, done),
         \A t \in Sessions : t \in done => desk'[t] = Idle,
         \A t \in Sessions \ done : desk[t] # Idle /\ desk[t].read = Absent => desk[t].row \notin new
  PROVE  /\ HoldsOK'
         /\ \A t \in Sessions : desk'[t] # Idle =>
              /\ t \notin done /\ desk[t] # Idle /\ desk'[t].want = desk[t].want
              /\ desk'[t].read = desk[t].read
         /\ \A t \in Sessions \ done : desk[t] # Idle =>
              desk'[t] # Idle /\ desk'[t].want = desk[t].want /\ desk'[t].read = desk[t].read
<1>1. ASSUME NEW t \in Sessions \ done, desk[t] # Idle
      PROVE  /\ HoldOK(desk'[t]) /\ HoldFits(desk[t])' /\ desk'[t].row = desk[t].row
             /\ desk'[t].read = desk[t].read /\ desk'[t].want = desk[t].want
  <2>1. PICK h, g : h = desk[t] /\ g = desk'[t]
    OBVIOUS
  <2>2. g = IF h.want.product = p THEN [h EXCEPT !.met = TRUE] ELSE h
    BY <1>1, <2>1 DEF OthersKnow
  <2>3. HoldOK(h) /\ HoldFits(h) /\ (h.read = Absent => h.row \notin new)
    BY <1>1, <2>1 DEF AssetInv, HoldsOK
  <2>4. HoldOK(g) /\ HoldFits(g)'
    BY <2>2, <2>3, HoldAfter
  <2>5. g.row = h.row /\ g.read = h.read /\ g.want = h.want
    BY <2>2, <2>3, MetHold
  <2> QED
    BY <2>1, <2>4, <2>5
<1>2. ASSUME NEW t \in Sessions, desk'[t] # Idle PROVE t \notin done /\ desk[t] # Idle
  BY <1>2 DEF OthersKnow
<1>3. ASSUME NEW t \in Sessions \ done, desk[t] # Idle PROVE desk'[t] # Idle
  <2>1. desk'[t].want = desk[t].want /\ IsHold(desk'[t])
    BY <1>1, <1>3 DEF HoldOK
  <2> QED
    BY <2>1 DEF IsHold, Idle
<1>4. HoldsOK'
  BY <1>1, <1>2 DEF HoldsOK, OthersKnow, AssetInv
<1> QED
  BY <1>1, <1>2, <1>3, <1>4

LEMMA CommitStep ==
  ASSUME AssetInv, NEW s \in Sessions, Commit(s)
  PROVE  AssetInv'
<1>1. PICK h : h = desk[s]
  OBVIOUS
<1>2. PICK p : p = h.want.product
  OBVIOUS
<1>3. PICK new : new = IF h.read = Absent THEN {h.row} ELSE {}
  OBVIOUS
<1>4. /\ h # Idle /\ HoldOK(h) /\ HoldFits(h) /\ DOMAIN asset' = Assets
      /\ \A a \in h.clears : Cleared(asset[a], asset'[a])
      /\ \A a \in Assets \ h.clears : a # h.row => asset'[a] = asset[a]
  BY <1>1, CommitRows
<1>5. PICK r : r = asset'[h.row]
  OBVIOUS
<1>6. /\ RowOK(r) /\ r.from = h.want.from /\ r.product = p
      /\ ~h.met => r = h.want
      /\ Wrote(h) => r.file = h.want.file
      /\ h.read # Absent /\ ~Wrote(h) => r.file = asset[h.row].file
      /\ h.read # Absent /\ h.want.from # "link" => r.hash = asset[h.row].hash
  <2>1. r = IF h.read = Absent THEN h.want
            ELSE [c \in DOMAIN h.want |->
                    IF h.want[c] = h.read[c] THEN asset[h.row][c] ELSE h.want[c]]
    BY <1>1, <1>5, CommitRow
  <2> QED
    BY <1>2, <1>4, <2>1, MergedRow
<1>7. \A a \in h.clears : /\ a \in Present /\ asset[a].product = p /\ a # h.row /\ RowOK(asset[a])
  BY <1>2, <1>4 DEF HoldFits, ClearsOwn, PicturesOf, AssetInv, RowsOK, Present
<1>8. \A a \in h.clears :
        /\ RowOK(asset'[a]) /\ asset'[a].from = asset[a].from /\ asset'[a].product = asset[a].product
        /\ asset'[a].hash = asset[a].hash /\ asset'[a].file = asset[a].file
        /\ asset'[a].state = asset[a].state /\ ~asset'[a].primary
  BY <1>4, <1>7, ClearedRow
<1>9. /\ h.row \in Assets
      /\ IF h.read = Absent THEN h.row \notin Present
         ELSE h.row \in Present /\ asset[h.row].from = r.from /\ asset[h.row].product = p
  BY <1>2, <1>4, <1>6 DEF HoldOK, HoldFits, RowStands, Present
<1>10. RowsChange(p, new)
  <2>1. \A a \in Present : RowOK(asset[a])
    BY DEF AssetInv, RowsOK, Present
  <2>2. \A a \in Assets \ Present : asset[a] = Absent
    BY DEF Present
  <2> QED
    BY <1>3, <1>4, <1>5, <1>6, <1>7, <1>8, <1>9, <2>1, <2>2 DEF RowsChange, Present
<1>11. /\ desk' = [t \in Sessions |->
                     IF t = s THEN Idle
                     ELSE IF desk[t] # Idle /\ desk[t].want.product = p
                       THEN [desk[t] EXCEPT !.met = TRUE] ELSE desk[t]]
       /\ hunt' = [j \in Hunts |->
                     IF h.read = Absent /\ hunt[j].product = p
                       THEN [hunt[j] EXCEPT !.met = TRUE] ELSE hunt[j]]
  BY <1>1, <1>2 DEF Commit, Meets
<1>12. OthersKnow(p, {s}) /\ desk'[s] = Idle
  BY <1>11 DEF OthersKnow
<1>13. \A t \in Sessions \ {s} : desk[t] # Idle /\ desk[t].read = Absent => desk[t].row \notin new
  BY <1>1, <1>3, <1>4 DEF AssetInv, HoldsOK
<1>14. /\ HoldsOK'
       /\ \A t \in Sessions : desk'[t] # Idle =>
              /\ t # s /\ desk[t] # Idle /\ desk'[t].want = desk[t].want
              /\ desk'[t].read = desk[t].read
       /\ \A t \in Sessions \ {s} : desk[t] # Idle =>
              desk'[t] # Idle /\ desk'[t].want = desk[t].want /\ desk'[t].read = desk[t].read
  BY <1>10, <1>12, <1>13, HoldsAfter
<1>15. ASSUME NEW j \in Hunts, Hunting(j) \/ Hunting(j)'
       PROVE  /\ HuntOK(hunt'[j]) /\ HuntFits(hunt[j])' /\ hunt'[j].file = hunt[j].file
              /\ Hunting(j) /\ Hunting(j)'
  <2>1. PICK i, k : i = hunt[j] /\ k = hunt'[j]
    OBVIOUS
  <2>2. k = IF new # {} /\ i.product = p THEN [i EXCEPT !.met = TRUE] ELSE i
    BY <1>3, <1>11, <2>1
  <2>3. Hunting(j)
    BY <1>2, <1>4, <1>15, <2>1, <2>2, LooksOfPictures DEF Hunting, HoldOK, RowOK, Row
  <2>4. HuntOK(i) /\ HuntFits(i)
    BY <2>1, <2>3 DEF AssetInv, HuntsOK
  <2>5. HuntOK(k) /\ HuntFits(k)' /\ k.file = i.file /\ k.product = i.product
    BY <1>10, <2>2, <2>4, HuntAfter
  <2> QED
    BY <2>1, <2>3, <2>5 DEF Hunting
<1>16. HuntsOK'
  BY <1>12, <1>15 DEF HuntsOK, OthersKnow
<1>17. crossed' = (IF h.met THEN crossed \union {h.row} ELSE crossed) /\ disk' = disk
       /\ stray' = (IF h.met /\ h.read # Absent /\ Wrote(h)
                       THEN stray \union ({asset[h.row].file} \ {None}) ELSE stray)
  BY <1>1 DEF Commit
<1>18. RowsOK' /\ Present \subseteq Present' /\ (crossed \subseteq Present)'
  <2>1. h.row \in Present'
    BY <1>5, <1>6, <1>9, RowIsPresent DEF Present
  <2> QED
    BY <1>10, <1>17, <2>1, RowsAfter DEF AssetInv
<1>19. MarksOK'
  <2>1. IndexAllows(asset')
    BY <1>1 DEF Commit
  <2>2. ASSUME NEW a \in Present' \ crossed', asset'[a].state = "rejected" PROVE ~asset'[a].primary
    <3>1. CASE a = h.row
      <4>1. ~h.met /\ r = h.want
        BY <1>6, <1>17, <2>2, <3>1
      <4>2. h.read # Absent => asset[a] = h.read /\ a \in Present /\ a \notin crossed
        BY <1>4, <1>9, <1>17, <2>2, <3>1, <4>1 DEF HoldFits
      <4> QED
        BY <1>4, <1>5, <2>2, <3>1, <4>1, <4>2 DEF HoldOK, AssetInv, MarksOK
    <3>2. CASE a \in h.clears
      BY <1>8, <3>2
    <3>3. CASE a # h.row /\ a \notin h.clears
      BY <1>4, <1>17, <2>2, <3>3 DEF AssetInv, MarksOK, Present
    <3> QED
      BY <3>1, <3>2, <3>3
  <2> QED
    BY <2>1, <2>2 DEF MarksOK, IndexAllows
<1>20. PicturesOnce'
  <2>1. RowsChange(p, {h.row})
    BY <1>3, <1>10 DEF RowsChange
  <2>2. ASSUME h.row \notin Present, h.row \notin crossed', NEW a \in PicturesOf(p),
               asset[a].from # "link", r.from # "link"
        PROVE  asset[a].hash # r.hash
    BY <1>2, <1>4, <1>6, <1>9, <1>17, <2>2, RowIsPresent DEF HoldFits, NewPicture, HoldOK
  <2>3. h.row \notin Present => r.from # "hunt"
    BY <1>4, <1>6, <1>9, RowIsPresent DEF HoldOK
  <2>4. crossed \subseteq crossed'
    BY <1>17
  <2> QED
    BY <1>5, <1>9, <2>1, <2>2, <2>3, <2>4, PicturesAfter
<1>21. FilesOK'
  <2>1. \A f, j : j \in Hunts => (HuntHas(j, f)' <=> HuntHas(j, f))
    BY <1>15 DEF HuntHas
  <2>2. \A f \in Files : DeskHas(f)' => DeskHas(f)
    BY <1>14 DEF DeskHas
  <2>3. ASSUME NEW a \in Present' PROVE (asset'[a].file = asset[a].file /\ a \in Present)
                                         \/ a = h.row
    BY <1>4, <1>7, <1>8, <2>3 DEF Present
  <2>4. r.file = h.want.file \/ (h.row \in Present /\ r.file = asset[h.row].file)
    <3>1. h.read = Absent => r = h.want
      BY <1>1, <1>5, CommitRow
    <3> QED
      BY <1>6, <1>9, <3>1
  <2>5. \A f \in Files : RowHas(f)' => RowHas(f) \/ DeskHas(f)
    BY <1>1, <1>4, <1>5, <2>3, <2>4 DEF RowHas, DeskHas
  <2>6. stray \subseteq stray' /\ stray' \subseteq Files
    <3>1. h.read # Absent => asset[h.row].file \in Files \union {None}
      BY <1>9 DEF AssetInv, RowsOK, Present, RowOK, Row
    <3> QED
      BY <1>17, <3>1 DEF AssetInv, FilesOK
  <2>7. ASSUME NEW f \in Files, DeskWrote(f) PROVE RowHas(f)' \/ DeskWrote(f)'
    <3>1. PICK t \in Sessions : desk[t] # Idle /\ desk[t].want.file = f /\ Wrote(desk[t])
      BY <2>7 DEF DeskWrote
    <3>2. CASE t = s
      <4>1. h.row \in Present'
        BY <1>5, <1>6, <1>9, RowIsPresent DEF Present
      <4> QED
        BY <1>1, <1>5, <1>6, <3>1, <3>2, <4>1 DEF RowHas
    <3>3. CASE t # s
      <4>1. desk'[t] # Idle /\ desk'[t].want = desk[t].want /\ desk'[t].read = desk[t].read
        BY <1>14, <3>1, <3>3
      <4>2. Wrote(desk'[t])
        BY <3>1, <4>1 DEF Wrote
      <4> QED
        BY <3>1, <4>1, <4>2 DEF DeskWrote
    <3> QED
      BY <3>2, <3>3
  <2>8. ASSUME NEW f \in Files, RowHas(f) PROVE RowHas(f)' \/ f \in stray'
    <3>1. PICK a \in Present : asset[a].file = f
      BY <2>8 DEF RowHas
    <3>2. CASE a # h.row
      BY <1>4, <1>8, <1>18, <3>1, <3>2 DEF RowHas, Present
    <3>3. CASE a = h.row /\ ~Wrote(h)
      BY <1>5, <1>6, <1>9, <1>18, <3>1, <3>3 DEF RowHas
    <3>4. CASE a = h.row /\ Wrote(h)
      <4>1. h.read # Absent /\ f # None
        BY <1>9, <3>1, <3>4, LooksOfPictures
      <4>2. h.read.file = None
        BY <1>4, <3>4, <4>1 DEF HoldOK, Wrote
      <4>3. h.met
        BY <1>4, <3>1, <3>4, <4>1, <4>2 DEF HoldFits
      <4> QED
        BY <1>17, <3>1, <3>4, <4>1, <4>3
    <3> QED
      BY <3>2, <3>3, <3>4
  <2> HIDE DEF RowHas, DeskHas, DeskWrote, HuntHas
  <2> QED
    BY <1>17, <2>1, <2>2, <2>5, <2>6, <2>7, <2>8 DEF AssetInv, FilesOK
<1> QED
  BY <1>14, <1>16, <1>18, <1>19, <1>20, <1>21 DEF AssetInv

LEMMA AbortStep ==
  ASSUME AssetInv, NEW s \in Sessions, Abort(s)
  PROVE  AssetInv'
<1>1. PICK h : h = desk[s]
  OBVIOUS
<1>2. /\ h # Idle /\ HoldOK(h) /\ UNCHANGED <<asset, disk, hunt, crossed>>
      /\ stray' = IF Wrote(h) THEN stray \union {h.want.file} ELSE stray
  BY <1>1 DEF Abort, AssetInv, HoldsOK
<1>3. /\ DOMAIN desk' = Sessions
      /\ \A t \in Sessions : desk'[t] = IF t = s THEN Idle ELSE desk[t]
  BY DEF Abort, AssetInv, HoldsOK
<1>4. RowsOK' /\ HuntsOK' /\ MarksOK' /\ PicturesOnce' /\ (crossed \subseteq Present)'
  BY <1>2 DEF AssetInv, RowsOK, HuntsOK, HuntFits, Hunting, PicturesOf, Present, MarksOK, PicturesOnce
<1>5. HoldsOK'
  <2>1. ASSUME NEW g, HoldFits(g) PROVE HoldFits(g)'
    BY <1>2, <2>1 DEF HoldFits, RowStands, ClearsOwn, MarksCleared, NewPicture, PrimaryOf, PicturesOf, Present
  <2>2. ASSUME NEW t \in Sessions, desk'[t] # Idle PROVE HoldOK(desk'[t]) /\ HoldFits(desk[t])'
    <3>1. PICK g : g = desk'[t]
      OBVIOUS
    <3>2. HoldOK(g) /\ HoldFits(g)
      BY <1>3, <2>2, <3>1 DEF AssetInv, HoldsOK
    <3> QED
      BY <2>1, <3>1, <3>2
  <2> QED
    BY <1>3, <2>2 DEF AssetInv, HoldsOK
<1>6. FilesOK'
  <2>1. \A f : RowHas(f)' <=> RowHas(f)
    BY <1>2 DEF RowHas, Present
  <2>2. \A f, j : HuntHas(j, f)' <=> HuntHas(j, f)
    BY <1>2 DEF HuntHas, Hunting
  <2>3. \A f : DeskHas(f)' => DeskHas(f)
    BY <1>3 DEF DeskHas
  <2>4. \A f : DeskWrote(f) => DeskWrote(f)' \/ f \in stray'
    BY <1>1, <1>2, <1>3 DEF DeskWrote
  <2>5. stray \subseteq stray' /\ stray' \subseteq Files
    <3>1. Wrote(h) => h.want.file \in Files
      BY <1>2 DEF HoldOK, RowOK, Row, Wrote
    <3> QED
      BY <1>2, <3>1 DEF AssetInv, FilesOK
  <2> QED
    BY <1>2, <2>1, <2>2, <2>3, <2>4, <2>5 DEF AssetInv, FilesOK
<1> QED
  BY <1>4, <1>5, <1>6 DEF AssetInv

(* A hunt that reads, downloads, drops a candidate or ends leaves the rows *)
(* and the requests alone.                                                 *)
LEMMA HuntOnly ==
  ASSUME AssetInv, UNCHANGED <<asset, desk, crossed>>
  PROVE  /\ RowsOK' /\ HoldsOK' /\ (crossed \subseteq Present)' /\ MarksOK' /\ PicturesOnce'
         /\ \A f : (RowHas(f)' <=> RowHas(f)) /\ (DeskHas(f)' <=> DeskHas(f))
                    /\ (DeskWrote(f)' <=> DeskWrote(f))
         /\ \A j : HuntFits(j)' <=> HuntFits(j)
<1>1. RowsOK' /\ (crossed \subseteq Present)' /\ MarksOK' /\ PicturesOnce'
  BY DEF AssetInv, RowsOK, MarksOK, PicturesOnce, Present
<1>2. HoldsOK'
  BY DEF AssetInv, HoldsOK, HoldFits, RowStands, ClearsOwn, MarksCleared, NewPicture, PrimaryOf,
         PicturesOf, Present
<1>3. \A f : (RowHas(f)' <=> RowHas(f)) /\ (DeskHas(f)' <=> DeskHas(f))
             /\ (DeskWrote(f)' <=> DeskWrote(f))
  BY DEF RowHas, DeskHas, DeskWrote, Present
<1>4. \A j : HuntFits(j)' <=> HuntFits(j)
  BY DEF HuntFits, PicturesOf, Present
<1> QED
  BY <1>1, <1>2, <1>3, <1>4

LEMMA StartHuntStep ==
  ASSUME AssetInv, NEW h \in Hunts, StartHunt(h)
  PROVE  AssetInv'
<1>1. PICK p \in Products : hunt' = [hunt EXCEPT ![h] =
        [product |-> p, met |-> FALSE, file |-> None, picture |-> None,
         hashes |-> {asset[a].hash : a \in PicturesOf(p)},
         looks |-> {Look[asset[a].hash] : a \in {b \in PicturesOf(p) : asset[b].from # "link"}}]]
  BY DEF StartHunt
<1>2. PICK j : j = hunt'[h]
  OBVIOUS
<1>3. ~Hunting(h) /\ UNCHANGED <<asset, disk, desk, crossed, stray>>
  BY DEF StartHunt
<1>4. /\ DOMAIN hunt' = Hunts
      /\ \A o \in Hunts : hunt'[o] = IF o = h THEN j ELSE hunt[o]
  BY <1>1, <1>2 DEF AssetInv, HuntsOK
<1>5. j = [product |-> p, met |-> FALSE, file |-> None, picture |-> None,
           hashes |-> {asset[a].hash : a \in PicturesOf(p)},
           looks |-> {Look[asset[a].hash] : a \in {b \in PicturesOf(p) : asset[b].from # "link"}}]
  BY <1>1, <1>2 DEF AssetInv, HuntsOK
<1>6. HuntOK(j) /\ HuntFits(j) /\ j.file = None
  BY <1>5 DEF HuntOK, IsHunt, HuntFits
<1>7. HuntsOK'
  BY <1>3, <1>4, <1>6, HuntOnly DEF AssetInv, HuntsOK, Hunting
<1>8. \A o \in Hunts, f \in Files : HuntHas(o, f)' <=> HuntHas(o, f)
  BY <1>3, <1>4, <1>6, LooksOfPictures DEF HuntHas, Hunting
<1>9. FilesOK'
  BY <1>3, <1>8, HuntOnly DEF AssetInv, FilesOK
<1> QED
  BY <1>3, <1>7, <1>9, HuntOnly DEF AssetInv

LEMMA DownloadStep ==
  ASSUME AssetInv, NEW h \in Hunts, cache_download(h)
  PROVE  AssetInv'
<1>1. PICK f : f = NewFile
  OBVIOUS
<1>2. /\ f \in Files /\ disk[f] = "unwritten" /\ disk' = [disk EXCEPT ![f] = "kept"]
      /\ Hunting(h) /\ hunt[h].file = None /\ UNCHANGED <<asset, desk, crossed, stray>>
  BY <1>1, FreshNames DEF cache_download, Unwritten
<1>3. PICK x \in Pictures : hunt' = [hunt EXCEPT ![h].file = f, ![h].picture = x]
  BY <1>1 DEF cache_download
<1>4. PICK i, j : i = hunt[h] /\ j = hunt'[h]
  OBVIOUS
<1>5. HuntOK(i) /\ HuntFits(i)
  BY <1>2, <1>4 DEF AssetInv, HuntsOK
<1>6. /\ DOMAIN hunt' = Hunts /\ j = [i EXCEPT !.file = f, !.picture = x]
      /\ \A o \in Hunts : o # h => hunt'[o] = hunt[o]
  BY <1>3, <1>4 DEF AssetInv, HuntsOK
<1>7. j = [product |-> i.product, met |-> i.met, file |-> f, picture |-> x,
           hashes |-> i.hashes, looks |-> i.looks]
  BY <1>5, <1>6 DEF HuntOK, IsHunt
<1>8. HuntOK(j) /\ HuntFits(j) /\ j.product # None
  BY <1>2, <1>4, <1>5, <1>7 DEF HuntOK, IsHunt, HuntFits, Hunting
<1>9. HuntsOK'
  BY <1>2, <1>4, <1>6, <1>8, HuntOnly DEF AssetInv, HuntsOK, Hunting
<1>10. ASSUME NEW o \in Hunts, NEW g \in Files
       PROVE  HuntHas(o, g)' <=> HuntHas(o, g) \/ (o = h /\ g = f)
  <2>1. CASE o = h
    <3>1. hunt'[o].product # None /\ hunt'[o].file = f /\ hunt[o].file = None /\ g # None
      <4>1. hunt'[o] = j /\ hunt[o] = i
        BY <1>4, <2>1
      <4>2. j.file = f /\ j.product # None
        BY <1>7, <1>8
      <4>3. i.file = None /\ g # None
        BY <1>2, <1>4, NoneIsNoFile
      <4> QED
        BY <4>1, <4>2, <4>3
    <3> QED
      BY <2>1, <3>1 DEF HuntHas, Hunting
  <2>2. CASE o # h
    BY <1>6, <2>2 DEF HuntHas, Hunting
  <2> QED
    BY <2>1, <2>2
<1>11. ~RowHas(f) /\ ~DeskHas(f) /\ \A o \in Hunts : ~HuntHas(o, f)
  BY <1>2 DEF AssetInv, FilesOK
<1>12. /\ disk' \in [Files -> {"unwritten", "kept", "deleted"}] /\ disk'[f] = "kept"
       /\ \A g \in Files : g # f => disk'[g] = disk[g]
  BY <1>2 DEF AssetInv, FilesOK
<1>13. FilesOK'
  BY <1>2, <1>10, <1>11, <1>12, HuntOnly DEF AssetInv, FilesOK
<1> QED
  BY <1>2, <1>9, <1>13, HuntOnly DEF AssetInv

LEMMA DeleteStep ==
  ASSUME AssetInv, NEW h \in Hunts, _delete_cached_candidate(h)
  PROVE  AssetInv'
<1>1. PICK i, j : i = hunt[h] /\ j = hunt'[h]
  OBVIOUS
<1>2. PICK f : f = i.file
  OBVIOUS
<1>3. /\ Hunting(h) /\ f # None /\ UNCHANGED <<asset, desk, crossed, stray>>
      /\ disk' = [disk EXCEPT ![f] = "deleted"]
      /\ hunt' = [hunt EXCEPT ![h].file = None, ![h].picture = None]
  BY <1>1, <1>2 DEF _delete_cached_candidate
<1>4. HuntOK(i) /\ HuntFits(i) /\ f \in Files
  BY <1>1, <1>2, <1>3 DEF AssetInv, HuntsOK, HuntOK
<1>5. /\ DOMAIN hunt' = Hunts /\ j = [i EXCEPT !.file = None, !.picture = None]
      /\ \A o \in Hunts : o # h => hunt'[o] = hunt[o]
  BY <1>1, <1>3 DEF AssetInv, HuntsOK
<1>6. j = [product |-> i.product, met |-> i.met, file |-> None, picture |-> None,
           hashes |-> i.hashes, looks |-> i.looks]
  BY <1>4, <1>5 DEF HuntOK, IsHunt
<1>7. HuntOK(j) /\ HuntFits(j) /\ j.product # None
  <2>1. i.product # None
    BY <1>1, <1>3 DEF Hunting
  <2>2. j.product = i.product /\ j.met = i.met /\ j.hashes = i.hashes /\ j.looks = i.looks /\ j.file = None
    BY <1>6
  <2>3. IsHunt(j)
    BY <1>6 DEF IsHunt
  <2> QED
    BY <1>4, <2>1, <2>2, <2>3 DEF HuntOK, HuntFits
<1>8. HuntsOK'
  BY <1>1, <1>3, <1>5, <1>7, HuntOnly DEF AssetInv, HuntsOK, Hunting
<1>9. ASSUME NEW o \in Hunts, NEW g \in Files
      PROVE  HuntHas(o, g)' <=> HuntHas(o, g) /\ o # h
  <2>1. CASE o = h
    <3>1. hunt'[o].file = None /\ g # None
      <4>1. hunt'[o] = j
        BY <1>1, <2>1
      <4>2. j.file = None
        BY <1>6
      <4> QED
        BY <4>1, <4>2, NoneIsNoFile
    <3> QED
      BY <2>1, <3>1 DEF HuntHas
  <2>2. CASE o # h
    BY <1>5, <2>2 DEF HuntHas, Hunting
  <2> QED
    BY <2>1, <2>2
<1>10. HuntHas(h, f) /\ \A g \in Files : HuntHas(h, g) => g = f
  BY <1>1, <1>2, <1>3 DEF HuntHas
<1>11. ~RowHas(f) /\ ~DeskHas(f) /\ \A o \in Hunts : HuntHas(o, f) => o = h
  BY <1>4, <1>10 DEF AssetInv, FilesOK
<1>12. /\ disk' \in [Files -> {"unwritten", "kept", "deleted"}] /\ disk'[f] = "deleted"
       /\ \A g \in Files : g # f => disk'[g] = disk[g]
  BY <1>3, <1>4 DEF AssetInv, FilesOK
<1>13. FilesOK'
  BY <1>3, <1>9, <1>10, <1>11, <1>12, HuntOnly DEF AssetInv, FilesOK
<1> QED
  BY <1>3, <1>8, <1>13, HuntOnly DEF AssetInv

LEMMA AcceptStep ==
  ASSUME AssetInv, NEW h \in Hunts, AcceptCandidate(h)
  PROVE  AssetInv'
<1>1. PICK j, k : j = hunt[h] /\ k = hunt'[h]
  OBVIOUS
<1>2. PICK p, n, f : p = j.product /\ n = NewId /\ f = j.file
  OBVIOUS
<1>3. PICK r : r = NewRow("hunt", p, "pending", FALSE, f, j.picture)
  OBVIOUS
<1>4. /\ Hunting(h) /\ f # None /\ ~Known(j) /\ Unborn # {}
      /\ asset' = [asset EXCEPT ![n] = r] /\ UNCHANGED <<disk, stray>>
      /\ crossed' = IF j.met THEN crossed \union {n} ELSE crossed
  BY <1>1, <1>2, <1>3 DEF AcceptCandidate
<1>5. /\ n \in Assets /\ n \notin Present /\ n \notin Held /\ asset[n] = Absent
  BY <1>2, <1>4, FreshNames DEF Unborn, Present
<1>6. HuntOK(j) /\ HuntFits(j) /\ p \in Products /\ f \in Files /\ j.picture \in Pictures
  BY <1>1, <1>2, <1>4 DEF AssetInv, HuntsOK, HuntOK
<1>7. /\ RowOK(r) /\ r.from = "hunt" /\ r.product = p /\ r.state = "pending" /\ ~r.primary
      /\ r.file = f /\ r.hash = j.picture
  BY <1>3, <1>4, <1>6, NewRowOK DEF NewRow
<1>8. /\ DOMAIN asset' = Assets /\ asset'[n] = r
      /\ \A a \in Assets : a # n => asset'[a] = asset[a]
  BY <1>4, <1>5 DEF AssetInv, RowsOK
<1>9. RowsChange(p, {n})
  <2>1. \A a \in Present : RowOK(asset[a]) /\ a \in Assets
    BY DEF AssetInv, RowsOK, Present
  <2>2. \A a \in Assets \ Present : asset[a] = Absent
    BY DEF Present
  <2> QED
    BY <1>5, <1>7, <1>8, <2>1, <2>2 DEF RowsChange
<1>10. Present' = Present \union {n}
  BY <1>5, <1>7, <1>8, RowIsPresent DEF Present
<1>11. /\ desk' = [t \in Sessions |->
                     IF desk[t] # Idle /\ desk[t].want.product = p
                       THEN [desk[t] EXCEPT !.met = TRUE] ELSE desk[t]]
       /\ hunt' = [o \in Hunts |->
                     IF o = h THEN Remembered(j)
                     ELSE IF hunt[o].product = p THEN [hunt[o] EXCEPT !.met = TRUE] ELSE hunt[o]]
  BY <1>1, <1>2 DEF AcceptCandidate
<1>12. OthersKnow(p, {})
  BY <1>11 DEF OthersKnow
<1>13. \A t \in Sessions : desk[t].row \notin {n}
  BY <1>5 DEF Held
<1>14. /\ HoldsOK'
       /\ \A t \in Sessions : desk'[t] # Idle =>
              desk[t] # Idle /\ desk'[t].want = desk[t].want /\ desk'[t].read = desk[t].read
       /\ \A t \in Sessions : desk[t] # Idle =>
              desk'[t] # Idle /\ desk'[t].want = desk[t].want /\ desk'[t].read = desk[t].read
  BY <1>9, <1>12, <1>13, HoldsAfter
<1>15. k = [product |-> p, met |-> j.met, file |-> None, picture |-> None,
            hashes |-> j.hashes \union {j.picture}, looks |-> j.looks \union {Look[j.picture]}]
  <2>1. k = Remembered(j)
    BY <1>1, <1>11
  <2>2. j = [product |-> j.product, met |-> j.met, file |-> j.file, picture |-> j.picture,
             hashes |-> j.hashes, looks |-> j.looks]
    BY <1>6 DEF HuntOK, IsHunt
  <2> QED
    BY <1>2, <2>1, <2>2 DEF Remembered
<1>16. HuntOK(k) /\ HuntFits(k)' /\ k.product # None
  <2>1. HuntOK(k) /\ k.product # None
    BY <1>1, <1>2, <1>4, <1>6, <1>15 DEF HuntOK, IsHunt, Hunting
  <2>2. ASSUME ~k.met, NEW a \in PicturesOf(p)', asset'[a].from # "link"
        PROVE  asset'[a].hash \in k.hashes /\ Look[asset'[a].hash] \in k.looks
    <3>1. CASE a = n
      BY <1>7, <1>8, <1>15, <3>1
    <3>2. CASE a # n
      <4>1. a \in Present /\ asset'[a] = asset[a] /\ a \in PicturesOf(p)
        BY <1>8, <1>10, <2>2, <3>2 DEF PicturesOf, Present
      <4>2. ~j.met /\ k.hashes = j.hashes \union {j.picture} /\ k.looks = j.looks \union {Look[j.picture]}
        BY <1>15, <2>2
      <4> QED
        BY <1>2, <1>6, <2>2, <4>1, <4>2 DEF HuntFits
    <3> QED
      BY <3>1, <3>2
  <2> QED
    BY <1>15, <2>1, <2>2 DEF HuntFits
<1>17. ASSUME NEW o \in Hunts, o # h, Hunting(o) \/ Hunting(o)'
       PROVE  /\ HuntOK(hunt'[o]) /\ HuntFits(hunt[o])' /\ hunt'[o].file = hunt[o].file
              /\ Hunting(o) /\ Hunting(o)'
  <2>1. PICK i, l : i = hunt[o] /\ l = hunt'[o]
    OBVIOUS
  <2>2. l = IF {n} # {} /\ i.product = p THEN [i EXCEPT !.met = TRUE] ELSE i
    BY <1>11, <1>17, <2>1
  <2>3. Hunting(o)
    BY <1>6, <1>17, <2>1, <2>2, LooksOfPictures DEF Hunting
  <2>4. HuntOK(i) /\ HuntFits(i)
    BY <2>1, <2>3 DEF AssetInv, HuntsOK
  <2>5. HuntOK(l) /\ HuntFits(l)' /\ l.file = i.file /\ l.product = i.product
    BY <1>9, <2>2, <2>4, HuntAfter
  <2> QED
    BY <2>1, <2>3, <2>5 DEF Hunting
<1>18. HuntsOK'
  BY <1>1, <1>12, <1>16, <1>17 DEF HuntsOK, OthersKnow
<1>19. RowsOK' /\ (crossed \subseteq Present)'
  BY <1>4, <1>9, <1>10, RowsAfter DEF AssetInv
<1>20. MarksOK'
  BY <1>4, <1>5, <1>7, <1>8, <1>10 DEF AssetInv, MarksOK, IndexAllows, Present
<1>21. PicturesOnce'
  <2>1. ASSUME n \in Present' \ crossed', NEW a \in PicturesOf(p)
        PROVE  /\ asset[a].from # "link" => asset[a].hash # j.picture
               /\ asset[a].from = "hunt" => Look[asset[a].hash] # Look[j.picture]
    BY <1>2, <1>4, <1>6, <2>1 DEF HuntFits, Known
  <2>2. crossed \subseteq crossed'
    BY <1>4
  <2> QED
    BY <1>5, <1>7, <1>8, <1>9, <2>1, <2>2, PicturesAfter
<1>22. FilesOK'
  <2>1. ASSUME NEW o \in Hunts, NEW g \in Files
        PROVE  HuntHas(o, g)' <=> HuntHas(o, g) /\ o # h
    <3>1. CASE o = h
      <4>1. hunt'[o].file = None /\ g # None
        <5>1. hunt'[o] = k
          BY <1>1, <3>1
        <5>2. k.file = None
          BY <1>15
        <5> QED
          BY <5>1, <5>2, NoneIsNoFile
      <4> QED
        BY <3>1, <4>1 DEF HuntHas
    <3>2. CASE o # h
      BY <1>17, <3>2 DEF HuntHas
    <3> QED
      BY <3>1, <3>2
  <2>2. \A g : DeskHas(g)' <=> DeskHas(g)
    BY <1>14 DEF DeskHas
  <2>3. \A g : DeskWrote(g)' <=> DeskWrote(g)
    BY <1>14 DEF DeskWrote, Wrote
  <2>4. ASSUME NEW g PROVE RowHas(g)' <=> RowHas(g) \/ g = f
    <3>1. \A a \in Present : asset'[a] = asset[a]
      BY <1>5, <1>8 DEF Present
    <3> QED
      BY <1>7, <1>8, <1>10, <3>1 DEF RowHas
  <2>5. HuntHas(h, f) /\ \A g \in Files : HuntHas(h, g) => g = f
    BY <1>1, <1>2, <1>4 DEF HuntHas
  <2>6. disk[f] = "kept" /\ \A o \in Hunts : HuntHas(o, f) => o = h
    BY <1>6, <2>5 DEF AssetInv, FilesOK
  <2> HIDE DEF RowHas, DeskHas, DeskWrote, HuntHas
  <2> QED
    BY <1>4, <1>6, <2>1, <2>2, <2>3, <2>4, <2>5, <2>6 DEF AssetInv, FilesOK
<1> QED
  BY <1>14, <1>18, <1>19, <1>20, <1>21, <1>22 DEF AssetInv

LEMMA EndHuntStep ==
  ASSUME AssetInv, NEW h \in Hunts, EndHunt(h)
  PROVE  AssetInv'
<1>1. /\ Hunting(h) /\ UNCHANGED <<asset, disk, desk, crossed>>
      /\ stray' = stray \union ({hunt[h].file} \ {None})
  BY DEF EndHunt
<1>2. /\ DOMAIN hunt' = Hunts
      /\ \A o \in Hunts : hunt'[o] = IF o = h THEN [product |-> None] ELSE hunt[o]
  BY DEF EndHunt, AssetInv, HuntsOK
<1>3. hunt[h].file \in Files \union {None}
  BY <1>1 DEF AssetInv, HuntsOK, HuntOK
<1>4. HuntsOK'
  BY <1>1, <1>2, HuntOnly DEF AssetInv, HuntsOK, Hunting
<1>5. \A o \in Hunts, g \in Files : HuntHas(o, g)' <=> HuntHas(o, g) /\ o # h
  BY <1>2 DEF HuntHas, Hunting
<1>6. \A g \in Files : HuntHas(h, g) => g \in stray'
  BY <1>1, LooksOfPictures DEF HuntHas
<1>7. stray \subseteq stray' /\ stray' \subseteq Files
  BY <1>1, <1>3 DEF AssetInv, FilesOK
<1>8. FilesOK'
  BY <1>1, <1>5, <1>6, <1>7, HuntOnly DEF AssetInv, FilesOK
<1> QED
  BY <1>1, <1>4, <1>8, HuntOnly DEF AssetInv

LEMMA NextAsset ==
  ASSUME AssetInv, [AssetNext]_avars
  PROVE  AssetInv'
<1>1. ASSUME NEW s \in Sessions, NEW outcomes, Begin(s, outcomes), \A o \in outcomes : Decided(o)
      PROVE  AssetInv'
  BY <1>1, BeginStep DEF Begin
<1>2. ASSUME NEW s \in Sessions, Upload(s) \/ AddLink(s) \/ Review(s) \/ FetchLink(s)
      PROVE  AssetInv'
  <2>1. CASE Upload(s)
    BY <1>1, <2>1, UploadDecided DEF Upload
  <2>2. CASE AddLink(s)
    BY <1>1, <2>2, LinkDecided DEF AddLink
  <2>3. CASE Review(s)
    BY <1>1, <2>3, ReviewDecided DEF Review
  <2>4. CASE FetchLink(s)
    BY <1>1, <2>4, FetchDecided DEF FetchLink
  <2> QED
    BY <1>2, <2>1, <2>2, <2>3, <2>4
<1>3. CASE UNCHANGED avars
  BY <1>3 DEF avars, AssetInv, RowsOK, HoldsOK, HoldFits, RowStands, ClearsOwn, MarksCleared, NewPicture,
       HuntsOK, HuntFits, Hunting, PrimaryOf, PicturesOf, Present, FilesOK, RowHas, DeskHas, DeskWrote,
       HuntHas, MarksOK, PicturesOnce
<1> QED
  BY <1>2, <1>3, CommitStep, AbortStep, StartHuntStep, DownloadStep, DeleteStep, AcceptStep, EndHuntStep
     DEF AssetNext

LEMMA AssetAlways == AssetSpec => []AssetInv
  BY InitAsset, NextAsset, PTL DEF AssetSpec

-----------------------------------------------------------------------------
(* Rows, files, requests and hunts keep their shape.                       *)
THEOREM AssetTypes == AssetSpec => []AssetTypeOK
  BY AssetAlways, TypeFromInv, PTL

(* A rejected picture is not the primary one of its product unless         *)
(* requests overlapped, and the database's index never refuses a request   *)
(* that no other one met: it has cleared every mark its own would meet.    *)
THEOREM MarksSafety == AssetSpec => []PrimaryMarksAgree
<1>1. ASSUME AssetInv PROVE PrimaryMarksAgree
  <2>1. ASSUME NEW s \in Sessions, desk[s] # Idle, ~desk[s].met
        PROVE  IndexAllows(Merged(desk[s]))
    <3>1. PICK h, rows : h = desk[s] /\ rows = Merged(h)
      OBVIOUS
    <3>2. /\ HoldOK(h) /\ HoldFits(h) /\ asset[h.row] = h.read /\ MarksCleared(h)
          /\ h.row \in Assets /\ h.row \notin h.clears /\ h.clears \subseteq Assets
      BY <1>1, <2>1, <3>1 DEF AssetInv, HoldsOK, HoldOK, HoldFits, ClearsOwn, PicturesOf, Present
    <3>3. /\ \A a \in h.clears : Cleared(asset[a], rows[a]) /\ RowOK(asset[a])
          /\ \A a \in Assets \ h.clears : a # h.row => rows[a] = asset[a]
      BY <1>1, <3>1, <3>2 DEF Merged, Cleared, HoldFits, ClearsOwn, PicturesOf, AssetInv, RowsOK, Present
    <3>4. rows[h.row] = IF h.read = Absent THEN h.want
                        ELSE [c \in DOMAIN h.want |->
                                IF h.want[c] = h.read[c] THEN asset[h.row][c] ELSE h.want[c]]
      BY <3>1, <3>2 DEF Merged
    <3>5. rows[h.row] = h.want
      BY <1>1, <2>1, <3>1, <3>2, <3>4, MergedRow
    <3>6. \A a \in h.clears : ~rows[a].primary
      BY <3>3, ClearedRow
    <3>7. ASSUME NEW a \in Assets, rows[a] # Absent, rows[a].primary, a # h.row,
                 rows[a].product = h.want.product, h.want.primary
          PROVE  FALSE
      <4>1. a \notin h.clears /\ rows[a] = asset[a]
        BY <3>3, <3>6, <3>7
      <4>2. a \in PrimaryOf(h.want.product)
        BY <3>7, <4>1 DEF PrimaryOf, PicturesOf, Present
      <4>3. h.read # Absent /\ h.read.primary /\ h.read.product = h.want.product
        BY <3>2, <3>7, <4>1, <4>2 DEF MarksCleared, HoldOK
      <4> QED
        BY <1>1, <3>2, <3>7, <4>1, <4>3 DEF AssetInv, MarksOK, IndexAllows
    <3>8. ASSUME NEW a \in Assets, NEW b \in Assets, rows[a] # Absent, rows[a].primary,
                 rows[b] # Absent, rows[b].primary, rows[a].product = rows[b].product
          PROVE  a = b
      <4>1. CASE a # h.row /\ b # h.row
        <5>1. rows[a] = asset[a] /\ rows[b] = asset[b]
          BY <3>3, <3>6, <3>8, <4>1
        <5> QED
          BY <1>1, <3>8, <5>1 DEF AssetInv, MarksOK, IndexAllows
      <4>2. CASE a = h.row /\ b # h.row
        BY <3>5, <3>7, <3>8, <4>2
      <4>3. CASE b = h.row /\ a # h.row
        BY <3>5, <3>7, <3>8, <4>3
      <4> QED
        BY <4>1, <4>2, <4>3
    <3> QED
      BY <3>1, <3>8 DEF IndexAllows
  <2> QED
    BY <1>1, <2>1 DEF AssetInv, MarksOK, PrimaryMarksAgree
<1> QED
  BY <1>1, AssetAlways, PTL

(* No cleaning up takes a file that a row shows, and no file on disk is    *)
(* left without an owner but by a failure or two downloads of a link.      *)
THEOREM FilesSafety == AssetSpec => []FilesKept
<1>1. ASSUME AssetInv PROVE FilesKept
  <2>1. \A a \in Present : asset[a].file # None => asset[a].file \in Files
    BY <1>1 DEF AssetInv, RowsOK, RowOK, Row, Present
  <2> QED
    BY <1>1, <2>1 DEF AssetInv, FilesOK, RowHas, DeskHas, DeskWrote, HuntHas, FilesKept
<1> QED
  BY <1>1, AssetAlways, PTL

(* A product shows no uploaded or hunted picture twice, and no two hunted  *)
(* ones that look alike, unless requests or hunts overlapped.              *)
THEOREM PicturesSafety == AssetSpec => []PicturesOnce
<1>1. AssetInv => PicturesOnce
  BY DEF AssetInv
<1> QED
  BY <1>1, AssetAlways, PTL
=============================================================================

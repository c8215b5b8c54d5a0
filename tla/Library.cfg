\* Ids are used at most once, so the pictures may come to rest.
SPECIFICATION Spec
CONSTANTS
  Assets = {a1, a2}
  Files = {f1, f2, f3}
  Products = {p1}
  Pictures = {x, y, z}
  Look <- MCLook
  None = None
  Sessions = {s1, s2}
  Hunts = {h1}
  Changes <- MCChanges
  Twin = x
  Projects = {j1}
  Categories = {c1, c2}
  Items = {i1}
  Goods = {g1}
  Names = {"lipstick", "Lipstick"}
  Lower <- MCLower
  Days = {0, 1, 2}
  Nil = Nil
  Planners = {u1, u2}
  Tasks = {t1, t2}
  Attachments = {m1}
  Authors = {}
  NoAsset = NoAsset
SYMMETRY Symmetry
INVARIANTS TypeOK PrimaryMarksAgree FilesKept PicturesOnce RequestsLand ProjectFieldsAgree
PROPERTIES ScoreRefreshed PublishThroughGate
CHECK_DEADLOCK FALSE

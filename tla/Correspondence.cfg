\* Ids are used at most once, so a part may come to rest.
SPECIFICATION Spec
CONSTANTS
  Threads = {h1, h2}
  Drafts = {d1, d2}
  Templates = {g1}
  Texts = {plain, odd}
  Blank = {odd}
  Private = {odd}
  Redacted = plain
  Incoming <- MCIncoming
  Clerks = {s1, s2}
  MaxVersions = 3
  Docs = {k1}
  Wordings = {t1, t2}
  Default = t1
  OfItsType = {t1}
  Patches <- MCPatches
  Editors = {e1, e2}
  MaxDocVersions = 5
  Profiles = {f1, f2, f3}
  Creators = {ann, bob}
  Chiefs = {bob}
  Voices = {v1, v2}
  NoProfile = NoProfile
  Writers = {w1, w2}
  Deals = {deal}
  BaseItems = {b1, b2}
  NegotiatingItems = {n1}
  WonItems = {x1}
  CustomItems = {c1}
  Lists <- MCLists
  Unsent = Unsent
  Requests = {r1, r2}
SYMMETRY Symmetry
INVARIANTS TypeOK HandedTextApproved HistoryComplete PromptTextDecided NegotiatedDealComplete
PROPERTIES ServedProfile WonThroughChecklist
CHECK_DEADLOCK FALSE

\* Two sessions: one archives the product while the other gives it a status.
CONSTANTS
  Products = {p1}
  Deals = {}
  Contents = {c1}
  Assets = {}
  None = None
  Requests = {r1, r2}
SPECIFICATION ConcurrentSpec
PROPERTY ArchivedForever
CHECK_DEADLOCK FALSE

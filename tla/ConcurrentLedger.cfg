\* Every id is used at most once, so the run ends when all are deleted.
CONSTANTS
  Products = {p1}
  Deals = {}
  Contents = {}
  Assets = {}
  None = None
  Requests = {r1, r2}
SYMMETRY Sessions
SPECIFICATION ProductSpec
INVARIANT InFlightBalanced
CHECK_DEADLOCK FALSE

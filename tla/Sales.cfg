\* Every id is used at most once, so the run ends when all are deleted.
CONSTANTS
  Products = {p1}
  Deals = {d1}
  Contents = {c1}
  Assets = {a1}
  None = None
SPECIFICATION DeskSpec
INVARIANTS DecisionHasReason LedgerBacksStatus
PROPERTIES SaleSweepsLinks WorkflowStepsAllowed SoldLeavesInventory LifecycleKept
CHECK_DEADLOCK FALSE

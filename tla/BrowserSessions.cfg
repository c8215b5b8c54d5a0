\* Calls are made once, so the run ends when all are.
CONSTANTS
  t1 = t1
  t2 = t2
  k1 = k1
  k2 = k2
  k3 = k3
  d1 = d1
  Tabs <- MCTabs
  Calls <- MCCalls
  Dialogs <- MCDialogs
  DialogOf <- MCDialogOf
  Slots <- MCSlots
  CallOps <- MCCallOps
  Sessions = {s1, s2}
  MaxPairs = 3
  MaxFaults = 1
SPECIFICATION FairSpec
INVARIANTS TypeOK ReuseMeansOverlap OpenPairAccepted LogoutEndsSession
PROPERTIES EndedStaysEnded CallsEnd
ACTION_CONSTRAINT InOrder
CHECK_DEADLOCK FALSE

\* A purged account stays away, so the run ends when all are purged.
CONSTANTS
  Users = {u1, u2}
  Sessions = {s1, s2}
  None = None
  Grace = 2
  MaxFailed = 2
SPECIFICATION FairSpec
INVARIANTS TypeOK DoomedStayDue LockCounted
PROPERTIES DeletionCompletes DeletionKept
CHECK_DEADLOCK FALSE

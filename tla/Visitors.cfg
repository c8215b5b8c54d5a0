SPECIFICATION Spec
CONSTANTS
  Names = {admin, ann}
  Admin = admin
  Passwords = {p1, p2}
  Requests = {x1, x2}
  Tokens = {t1, t2}
  Contexts = {home}
  Logins = {l1, l2}
  Flights = {f1, f2}
  MaxPasswords = 2
  Processes = {w1, w2}
  Limit = 2
  Window = 2
  MaxTime = 5
  MaxRequests = 5
SYMMETRY Symmetry
INVARIANTS TypeOK DecisionRecorded OneLiveToken ResetEndsSessions AtMostLimit PacedNeverRefused
PROPERTY SetupOnce
CHECK_DEADLOCK FALSE

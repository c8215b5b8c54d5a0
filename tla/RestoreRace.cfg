CONSTANTS
  Users = {u1}
  Sessions = {s1, s2}
  None = None
  Grace = 2
  MaxFailed = 2
SPECIFICATION ConcurrentSpec
PROPERTIES OnlyLeaversPurged
CHECK_DEADLOCK FALSE

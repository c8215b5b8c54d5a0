\* Serial requests: changes of an approved deal's checklist.
CONSTANTS
  Deals = {d1}
  BaseItems = {b1}
  NegotiatingItems = {n1}
  WonItems = {w1}
  CustomItems = {}
  Lists <- MCLists
  Unsent = Unsent
  Requests = {r1}
SPECIFICATION QuietSpec
PROPERTY ApprovedChecklistReviewed

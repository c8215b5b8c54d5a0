\* Serial requests: what a move into review validates.
CONSTANTS
  Deals = {d1}
  BaseItems = {b1}
  NegotiatingItems = {n1}
  WonItems = {w1}
  CustomItems = {}
  Lists <- MCLists
  Unsent = Unsent
  Requests = {r1}
SPECIFICATION DealsSpec
INVARIANT ReviewedDealComplete

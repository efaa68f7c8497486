\* An order paid in cash is cancelled twice.
SPECIFICATION Spec
CONSTANTS
  s1 = s1
  web = web
  p1 = p1
  p2 = p2
  c1 = c1
  c2 = c2
  adj = adj
  charged = charged
  paid = paid
  Origin = Origin
  NoOne = NoOne
  Sales = {s1}
  WebOrders = {web}
  Purchases = {p1, p2}
  Cancels = {c1, c2}
  Adjustments = {adj}
  Mixes <- JustCancels
  Units <- AllUnits
  Orders = {paid}
  OrderOf <- SamePaid
  OnAccount = {}
  InitialStock = 2
  MaxAttempts = 2
INVARIANTS
  RestockedOnce

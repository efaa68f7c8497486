\* Every kind of writer, with and without a first row.
SPECIFICATION FairSpec
CONSTANTS
  s1 = s1
  web = web
  p1 = p1
  p2 = p2
  c1 = c1
  c2 = c2
  adj = adj
  charged = charged
  paid = paid
  Origin = Origin
  NoOne = NoOne
  Sales = {s1}
  WebOrders = {web}
  Purchases = {p1, p2}
  Cancels = {c1, c2}
  Adjustments = {adj}
  Mixes <- AllMixes
  Units <- AllUnits
  Orders = {charged}
  OrderOf <- SameCharged
  OnAccount = {charged}
  InitialStock = 2
  MaxAttempts = 2
INVARIANTS
  TypeOK
  RestockedOnceOnAccount
PROPERTIES
  BookSpec
  SaleNeverOverdraws
  EveryCallEnds

SPECIFICATION Spec
CONSTANTS
  o1 = o1
  o2 = o2
  t1 = t1
  t2 = t2
  t3 = t3
  f1 = f1
  c1 = c1
  c2 = c2
  NoOne = NoOne
  Orders <- MCOrders
  Tickets <- MCTickets
  Fiscals <- MCFiscals
  Cancels <- MCCancels
  OrderOf <- MCOrderOf
  MaxAttempts = 2
INVARIANTS
  IssuedIsAuthorised
  CancelledIsVoided
  VoidedOnce
PROPERTIES
  OneDocumentUnlessOverlap
CHECK_DEADLOCK FALSE

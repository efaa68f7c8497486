SPECIFICATION Spec
CONSTANTS
  s1 = s1
  s2 = s2
  r1 = r1
  r2 = r2
  d1 = d1
  d2 = d2
  o1 = o1
  NoOne = NoOne
  Changes = {s1, s2}
  Delta <- DeltaOf
  Retries = {r1, r2}
  RetryOf <- RetriedBy
  Deliveries = {d1, d2}
  WebOrders = {o1}
  OrderOf <- WebOrderOf
  FirstStock = 1
  MaxAttempts = 2
  MaxFaults = 1
INVARIANTS
  OncePerWebOrder
  SuccessIsProcessed
  ShopInStep
CHECK_DEADLOCK FALSE

\* A sale, its two cancellations, a repeated collection and a correction.
SPECIFICATION FairSpec
CONSTANTS
  sale = sale
  cancel1 = cancel1
  cancel2 = cancel2
  collect = collect
  retry = retry
  correct = correct
  o1 = o1
  k1 = k1
  NoOne = NoOne
  NoOrder = NoOrder
  NoKey = NoKey
  NoLimit = NoLimit
  Ops = {sale, cancel1, cancel2, collect, retry, correct}
  Orders = {o1}
  Keys = {k1}
  Kind <- CallKind
  Amount <- CallAmount
  OrderOf <- CallOrder
  KeyOf <- CallKey
  Limits = {4}
  InitialBalance = 0
INVARIANTS
  LedgerChained
  PostedOnce
  CancelledOrdersOweNothing
PROPERTIES
  LimitRespected
  EveryOpEnds

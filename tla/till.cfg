\* Two shifts, two sales, two movements, two closings and a cancellation.
SPECIFICATION Spec
CONSTANTS
  morning = morning
  evening = evening
  order1 = order1
  order2 = order2
  withdraw = withdraw
  collect = collect
  close1 = close1
  close2 = close2
  cancel1 = cancel1
  NoShift = NoShift
  Opens = {morning, evening}
  Sales = {order1, order2}
  Movements = {withdraw, collect}
  Closes = {close1, close2}
  Cancels = {cancel1}
  Initial <- InitialOf
  Payment <- PaymentOf
  Amount <- AmountOf
  Cancelled <- CancelledOf
SYMMETRY TillSymmetry
CHECK_DEADLOCK FALSE
INVARIANTS
  TypeOK
  OneOpenShift
  QuietCloseReconciles
PROPERTIES
  ClosedShiftSettles
  CloseCountsRows

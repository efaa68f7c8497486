\* One shift, one sale, its cancellation and the closing.
SPECIFICATION Spec
CONSTANTS
  morning = morning
  evening = evening
  order1 = order1
  order2 = order2
  withdraw = withdraw
  collect = collect
  close1 = close1
  close2 = close2
  cancel1 = cancel1
  NoShift = NoShift
  Opens = {morning}
  Sales = {order1}
  Movements = {}
  Closes = {close1}
  Cancels = {cancel1}
  Initial <- InitialOf
  Payment <- PaymentOf
  Amount <- AmountOf
  Cancelled <- CancelledOf
CHECK_DEADLOCK FALSE
PROPERTIES
  CancelledOnlyWhileOpen

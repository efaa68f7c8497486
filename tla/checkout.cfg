\* Opposite carts, the last eggs and a double line.
SPECIFICATION FairSpec
CONSTANTS
  r1 = r1
  r2 = r2
  r3 = r3
  r4 = r4
  milk = milk
  bread = bread
  eggs = eggs
  NoOne = NoOne
  Requests = {r1, r2, r3, r4}
  Items = {milk, bread, eggs}
  Lines <- CrossedCarts
  Need <- CrossedNeed
  InitialStock <- CrossedStock
  MaxAttempts = 2
INVARIANTS
  TypeOK
  NoOversell
  StockAccounted
  NumbersGapFree
  ExhaustedMeansContention
  DeadlockNeedsCrossedCarts
PROPERTIES
  LedgerSpec
  EveryCallEnds

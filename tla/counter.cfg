SPECIFICATION ScreenSpec
CONSTANTS
  a = a
  b = b
  q1 = q1
  r1 = r1
  r2 = r2
  NoQuote = NoQuote
  NoRequest = NoRequest
  Products = {a, b}
  Quotes = {q1}
  Confirmations = {r1, r2}
  PricesOf <- MCPrices
  OwnDiscounts <- MCOwn
  GlobalDiscounts <- MCGlobal
  Extras = {20}
  Limit = 23
  MaxQuantity = 2
  MaxWork = 4
SYMMETRY RequestSymmetry
INVARIANTS
  ScreenTypeOK
  DrawerKeepsTotal
  TwiceOnlyIfLeft
PROPERTIES
  QuoteHonoured
  QuoteOfItsCart
CHECK_DEADLOCK FALSE

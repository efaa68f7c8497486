SPECIFICATION FairSpec
CONSTANTS
  q1 = q1
  q2 = q2
  q3 = q3
  s1 = s1
  s2 = s2
  s3 = s3
  c1 = c1
  main = main
  branch = branch
  NoOne = NoOne
  Creations = {q1, q2}
  Conversions = {s1, s2, s3}
  Cancellations = {c1}
  StoreOf <- OneStore
  QuoteOf <- TwoQuotes
  MaxAttempts = 2
PROPERTIES
  SettledForGood
  EveryCallEnds
CHECK_DEADLOCK FALSE

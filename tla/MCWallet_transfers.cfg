SPECIFICATION FairSpec
CONSTANTS
  w1 = w1
  w2 = w2
  m1 = m1
  m2 = m2
  NoKey = NoKey
  Free = Free
  Workers = {w1, w2}
  Wallets = {m1, m2}
  Keys = {}
  Kinds <- TransfersAndTopUps
  Amounts = {1, 2}
  MaxOps = 4
  RawRowsMapped = TRUE
INVARIANTS
  TransfersBalance
PROPERTIES
  EveryRequestEnds
CHECK_DEADLOCK FALSE

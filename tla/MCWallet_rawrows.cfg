SPECIFICATION Spec
CONSTANTS
  w1 = w1
  w2 = w2
  m1 = m1
  k1 = k1
  NoKey = NoKey
  Free = Free
  Workers = {w1, w2}
  Wallets = {m1}
  Keys = {k1}
  Kinds <- TransfersAndTopUps
  Amounts = {1, 2}
  MaxOps = 3
  RawRowsMapped = FALSE
PROPERTIES
  CreditIsApplied
CHECK_DEADLOCK FALSE

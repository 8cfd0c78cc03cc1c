SPECIFICATION Spec
SYMMETRY Symmetry
CONSTANTS
  w1 = w1
  w2 = w2
  m1 = m1
  m2 = m2
  k1 = k1
  NoKey = NoKey
  Free = Free
  Workers = {w1, w2}
  Wallets = {m1, m2}
  Keys = {k1}
  Kinds <- AllKinds
  Amounts = {1}
  MaxOps = 4
  RawRowsMapped = TRUE
INVARIANTS
  LedgerSound
  LedgerExplainsTotal
CHECK_DEADLOCK FALSE

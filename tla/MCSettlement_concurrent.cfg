SPECIFICATION MCSpec
SYMMETRY WorkerSymmetry
CONSTANTS
  w1 = w1
  w2 = w2
  m1 = m1
  m2 = m2
  k1 = k1
  NoKey = NoKey
  Workers = {w1, w2}
  Wallets = {m1, m2}
  Opening <- OneAndTwo
  Minimum = 1
  RequiresApproval = TRUE
  Keys = {k1}
  MaxBatches = 2
  MaxOps = 6
  MaxFaults = 1
INVARIANTS
  TypeOK
  PaidAsApproved
  MoneyAccounted
  PayoutsUnlessMixed
CHECK_DEADLOCK FALSE

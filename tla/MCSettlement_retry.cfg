SPECIFICATION MCSpec
CONSTANTS
  w1 = w1
  m1 = m1
  m2 = m2
  NoKey = NoKey
  Workers = {w1}
  Wallets = {m2}
  Opening <- OnlyTwo
  Minimum = 1
  RequiresApproval = FALSE
  Keys = {}
  MaxBatches = 1
  MaxOps = 4
  MaxFaults = 1
INVARIANTS
  DebitedCanFinish
CHECK_DEADLOCK FALSE

SPECIFICATION Spec
CONSTANTS
  w1 = w1
  w2 = w2
  Workers = {w1, w2}
  Providers = {"KOPOKOPO"}
  Amount = 1
  RefundAmounts = {1}
  RefundKeys = {"k1"}
  MaxRequests = 1
  MaxRefunds = 1
  MaxOps = 3
  MaxFaults = 0
INVARIANTS
  ClaimIsExclusive
CHECK_DEADLOCK FALSE
